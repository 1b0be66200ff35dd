---------------------------- MODULE ErrorClasses ----------------------------
(***************************************************************************)
(* classify_error: the if-chain that maps an exception of a turn to the    *)
(* code, the retry button and the status that the client sees.             *)
(***************************************************************************)
EXTENDS Naturals, Sequences

VARIABLE error \* an exception: its class, its message, its retry header

\* The classes that a turn can raise, with their bases in the libraries.  The
\* ORM wraps psycopg's errors in classes of its own that share no base with them.
Base == [
    RateLimitError      |-> "APIStatusError",
    BadRequestError     |-> "APIStatusError",
    AuthenticationError |-> "APIStatusError",
    InternalServerError |-> "APIStatusError",
    NotFoundError       |-> "APIStatusError",
    APIStatusError      |-> "APIError",
    APITimeoutError     |-> "APIConnectionError",
    APIConnectionError  |-> "APIError",
    APIError            |-> "Exception",
    GraphRecursionError |-> "RecursionError",
    RecursionError      |-> "Exception",
    InvalidUpdateError  |-> "Exception",
    ValidationError     |-> "ValueError",
    ValueError          |-> "Exception",
    PoolTimeout         |-> "OperationalError",
    OperationalError    |-> "DatabaseError",
    DatabaseError       |-> "Exception",
    DjangoOperationalError |-> "DjangoDatabaseError",
    DjangoDatabaseError    |-> "Exception",
    ConnectError        |-> "TransportError",
    ReadTimeout         |-> "TransportError",
    ConnectTimeout      |-> "TransportError",
    TransportError      |-> "Exception"]
ErrorClass == DOMAIN Base
Mro[c \in ErrorClass \cup {"Exception"}] == IF c = "Exception" THEN {c} ELSE {c} \cup Mro[Base[c]]

Info(code, retryable, status) == [code |-> code, retryable |-> retryable, status |-> status, wait |-> FALSE]

\* The tests in the order of the code: a class, and what to answer.
Rules == <<
    <<"RateLimitError",      Info("RATE_LIMIT", TRUE, 429)>>,
    <<"BadRequestError",     Info("BAD_REQUEST", FALSE, 400)>>,
    <<"AuthenticationError", Info("AUTH", FALSE, 500)>>,
    <<"APITimeoutError",     Info("PROVIDER_TIMEOUT", TRUE, 504)>>,
    <<"APIConnectionError",  Info("PROVIDER_NETWORK", TRUE, 503)>>,
    <<"InternalServerError", Info("PROVIDER_DOWN", TRUE, 502)>>,
    <<"GraphRecursionError", Info("RECURSION_LIMIT", FALSE, 500)>>,
    <<"InvalidUpdateError",  Info("INTERNAL", FALSE, 500)>>,
    <<"ValidationError",     Info("SCHEMA", TRUE, 500)>>,
    <<"OperationalError",    Info("DB_DOWN", TRUE, 503)>>,
    <<"ConnectError",        Info("PROVIDER_NETWORK", TRUE, 503)>>,
    <<"ReadTimeout",         Info("PROVIDER_NETWORK", TRUE, 503)>> >>
Fallback == Info("INTERNAL", FALSE, 500)

\* _extract_retry_after: a header that is a number, in either of two forms.
RetryAfter(e) == e.header \in {"ms", "seconds"}

(* Mutant: the last test that applies decides. *)
ClassifyLast(e) ==
    LET hits == {k \in DOMAIN Rules : Rules[k][1] \in Mro[e.class]}
        last == CHOOSE k \in hits : \A j \in hits : j <= k
        info == IF hits = {} THEN Fallback ELSE Rules[last][2]
    IN CASE info.code = "RATE_LIMIT" -> [info EXCEPT !.wait = RetryAfter(e)]
         [] info.code = "BAD_REQUEST" /\ e.text = "too long" -> Info("CONTEXT_OVERFLOW", FALSE, 400)
         [] OTHER -> info

\* classify_error: the first test that applies; a bad request is told apart by its text.
Classify(e) ==
    LET hits == {k \in DOMAIN Rules : Rules[k][1] \in Mro[e.class]}
        first == CHOOSE k \in hits : \A j \in hits : k <= j
        info == IF hits = {} THEN Fallback ELSE Rules[first][2]
    IN CASE info.code = "RATE_LIMIT" -> [info EXCEPT !.wait = RetryAfter(e)]
         [] info.code = "BAD_REQUEST" /\ e.text = "too long" -> Info("CONTEXT_OVERFLOW", FALSE, 400)
         [] OTHER -> info

ErrorInit == error \in [class : ErrorClass, text : {"too long", "other"},
                        header : {"none", "ms", "seconds", "unreadable"}]

-----------------------------------------------------------------------------
\* "More specific subclasses come before their parents" (errors.py): an
\* exception is answered as the nearest of its bases that has an answer, a
\* conversation that is too long is never offered a retry, and a countdown is
\* shown exactly for a busy provider that has said how long.
MostSpecificFirst ==
    LET answered == {Rules[k][1] : k \in DOMAIN Rules} \cap Mro[error.class]
        nearest == {c \in answered : \A d \in answered : c \in Mro[d] => c = d}
        info == Classify(error)
    IN /\ answered = {} => info = Fallback
       /\ \A c \in nearest, k \in DOMAIN Rules : Rules[k][1] = c =>
            IF c = "BadRequestError"
            THEN ~info.retryable /\ (info.code = "CONTEXT_OVERFLOW" <=> error.text = "too long")
            ELSE info.code = Rules[k][2].code /\ info.retryable = Rules[k][2].retryable
       /\ info.wait => info.retryable /\ "RateLimitError" \in Mro[error.class]
       /\ "RateLimitError" \in Mro[error.class] /\ error.header \in {"ms", "seconds"} => info.wait
=============================================================================
