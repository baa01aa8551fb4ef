------------------------------ MODULE Gateway ------------------------------
(***************************************************************************)
(* The command gateway (dume/control/command_gateway.py): one message       *)
(* becomes one intent, or a refusal that says why.  What is kept is the     *)
(* order of the refusals (it decides what costs a place in the rate         *)
(* window), the window of each actor, the nonces of dangerous actions and   *)
(* the audit trail.  Wording, ids and argument texts are left out.          *)
(***************************************************************************)
EXTENDS Integers, Sequences, FiniteSets

CONSTANTS
    Actor,           \* the ids a surface can present
    Text,            \* what a message can say, see Says
    RateLimit,       \* rate_limit: commands of one actor in one window
    WindowSeconds,   \* window_seconds
    TTL,             \* ttl_seconds of a nonce
    Granted,         \* the classes an actor may be granted
    None             \* no grant, no nonce, nothing

ASSUME GatewayAssumption ==
    /\ RateLimit \in Nat \ {0}
    /\ WindowSeconds \in Nat \ {0}
    /\ TTL \in Nat

VARIABLES
    now,          \* the clock, in seconds
    principals,   \* the class each actor may command up to, or None
    recent,       \* _recent: the lines of the messages an actor was last let through with
    pending,      \* _pending: nonce to the intent that waits for it
    audit         \* the audit file, oldest first

gvars == <<now, principals, recent, pending, audit>>

-----------------------------------------------------------------------------
(* The command table. *)

Read     == {"status", "show", "history", "findings", "runtimes", "next",
             "evidence", "roles", "ask", "spaces", "commands", "read", "open"}
Control  == {"say", "challenge", "pause", "resume", "retry", "commission",
             "reserve", "release", "disable", "enable"}
Decision == {"decide", "block"}
Danger   == {"kill", "bind_workspace"}

\* ACTIONS
Actions == Read \cup Control \cup Decision \cup Danger

\* CLASS_ORDER
Classes == {"READ", "CONTROL", "HUMAN_DECISION", "DANGEROUS_ACTION"}
Rank(class) == CASE class = "READ" -> 0 [] class = "CONTROL" -> 1
                 [] class = "HUMAN_DECISION" -> 2 [] OTHER -> 3

Klass(a) == CASE a \in Read -> "READ" [] a \in Control -> "CONTROL"
              [] a \in Decision -> "HUMAN_DECISION" [] OTHER -> "DANGEROUS_ACTION"

\* What a message says, as far as anything depends on it: the first word once
\* "@role" is read as "ask role" (or "" when there is none), whether that word is
\* followed by the parameters its action takes, well formed, whether the text looks
\* like an instruction or a shell line, and the command interpret() reads in it.
Says(word, complete, marked, reading) ==
    [word |-> word, complete |-> complete, marked |-> marked, reading |-> reading]

\* What the bridge passes on when it runs a reading: exactly that command.
Command(action) == Says(action, TRUE, FALSE, None)

-----------------------------------------------------------------------------
(* translate() *)

\* The code keeps the times of the entries; here an entry is the position of the
\* audit line that has its time.  Entries older than the window are dropped on the way.
Window(a) == {i \in recent[a] : now - audit[i].at < WindowSeconds}

\* Mutant: one command too many.
FullLate(a) == Cardinality(Window(a)) > RateLimit

Full(a) == Cardinality(Window(a)) >= RateLimit

\* Why translate() refuses, in the order it asks, or None.
Refusal(a, text, forwarded) ==
    IF forwarded THEN "forwarded"
    ELSE IF a = "" \/ principals[a] = None THEN "principal"
    ELSE IF Full(a) THEN "rate"
    ELSE IF text.marked THEN "injection"
    ELSE IF text.word \notin Actions THEN "unknown"
    ELSE IF Rank(Klass(text.word)) > Rank(principals[a]) THEN "class"
    ELSE IF ~text.complete THEN "parameters"
    ELSE None

\* These refusals come before the message is counted, and these after.
Uncounted == {"forwarded", "principal", "rate"}
Counted == {"injection", "unknown", "class", "parameters"}

\* What confirm() refuses for.
Unconfirmed == {"no_pending", "other_principal", "expired"}

ASSUME GrantAssumption ==
    /\ Granted \subseteq Classes
    /\ None \notin Nat \cup Actions \cup Classes \cup Uncounted \cup Counted \cup Unconfirmed

\* An audit line.  A nonce is named by the position of the line that issued it.
Line(a, outcome, reason, action, nonce) ==
    [actor |-> a, outcome |-> outcome, reason |-> reason, action |-> action,
     nonce |-> nonce, at |-> now]

\* The line translate() writes for this message.
Verdict(a, text, forwarded) ==
    LET reason == Refusal(a, text, forwarded)
    IN  IF reason # None THEN Line(a, "REFUSED", reason, None, None)
        ELSE IF text.word \in Danger
          THEN Line(a, "AWAITING_CONFIRMATION", None, text.word, Len(audit) + 1)
        ELSE Line(a, "AUTHORISED", None, text.word, None)

\* Mutant: only commands that are let through take a place in the window.
CountAuthorisedOnly(a, line) ==
    recent' = IF line.outcome = "REFUSED" THEN recent
              ELSE [recent EXCEPT ![a] = Window(a) \cup {Len(audit) + 1}]

\* Everything past the rate check takes a place, refused later or not.
Count(a, line) ==
    recent' = IF line.reason \in Uncounted THEN recent
              ELSE [recent EXCEPT ![a] = Window(a) \cup {Len(audit) + 1}]

Translate(a, text, forwarded) ==
    LET line == Verdict(a, text, forwarded)
    IN  /\ audit' = Append(audit, line)
        /\ Count(a, line)
        /\ pending' = IF line.outcome # "AWAITING_CONFIRMATION" THEN pending
                      ELSE [n \in DOMAIN pending \cup {line.nonce} |->
                              IF n = line.nonce
                                THEN [action |-> line.action, actor |-> a, at |-> now]
                                ELSE pending[n]]

-----------------------------------------------------------------------------
(* confirm() *)

\* Mutant: whoever has the nonce may confirm it.
ConfirmRefusalOfNobody(a, nonce) ==
    IF nonce \notin DOMAIN pending THEN "no_pending"
    ELSE IF now - pending[nonce].at > TTL THEN "expired"
    ELSE None

\* Why confirm() refuses, or None.
ConfirmRefusal(a, nonce) ==
    IF nonce \notin DOMAIN pending THEN "no_pending"
    ELSE IF pending[nonce].actor # a THEN "other_principal"
    ELSE IF now - pending[nonce].at > TTL THEN "expired"
    ELSE None

\* Mutant: a refused confirmation leaves the nonce where it is.
ConsumeIfConfirmed(nonce, reason) ==
    pending' = IF reason # None THEN pending
               ELSE [n \in DOMAIN pending \ {nonce} |-> pending[n]]

\* The nonce is consumed first, whether or not the confirmation succeeds.
Consume(nonce, reason) ==
    pending' = [n \in DOMAIN pending \ {nonce} |-> pending[n]]

Confirm(a, nonce) ==
    LET reason == ConfirmRefusal(a, nonce)
    IN  /\ audit' = Append(audit, IF reason # None
                                  THEN Line(a, "REFUSED", reason, None, nonce)
                                  ELSE Line(a, "CONFIRMED", None,
                                            pending[nonce].action, nonce))
        /\ Consume(nonce, reason)
        /\ UNCHANGED <<now, principals, recent>>

-----------------------------------------------------------------------------
(* A surface that calls the gateway in any order, as time passes. *)

CONSTANTS
    MaxCalls,   \* bound: lines in the audit file
    MaxTime     \* bound: the last second

Grants == [Actor -> Classes \cup {None}]

GatewayInit ==
    /\ now = 0
    /\ principals \in [Actor -> Granted \cup {None}]
    /\ recent = [a \in Actor |-> {}]
    /\ pending = <<>>
    /\ audit = <<>>

Receive(a, text, forwarded) ==
    /\ Len(audit) < MaxCalls
    /\ Translate(a, text, forwarded)
    /\ UNCHANGED <<now, principals>>

\* 0 is a nonce that was never issued.
Nonces == {0} \cup {i \in 1..Len(audit) : audit[i].outcome = "AWAITING_CONFIRMATION"}
Confirmed(a, nonce) == Len(audit) < MaxCalls /\ Confirm(a, nonce)

Tick == now < MaxTime /\ now' = now + 1 /\ UNCHANGED <<principals, recent, pending, audit>>

GatewayNext ==
    \/ \E a \in Actor, text \in Text, forwarded \in BOOLEAN : Receive(a, text, forwarded)
    \/ \E a \in Actor, nonce \in Nonces : Confirmed(a, nonce)
    \/ Tick

GatewaySpec == GatewayInit /\ [][GatewayNext]_gvars

-----------------------------------------------------------------------------
(* Properties *)

Lines == 1..Len(audit)

\* Types, and what pending holds: the nonces that were issued and not yet tried.
GatewayTypeOK ==
    /\ now \in Nat
    /\ principals \in Grants
    /\ recent \in [Actor -> SUBSET Lines]
    /\ DOMAIN pending =
         {i \in Lines : audit[i].outcome = "AWAITING_CONFIRMATION"} \
         {audit[i].nonce : i \in {j \in Lines : audit[j].outcome # "AWAITING_CONFIRMATION"}}

\* The lines of one actor that passed the rate check.
CountedLines(a) ==
    {i \in Lines : /\ audit[i].actor = a
                   /\ \/ audit[i].outcome \in {"AUTHORISED", "AWAITING_CONFIRMATION"}
                      \/ audit[i].reason \in Counted}

\* The rate limit (command_gateway.py:210) over the whole audit file: whatever the
\* order of refusals and the ageing of entries, no window of WindowSeconds holds more
\* than RateLimit messages of one actor that were looked at.
RateBounded ==
    \A i \in Lines :
        LET a == audit[i].actor
        IN  Cardinality({j \in CountedLines(a) :
                audit[j].at <= audit[i].at /\ audit[i].at - audit[j].at < WindowSeconds})
            <= RateLimit

\* Nobody is refused for a rate he did not reach: when the limit refuses, RateLimit of
\* his own messages had been looked at within the window, not those of another actor
\* and not ones that were refused before they counted.
RateRefusalEarned ==
    \A i \in Lines : audit[i].reason = "rate" =>
        Cardinality({j \in CountedLines(audit[i].actor) :
            j < i /\ audit[i].at - audit[j].at < WindowSeconds}) = RateLimit

\* A dangerous action that is confirmed (command_gateway.py:289) was requested by the
\* same actor, in time, and its nonce had never been tried before, by anybody.
ConfirmedOnceByItsRequester ==
    \A i \in Lines : audit[i].outcome = "CONFIRMED" =>
        LET n == audit[i].nonce
        IN  /\ audit[n].outcome = "AWAITING_CONFIRMATION"
            /\ audit[n].actor = audit[i].actor
            /\ audit[n].action = audit[i].action
            /\ audit[i].at - audit[n].at <= TTL
            /\ \A j \in (n + 1)..(i - 1) : audit[j].nonce # n
=============================================================================
