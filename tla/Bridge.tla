------------------------------- MODULE Bridge ------------------------------
(***************************************************************************)
(* The Telegram bridge (dume/control/telegram.py, the loop of               *)
(* dume/cli.py cmd_telegram) over the gateway, and what the commands it lets *)
(* through change (dume/control/intent_handler.py).  The server keeps the    *)
(* updates until the offset of a getUpdates passes them; the bridge keeps    *)
(* its offset, the rate windows and the nonces in memory, and dies of any    *)
(* call to Telegram that fails.  The clock stands still: a behaviour lies    *)
(* within one rate window.                                                   *)
(***************************************************************************)
EXTENDS Gateway

CONSTANTS
    Update,       \* what can be sent to the bot, see Message
    FirstGrants,  \* what the file may hold at first
    MaxUpdates,   \* bound: updates sent
    MaxDeaths,    \* bound: how often the process dies, for whatever reason
    MaxGrants     \* bound: calls of authorise()

\* Everything interpret() reads in a message is a command of class READ (address.py).
ASSUME BridgeAssumption ==
    /\ \A u \in Update : /\ u.from \in Actor /\ u.forwarded \in BOOLEAN
                         /\ u.text.reading \in Read \cup {None}
    /\ FirstGrants \subseteq Grants
    /\ MaxUpdates \in Nat /\ MaxDeaths \in Nat /\ MaxGrants \in Nat

VARIABLES
    allowed,      \* the file: the class each sender is authorised up to, or None
    sent,         \* every update sent to the bot; its number is its update_id
    forgotten,    \* the server has dropped the updates up to this one
    offset,       \* _offset
    batch,        \* the updates of the last getUpdates not yet taken up
    at,           \* where the loop stands: "down", "poll", "converse" or "send"
    current,      \* the update being handled, or 0
    paused,       \* state/PAUSED exists
    started,      \* updates that started a commissioning run
    done,         \* commands that changed something, in the order they did
    handled,      \* how often each update was handled
    deaths, grants

bvars == <<gvars, allowed, sent, forgotten, offset, batch, at, current, paused,
          started, done, handled, deaths, grants>>

\* The field Telegram fills in names the sender; a "/" is kept apart from the words.
Message(from, text, forwarded, slash) ==
    [from |-> from, text |-> text, forwarded |-> forwarded, slash |-> slash]

BridgeInit ==
    /\ now = 0 /\ recent = [a \in Actor |-> {}] /\ pending = <<>> /\ audit = <<>>
    /\ allowed \in FirstGrants /\ principals = allowed
    /\ sent = <<>> /\ forgotten = 0 /\ offset = 0 /\ batch = <<>>
    /\ at = "poll" /\ current = 0
    /\ paused = FALSE /\ started = {} /\ done = <<>>
    /\ handled = [i \in 1..MaxUpdates |-> 0]
    /\ deaths = 0 /\ grants = 0

\* Somebody writes to the bot.
Send(u) ==
    /\ Len(sent) < MaxUpdates
    /\ sent' = Append(sent, u)
    /\ UNCHANGED <<gvars, allowed, forgotten, offset, batch, at, current, paused,
                   started, done, handled, deaths, grants>>

\* Mutant: any word is taken for a class.
AuthoriseUnchecked(a, class) ==
    /\ grants < MaxGrants
    /\ allowed' = [allowed EXCEPT ![a] = "OWNER"]
    /\ grants' = grants + 1
    /\ UNCHANGED <<gvars, sent, forgotten, offset, batch, at, current, paused, started,
                   done, handled, deaths>>

\* authorise(): the file changes, a running bridge does not see it.
Authorise(a, class) ==
    /\ grants < MaxGrants
    /\ allowed' = [allowed EXCEPT ![a] = class]
    /\ grants' = grants + 1
    /\ UNCHANGED <<gvars, sent, forgotten, offset, batch, at, current, paused, started,
                   done, handled, deaths>>

-----------------------------------------------------------------------------
(* poll_once() *)

\* Mutant: fetching the updates already drops them at the server.
AcknowledgedAtOnce == Len(sent)

\* What an offset tells the server to drop; no offset, after a start, drops nothing.
Acknowledged == IF offset = 0 THEN forgotten ELSE offset - 1

\* Mutant: the offset is not passed on.
FetchedFromTheStart(low) == [i \in 1..Len(sent) |-> i]

\* Mutant: the newest update is taken up first.
FetchedNewestFirst(low) == [i \in 1..(Len(sent) - low) |-> Len(sent) + 1 - i]

Fetched(low) == [i \in 1..(Len(sent) - low) |-> low + i]

\* getUpdates: what the offset has passed is dropped, the rest is returned.
Poll ==
    /\ at = "poll" /\ batch = <<>>
    /\ forgotten' = Acknowledged
    /\ batch' = Fetched(Acknowledged)
    /\ UNCHANGED <<gvars, allowed, sent, offset, at, current, paused, started, done,
                   handled, deaths, grants>>

-----------------------------------------------------------------------------
(* handle() *)

\* Answered before the gateway sees anything; "here" only when nothing is read in it.
Greetings == {"start", "help"}
Shortcut(text) ==
    \/ text.word \in Greetings
    \/ text.reading = None /\ text.word = "here"

\* What the handler changes; a run is started where the row allows one, a post where
\* the relay takes it, and a command of class READ changes nothing.
Perform(i, action, accepted) ==
    LET effective == action \notin Read /\ accepted
    IN  /\ paused' = IF action \in {"pause", "kill"} THEN TRUE
                     ELSE IF action = "resume" THEN FALSE ELSE paused
        /\ started' = IF action = "commission" /\ effective THEN started \cup {i}
                      ELSE started
        /\ done' = IF effective
                   THEN Append(done, [update |-> i, action |-> action, actor |-> sent[i].from])
                   ELSE done

\* pause, resume and kill cannot fail; the others may be refused or not get through.
Accepted(action) == IF action \in {"pause", "resume", "kill"} THEN {TRUE} ELSE BOOLEAN

\* The actor's id and the rest of the message go to the gateway; an authorised intent
\* goes on to the handler.
Run(i, text, forwarded) ==
    /\ Translate(sent[i].from, text, forwarded)
    /\ IF Refusal(sent[i].from, text, forwarded) # None \/ text.word \in Danger
       THEN UNCHANGED <<paused, started, done>>
       ELSE \E accepted \in Accepted(text.word) : Perform(i, text.word, accepted)

\* Mutant: the marker is forgotten once the message has been taken apart.
CarriesMarker(i) == FALSE

\* is_forwarded()
IsForwarded(i) == sent[i].forwarded

Handle ==
    /\ at = "poll" /\ batch # <<>>
    /\ LET i == Head(batch)
           u == sent[i]
       IN  /\ offset' = IF offset > i + 1 THEN offset ELSE i + 1
           /\ batch' = Tail(batch)
           /\ current' = i
           /\ handled' = [handled EXCEPT ![i] = @ + 1]
           /\ IF Shortcut(u.text)
              THEN at' = "send" /\ UNCHANGED <<recent, pending, audit, paused, started, done>>
              ELSE IF u.text.reading # None
              THEN at' = "send" /\ Run(i, Command(u.text.reading), FALSE)
              ELSE /\ Run(i, u.text, IsForwarded(i))
                   /\ at' = IF /\ Refusal(u.from, u.text, IsForwarded(i)) # None
                               /\ ~IsForwarded(i)
                               /\ principals[u.from] # None
                               /\ ~u.slash
                            THEN "converse" ELSE "send"
    /\ UNCHANGED <<now, principals, allowed, sent, forgotten, deaths, grants>>

\* A refused sentence is answered from the state, read as a command of its own.
Converse ==
    /\ at = "converse"
    /\ Run(current, Command("status"), FALSE)
    /\ at' = "send"
    /\ UNCHANGED <<now, principals, allowed, sent, forgotten, offset, batch, current,
                   handled, deaths, grants>>

\* Mutant: the update is dropped with its reply, and what was fetched with it too.
ReplyDroppingBatch ==
    /\ at = "send"
    /\ at' = "poll" /\ current' = 0 /\ batch' = <<>> /\ offset' = Len(sent) + 1
    /\ UNCHANGED <<gvars, allowed, sent, forgotten, paused, started, done,
                   handled, deaths, grants>>

Reply ==
    /\ at = "send"
    /\ at' = "poll" /\ current' = 0
    /\ UNCHANGED <<gvars, allowed, sent, forgotten, offset, batch, paused, started, done,
                   handled, deaths, grants>>

\* The process ends: Ctrl-C, the host, or a call to Telegram that failed (getUpdates
\* or the reply): cmd_telegram catches neither.
Die ==
    /\ at # "down" /\ deaths < MaxDeaths
    /\ at' = "down" /\ deaths' = deaths + 1
    /\ offset' = 0 /\ batch' = <<>> /\ current' = 0
    /\ recent' = [a \in Actor |-> {}] /\ pending' = <<>>
    /\ UNCHANGED <<now, principals, audit, allowed, sent, forgotten, paused, started,
                   done, handled, grants>>

\* Somebody starts it again: the principals are those of the file.
Restart ==
    /\ at = "down"
    /\ at' = "poll"
    /\ principals' = allowed
    /\ UNCHANGED <<now, recent, pending, audit, allowed, sent, forgotten, offset, batch,
                   current, paused, started, done, handled, deaths, grants>>

BridgeNext ==
    \/ \E u \in Update : Send(u)
    \/ \E a \in Actor, class \in Granted : Authorise(a, class)
    \/ Poll
    \/ Handle
    \/ Converse
    \/ Reply
    \/ Die
    \/ Restart

\* The loop never waits for anything but the server, and the bridge is started again.
BridgeFairness == WF_bvars(Poll) /\ WF_bvars(Handle) /\ WF_bvars(Converse)
                  /\ WF_bvars(Reply) /\ WF_bvars(Restart)

BridgeSpec == BridgeInit /\ [][BridgeNext]_bvars /\ BridgeFairness

-----------------------------------------------------------------------------
(* Properties *)

\* Types; a batch is the next updates in order, and what is being handled precedes it.
BridgeTypeOK ==
    /\ allowed \in Grants
    /\ at \in {"down", "poll", "converse", "send"}
    /\ \A k \in 1..Len(batch) : batch[k] = batch[1] + k - 1
    /\ batch # <<>> => batch[Len(batch)] <= Len(sent)
    /\ current # 0 /\ batch # <<>> => batch[1] = current + 1
    /\ (at \in {"converse", "send"}) = (current # 0)
    /\ started \subseteq 1..Len(sent)

\* The offset is advanced before an update is handled (telegram.py:240), and still an
\* update the server has dropped was handled: whatever fails in between, no command is
\* lost, it is only seen again.
ForgottenWereHandled == \A i \in 1..forgotten : handled[i] > 0

\* An update is seen again only because the process died in between (the offset lives
\* in memory): handled at most once by each process that was started.
HandledOncePerProcess == \A i \in 1..Len(sent) : handled[i] <= deaths + 1

\* "A forwarded message carries no privilege" (command_gateway.py:194): whichever of
\* the two ways handle() takes, nothing is ever changed on a forwarded message.
ForwardedMovesNothing == \A k \in 1..Len(done) : ~sent[done[k].update].forwarded

\* Commands seen again after a death do not turn the pause flag back: once everything
\* sent was handled, the flag is what the newest executed pause or resume says, as long
\* as neither the grants changed meanwhile nor the rate limit refused a part.
LastWordStands ==
    LET words == {k \in 1..Len(done) : done[k].action \in {"pause", "resume"}}
    IN  (/\ at = "poll" /\ batch = <<>> /\ grants = 0 /\ words # {}
         /\ \A i \in 1..Len(audit) : audit[i].reason # "rate"
         /\ (offset = Len(sent) + 1 \/ forgotten = Len(sent)))
        => \E k \in words : /\ \A j \in words : done[j].update <= done[k].update
                            /\ paused = (done[k].action = "pause")

\* Every update is handled in the end, if the process is always started again and does
\* not die for ever.
UpdatesHandled ==
    \A i \in 1..MaxUpdates : (Len(sent) >= i) ~> (handled[i] > 0)

\* "Stop starting new work. Running work finishes." (command_gateway.py:74)
NothingStartsWhilePaused == [][paused => started' = started]_bvars

\* "To go ahead, send exactly: confirm <nonce>" (telegram.py:381): the confirmation of
\* the requester is not refused while its nonce waits.
ConfirmationHeard ==
    [][\A i \in {current'} \ {0} :
         (sent[i].text.word = "confirm" /\ \E n \in DOMAIN pending : pending[n].actor = sent[i].from)
         => audit'[Len(audit')].outcome # "REFUSED"]_bvars
=============================================================================
