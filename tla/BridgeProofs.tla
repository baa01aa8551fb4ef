----------------------------- MODULE BridgeProofs -----------------------------
(***************************************************************************)
(* What the bridge guarantees for every sequence of updates, every order   *)
(* in which they arrive and are fetched, and wherever its process dies.    *)
(***************************************************************************)
EXTENDS Bridge, GatewayProofs

(***************************************************************************)
(* The inductive invariant.                                                *)
(***************************************************************************)

\* How far the bridge has come: the last update handled by this process or, if there
\* is none, the last one the server has dropped.
Reached == IF offset = 0 THEN forgotten ELSE offset - 1

Entry == [update : Nat, action : Actions, actor : Actor]

BType ==
    /\ GType /\ allowed \in Grants /\ sent \in Seq(Update) /\ Len(sent) <= MaxUpdates
    /\ forgotten \in Nat /\ offset \in Nat /\ current \in Nat
    /\ deaths \in Nat /\ grants \in Nat
    /\ batch \in Seq(Nat) /\ at \in {"down", "poll", "converse", "send"}
    /\ paused \in BOOLEAN /\ started \subseteq 1..Len(sent)
    /\ done \in Seq(Entry) /\ handled \in [1..MaxUpdates -> Nat]
    /\ \A k \in 1..Len(done) : done[k].update \in 1..Len(sent)

\* The server is never ahead of the process, and the batch goes on where it stands.
QueueInv ==
    /\ forgotten <= Reached /\ Reached + Len(batch) <= Len(sent)
    /\ \A k \in 1..Len(batch) : batch[k] = Reached + k
    /\ at = "down" => offset = 0 /\ batch = <<>>
    /\ (at \in {"converse", "send"}) <=> current # 0
    /\ current # 0 => current = Reached

\* What this process has passed was handled, and once by each process at most.
HandledInv ==
    \A i \in 1..MaxUpdates :
        /\ i <= Reached => handled[i] > 0
        /\ handled[i] <= deaths + (IF i <= Reached THEN 1 ELSE 0)

\* The updates that move the flag whenever they are handled, unless the rate limit
\* refuses them, and the commands that did.
Lasting(i) ==
    LET u == sent[i]
    IN  /\ u.text.word \in {"pause", "resume"} /\ ~Shortcut(u.text)
        /\ u.text.reading = None /\ ~u.forwarded
        /\ u.from # "" /\ principals[u.from] # None
        /\ ~u.text.marked /\ u.text.complete
        /\ ~(Rank(Klass(u.text.word)) > Rank(principals[u.from]))
Words == {k \in 1..Len(done) : done[k].action \in {"pause", "resume"}}
Movers == {done[k].update : k \in Words}
Unlimited == grants = 0 /\ \A n \in 1..Len(audit) : audit[n].reason # "rate"

\* Whoever moved the flag last is the newest of those this process has passed: the
\* newer ones, executed before a death, are still to be handled again.
FlagInv ==
    /\ grants = 0 => principals = allowed
    /\ Unlimited =>
         /\ \A m \in Movers : Lasting(m)
         /\ Words # {} => \E k \in Words :
              /\ paused = (done[k].action = "pause")
              /\ \A j \in Words : done[j].update <= done[k].update \/ done[j].update > Reached

BInv == BType /\ QueueInv /\ HandledInv /\ ForwardedMovesNothing /\ FlagInv

(***************************************************************************)
(* What running one command changes.                                       *)
(***************************************************************************)
LEMMA KindsOfActions ==
    /\ Read \subseteq Actions /\ {"pause", "resume"} \subseteq Actions
    /\ "pause" \notin Read \cup Danger /\ "resume" \notin Read \cup Danger
    /\ "kill" \in Danger /\ "status" \in Read
    /\ Read \cap Danger = {} /\ "commission" \notin Read
BY DEF Actions, Read, Control, Decision, Danger

LEMMA NoneIsNoAction == None \notin Actions
BY GrantAssumption

LEMMA PerformIs ==
    ASSUME NEW i, NEW action \in Actions \ Danger, NEW accepted \in Accepted(action),
           Perform(i, action, accepted), paused \in BOOLEAN
    PROVE  /\ paused' \in BOOLEAN /\ started' \in {started, started \cup {i}}
           /\ \/ /\ done' = done /\ paused' = paused
                 /\ action \notin {"pause", "resume"}
              \/ /\ action \notin Read
                 /\ done' = Append(done, [update |-> i, action |-> action,
                                          actor |-> sent[i].from])
                 /\ paused' = IF action \in {"pause", "resume"} THEN action = "pause"
                              ELSE paused
           /\ action \in Read => done' = done /\ started' = started
<1>1. action # "kill"  BY KindsOfActions
<1>2. paused' = IF action = "pause" THEN TRUE ELSE IF action = "resume" THEN FALSE ELSE paused
  BY <1>1 DEF Perform
<1>3. action \in {"pause", "resume"} => accepted = TRUE
  BY DEF Accepted
<1>4. accepted \in BOOLEAN  BY DEF Accepted
<1>5. action \in {"pause", "resume"} => action \notin Read
  BY KindsOfActions
<1>6. CASE action \notin Read /\ accepted
  <2>1. /\ done' = Append(done, [update |-> i, action |-> action, actor |-> sent[i].from])
        /\ started' \in {started, started \cup {i}}
    BY <1>6 DEF Perform
  <2> QED BY <1>2, <1>6, <2>1
<1>7. CASE ~(action \notin Read /\ accepted)
  <2>1. done' = done /\ started' = started
    BY <1>7 DEF Perform
  <2>2. action \notin {"pause", "resume"}  BY <1>3, <1>5, <1>7
  <2> QED BY <1>2, <2>1, <2>2
<1> QED BY <1>6, <1>7

LEMMA RunIs ==
    ASSUME GType, NEW i, sent[i].from \in Actor, NEW text, NEW forwarded \in BOOLEAN,
           Run(i, text, forwarded), UNCHANGED <<now, principals>>, paused \in BOOLEAN
    PROVE  /\ GType'
           /\ Len(audit') = Len(audit) + 1 /\ Len(audit) \in Nat
           /\ \A n \in 1..Len(audit) : audit'[n] = audit[n]
           /\ audit'[Len(audit) + 1].reason = Refusal(sent[i].from, text, forwarded)
           /\ Refusal(sent[i].from, text, forwarded) # None \/ text.word \in Danger =>
                UNCHANGED <<paused, started, done>>
           /\ ~(Refusal(sent[i].from, text, forwarded) # None \/ text.word \in Danger) =>
                /\ text.word \in Actions \ Danger
                /\ \E accepted \in Accepted(text.word) : Perform(i, text.word, accepted)
<1> DEFINE a == sent[i].from
           line == Verdict(a, text, forwarded)
           reason == Refusal(a, text, forwarded)
<1>1. /\ line \in AuditLine /\ line.actor = a
      /\ reason = None => text.word \in Actions
  BY VerdictIs, RefusalIs
<1>2. line.reason = reason
  BY DEF Verdict, Line
<1>3. /\ audit' = Append(audit, line)
      /\ recent' = IF line.reason \in Uncounted THEN recent
                   ELSE [recent EXCEPT ![a] = Window(a) \cup {Len(audit) + 1}]
      /\ IF reason # None \/ text.word \in Danger
         THEN UNCHANGED <<paused, started, done>>
         ELSE \E accepted \in Accepted(text.word) : Perform(i, text.word, accepted)
  BY DEF Run, Translate, Count
<1> HIDE DEF line, reason
<1>4. /\ audit' \in Seq(AuditLine) /\ audit'[Len(audit) + 1] = line
      /\ Len(audit) \in Nat /\ Len(audit') = Len(audit) + 1
      /\ \A n \in Lines : audit'[n] = audit[n]
      /\ Lines' = Lines \cup {Len(audit) + 1}
  BY <1>1, <1>3, Appended
<1>5. GType'
  <2>1. recent' \in [Actor -> SUBSET Lines']
    BY <1>3, <1>4 DEF GType, Window
  <2> QED BY <1>4, <2>1 DEF GType
<1>6. \A n \in 1..Len(audit) : audit'[n] = audit[n]
  BY <1>4 DEF Lines
<1> QED BY <1>1, <1>2, <1>3, <1>4, <1>5, <1>6 DEF reason

\* What becomes of update i: it moves nothing, for a reason that would stop it
\* always unless the rate limit stopped it now; or it is executed, and is not forwarded.
Served(i) ==
    /\ GType' /\ paused' \in BOOLEAN /\ started' \in {started, started \cup {i}}
    /\ Len(audit) <= Len(audit') /\ \A n \in 1..Len(audit) : audit'[n] = audit[n]
    /\ \/ /\ done' = done /\ paused' = paused
          /\ (\A n \in 1..Len(audit') : audit'[n].reason # "rate") => ~Lasting(i)
       \/ /\ ~sent[i].forwarded
          /\ \E action \in Actions \ Read :
                /\ done' = Append(done, [update |-> i, action |-> action,
                                         actor |-> sent[i].from])
                /\ paused' = IF action \in {"pause", "resume"} THEN action = "pause"
                             ELSE paused
                /\ action \in {"pause", "resume"} <=> Lasting(i)

LEMMA UpdateIs ==
    ASSUME BType, NEW i \in 1..Len(sent)
    PROVE  /\ sent[i].from \in Actor /\ sent[i].forwarded \in BOOLEAN
           /\ sent[i].text.reading \in Read \cup {None}
<1>1. sent[i] \in Update  BY DEF BType
<1> QED BY <1>1, BridgeAssumption

\* The message itself goes to the gateway.
LEMMA MessageServed ==
    ASSUME BType, NEW i \in 1..Len(sent), ~Shortcut(sent[i].text), sent[i].text.reading = None,
           Run(i, sent[i].text, sent[i].forwarded), UNCHANGED <<now, principals>>
    PROVE  Served(i)
<1> DEFINE u == sent[i]
           reason == Refusal(u.from, u.text, u.forwarded)
<1>1. u.from \in Actor /\ u.forwarded \in BOOLEAN  BY UpdateIs
<1>2. GType /\ paused \in BOOLEAN  BY DEF BType
<1>3. /\ GType'
      /\ Len(audit') = Len(audit) + 1 /\ Len(audit) \in Nat
      /\ \A n \in 1..Len(audit) : audit'[n] = audit[n]
      /\ audit'[Len(audit) + 1].reason = reason
      /\ reason # None \/ u.text.word \in Danger => UNCHANGED <<paused, started, done>>
      /\ ~(reason # None \/ u.text.word \in Danger) =>
           /\ u.text.word \in Actions \ Danger
           /\ \E accepted \in Accepted(u.text.word) : Perform(i, u.text.word, accepted)
  BY <1>1, <1>2, RunIs
<1>4. Len(audit) <= Len(audit') /\ Len(audit) + 1 \in 1..Len(audit')
  BY <1>3
<1>5. (\A n \in 1..Len(audit') : audit'[n].reason # "rate") => reason # "rate"
  BY <1>3, <1>4
<1>6. reason = None /\ u.text.word \in {"pause", "resume"} => Lasting(i)
  <2> SUFFICES ASSUME reason = None, u.text.word \in {"pause", "resume"} PROVE Lasting(i)
    OBVIOUS
  <2>1. None \notin Uncounted \cup Counted  BY GrantAssumption
  <2>2. /\ ~u.forwarded /\ u.from # "" /\ principals[u.from] # None /\ ~u.text.marked
        /\ ~(Rank(Klass(u.text.word)) > Rank(principals[u.from])) /\ u.text.complete
    BY <2>1 DEF Refusal, Uncounted, Counted
  <2> QED BY <2>2 DEF Lasting
<1>7. reason # None /\ reason # "rate" => ~Lasting(i)
  <2> SUFFICES ASSUME reason # None, Lasting(i) PROVE reason = "rate"
    OBVIOUS
  <2>1. u.text.word \in Actions  BY KindsOfActions DEF Lasting
  <2> QED BY <2>1 DEF Lasting, Refusal
<1> HIDE DEF reason
<1>8. CASE reason # None \/ u.text.word \in Danger
  <2>1. UNCHANGED <<paused, started, done>>  BY <1>3, <1>8
  <2>2. (\A n \in 1..Len(audit') : audit'[n].reason # "rate") => ~Lasting(i)
    <3>1. u.text.word \in Danger => ~Lasting(i)  BY KindsOfActions DEF Lasting
    <3> QED BY <1>5, <1>7, <1>8, <3>1
  <2> QED BY <1>2, <1>3, <1>4, <2>1, <2>2 DEF Served
<1>9. CASE ~(reason # None \/ u.text.word \in Danger)
  <2> DEFINE word == u.text.word
  <2>1. word \in Actions \ Danger /\ reason = None  BY <1>3, <1>9
  <2>2. PICK accepted \in Accepted(word) : Perform(i, word, accepted)  BY <1>3, <1>9
  <2>3. /\ paused' \in BOOLEAN /\ started' \in {started, started \cup {i}}
        /\ \/ done' = done /\ paused' = paused /\ word \notin {"pause", "resume"}
           \/ /\ word \notin Read
              /\ done' = Append(done, [update |-> i, action |-> word, actor |-> u.from])
              /\ paused' = IF word \in {"pause", "resume"} THEN word = "pause" ELSE paused
    BY <1>2, <2>1, <2>2, PerformIs
  <2>4. word \in {"pause", "resume"} => Lasting(i)  BY <1>6, <2>1
  <2>5. word \notin {"pause", "resume"} => ~Lasting(i)  BY DEF Lasting
  <2>6. ~u.forwarded
    <3>1. None # "forwarded"  BY GrantAssumption DEF Uncounted
    <3> QED BY <2>1, <3>1 DEF Refusal, reason
  <2> QED BY <1>3, <1>4, <2>1, <2>3, <2>4, <2>5, <2>6 DEF Served
<1> QED BY <1>8, <1>9

\* The bridge runs what it reads in the message.
LEMMA ReadingServed ==
    ASSUME BType, NEW i \in 1..Len(sent), NEW word \in Read,
           Run(i, Command(word), FALSE), UNCHANGED <<now, principals>>
    PROVE  /\ GType' /\ UNCHANGED <<paused, started, done>>
           /\ Len(audit) <= Len(audit') /\ \A n \in 1..Len(audit) : audit'[n] = audit[n]
<1> DEFINE text == Command(word)
           reason == Refusal(sent[i].from, text, FALSE)
<1>1. text.word = word  BY DEF Command, Says
<1> HIDE DEF text
<1>2. sent[i].from \in Actor /\ GType /\ paused \in BOOLEAN  BY UpdateIs DEF BType
<1>3. Run(i, text, FALSE)  BY DEF text
<1>4. /\ GType'
      /\ Len(audit') = Len(audit) + 1 /\ Len(audit) \in Nat
      /\ \A n \in 1..Len(audit) : audit'[n] = audit[n]
      /\ reason # None \/ text.word \in Danger => UNCHANGED <<paused, started, done>>
      /\ ~(reason # None \/ text.word \in Danger) =>
           /\ text.word \in Actions \ Danger
           /\ \E accepted \in Accepted(text.word) : Perform(i, text.word, accepted)
  BY <1>2, <1>3, RunIs
<1> HIDE DEF reason
<1>5. CASE reason # None \/ text.word \in Danger
  BY <1>4, <1>5
<1>6. CASE ~(reason # None \/ text.word \in Danger)
  <2>1. PICK accepted \in Accepted(word) : Perform(i, word, accepted)  BY <1>1, <1>4, <1>6
  <2>2. word \in Actions \ Danger  BY <1>1, <1>4, <1>6
  <2>3. word \notin {"pause", "resume"}  BY KindsOfActions
  <2>4. done' = done /\ started' = started  BY <1>2, <2>1, <2>2, PerformIs
  <2>5. paused' = paused
    <3>1. word # "pause" /\ word # "resume" /\ word # "kill"  BY <2>2, <2>3, KindsOfActions
    <3> QED BY <2>1, <3>1 DEF Perform
  <2> QED BY <1>4, <2>4, <2>5
<1> QED BY <1>5, <1>6

LEMMA HandleIs ==
    ASSUME BType, QueueInv, Handle
    PROVE  \E i \in 1..Len(sent) :
             /\ i = Reached + 1 /\ at' \in {"converse", "send"}
             /\ offset' = i + 1 /\ current' = i /\ batch # <<>> /\ batch' = Tail(batch)
             /\ handled' = [handled EXCEPT ![i] = @ + 1]
             /\ UNCHANGED <<principals, allowed, sent, forgotten, deaths, grants>>
             /\ Served(i)
<1> DEFINE i == Head(batch)
           u == sent[i]
<1>1. /\ at = "poll" /\ batch # <<>>
      /\ offset' = IF offset > i + 1 THEN offset ELSE i + 1
      /\ batch' = Tail(batch) /\ current' = i
      /\ handled' = [handled EXCEPT ![i] = @ + 1]
      /\ UNCHANGED <<now, principals, allowed, sent, forgotten, deaths, grants>>
  BY DEF Handle
<1>2. i = Reached + 1 /\ i \in 1..Len(sent) /\ Reached \in Nat
  <2>1. batch \in Seq(Nat) /\ Len(batch) \in Nat \ {0} /\ i = batch[1]
    BY <1>1 DEF BType
  <2>2. Reached \in Int /\ forgotten \in Nat /\ Len(sent) \in Nat
    BY DEF BType, Reached
  <2>3. batch[1] = Reached + 1 /\ forgotten <= Reached /\ Reached + Len(batch) <= Len(sent)
    BY <2>1 DEF QueueInv
  <2> QED BY <2>1, <2>2, <2>3
<1>3. offset' = i + 1
  BY <1>1, <1>2 DEF BType, Reached
<1>4. IF Shortcut(u.text)
      THEN at' = "send" /\ UNCHANGED <<recent, pending, audit, paused, started, done>>
      ELSE IF u.text.reading # None
      THEN at' = "send" /\ Run(i, Command(u.text.reading), FALSE)
      ELSE /\ Run(i, u.text, u.forwarded)
           /\ at' \in {"converse", "send"}
  BY DEF Handle, IsForwarded
<1>5. u.text.reading \in Read \cup {None}  BY <1>2, UpdateIs
<1> HIDE DEF i
<1>6. Served(i)
  <2>1. CASE Shortcut(u.text)
    <3>1. UNCHANGED <<now, principals, recent, audit, paused, started, done>>
      BY <1>1, <1>4, <2>1
    <3>2. GType'  BY <3>1 DEF BType, GType, Lines
    <3>3. ~Lasting(i)  BY <2>1 DEF Lasting
    <3>4. Len(audit) \in Nat  BY DEF BType, GType
    <3> QED BY <3>1, <3>2, <3>3, <3>4 DEF Served, BType
  <2>2. CASE ~Shortcut(u.text) /\ u.text.reading # None
    <3>1. /\ GType' /\ UNCHANGED <<paused, started, done>>
          /\ Len(audit) <= Len(audit') /\ \A n \in 1..Len(audit) : audit'[n] = audit[n]
      BY <1>1, <1>2, <1>4, <1>5, <2>2, ReadingServed
    <3>2. ~Lasting(i)  BY <2>2 DEF Lasting
    <3> QED BY <3>1, <3>2 DEF Served, BType
  <2>3. CASE ~Shortcut(u.text) /\ u.text.reading = None
    BY <1>1, <1>2, <1>4, <2>3, MessageServed
  <2> QED BY <2>1, <2>2, <2>3
<1>7. at' \in {"converse", "send"}
  BY <1>4
<1> QED BY <1>1, <1>2, <1>3, <1>6, <1>7

(***************************************************************************)
(* Each action keeps the invariant.                                        *)
(***************************************************************************)
LEMMA BInvInit == BridgeInit => BInv
<1> SUFFICES ASSUME BridgeInit PROVE BInv
  OBVIOUS
<1>1. BType
  <2>1. GType
    <3>1. principals \in Grants  BY BridgeAssumption DEF BridgeInit
    <3>2. audit \in Seq(AuditLine) /\ recent \in [Actor -> SUBSET Lines] /\ now \in Nat
      BY DEF BridgeInit
    <3> QED BY <3>1, <3>2 DEF GType
  <2>2. allowed \in Grants  BY BridgeAssumption DEF BridgeInit
  <2>3. /\ sent \in Seq(Update) /\ Len(sent) = 0
        /\ done \in Seq(Entry) /\ Len(done) = 0 /\ batch \in Seq(Nat)
    BY DEF BridgeInit
  <2>4. paused \in BOOLEAN /\ started \subseteq 1..Len(sent)  BY DEF BridgeInit
  <2>5. handled \in [1..MaxUpdates -> Nat]  BY DEF BridgeInit
  <2>6. /\ forgotten = 0 /\ offset = 0 /\ current = 0 /\ deaths = 0 /\ grants = 0
        /\ at = "poll"
    BY DEF BridgeInit
  <2> QED BY <2>1, <2>2, <2>3, <2>4, <2>5, <2>6, BridgeAssumption DEF BType
<1>2. Reached = 0  BY DEF BridgeInit, Reached
<1>3. QueueInv  BY <1>2 DEF BridgeInit, QueueInv
<1>4. HandledInv  BY <1>2 DEF BridgeInit, HandledInv
<1>5. ForwardedMovesNothing  BY DEF BridgeInit, ForwardedMovesNothing
<1>6. FlagInv
  <2>1. Words = {}  BY DEF BridgeInit, Words
  <2>2. Movers = {}  BY <2>1 DEF Movers
  <2>3. principals = allowed  BY DEF BridgeInit
  <2> QED BY <2>1, <2>2, <2>3 DEF FlagInv
<1> QED BY <1>1, <1>3, <1>4, <1>5, <1>6 DEF BInv

\* What the words were and who may say them, where nothing of it changes.
LEMMA FlagKept ==
    ASSUME FlagInv, UNCHANGED <<done, paused>>, Reached' <= Reached,
           Reached \in Nat, Reached' \in Nat, done \in Seq(Entry),
           Len(audit) \in Nat, Len(audit') \in Nat, Len(audit) <= Len(audit'),
           \A n \in 1..Len(audit) : audit'[n] = audit[n],
           \A k \in 1..Len(done) : sent'[done[k].update] = sent[done[k].update],
           grants' = 0 => grants = 0 /\ principals' = principals /\ principals' = allowed'
    PROVE  FlagInv'
<1>1. Unlimited' => Unlimited /\ principals' = principals
  <2>1. \A n \in 1..Len(audit) : n \in 1..Len(audit') /\ audit'[n] = audit[n]
    OBVIOUS
  <2> QED BY <2>1 DEF Unlimited
<1>2. Words' = Words  BY DEF Words
<1>3. Movers' = Movers  BY <1>2 DEF Movers
<1>a. principals' = principals => \A m \in Movers : Lasting(m) => Lasting(m)'
  <2> SUFFICES ASSUME principals' = principals, NEW m \in Movers, Lasting(m)
               PROVE  Lasting(m)'
    OBVIOUS
  <2>1. sent'[m] = sent[m]
    BY DEF Movers, Words
  <2> QED BY <2>1 DEF Lasting
<1>4. ASSUME NEW k \in Words, \A j \in Words : done[j].update <= done[k].update
                                                \/ done[j].update > Reached
      PROVE  \A j \in Words : done[j].update <= done[k].update \/ done[j].update > Reached'
  <2> SUFFICES ASSUME NEW j \in Words
               PROVE  done[j].update > Reached => done[j].update > Reached'
    BY <1>4
  <2>1. done[j] \in Entry  BY DEF Words
  <2>2. done[j].update \in Nat  BY <2>1 DEF Entry
  <2> QED BY <2>2
<1> QED BY <1>1, <1>2, <1>3, <1>a, <1>4 DEF FlagInv

\* Everything the invariant speaks of but what the step below changes.
LEMMA ReachedIs == BType /\ QueueInv => Reached \in Nat
BY DEF BType, QueueInv, Reached

LEMMA GTypeKept ==
    ASSUME GType, UNCHANGED <<now, principals, recent, audit>>
    PROVE  GType'
BY DEF GType, Lines

LEMMA SendStep == ASSUME BInv, NEW u \in Update, Send(u) PROVE BInv'
<1>1. /\ Len(sent) < MaxUpdates /\ sent' = Append(sent, u)
      /\ UNCHANGED <<now, principals, recent, audit, allowed, forgotten, offset, batch, at,
                     current, paused, started, done, handled, deaths, grants>>
  BY DEF Send, gvars
<1>2. BType /\ QueueInv /\ HandledInv /\ ForwardedMovesNothing /\ FlagInv
  BY DEF BInv
<1>3. Reached \in Nat /\ Reached' = Reached
  BY <1>1, <1>2, ReachedIs DEF Reached
<1>4. /\ sent' \in Seq(Update) /\ Len(sent') = Len(sent) + 1 /\ Len(sent) \in Nat
      /\ \A i \in 1..Len(sent) : sent'[i] = sent[i]
  BY <1>1, <1>2 DEF BType
<1>5. \A k \in 1..Len(done) : done[k].update \in 1..Len(sent)
                             /\ sent'[done[k].update] = sent[done[k].update]
  BY <1>2, <1>4 DEF BType
<1>6. BType'
  <2>1. GType'  BY <1>1, <1>2, GTypeKept DEF BType
  <2>2. Len(sent') <= MaxUpdates  BY <1>1, <1>4, BridgeAssumption
  <2>3. 1..Len(sent) \subseteq 1..Len(sent')  BY <1>4
  <2>4. started' \subseteq 1..Len(sent')  BY <1>1, <1>2, <2>3 DEF BType
  <2>5. \A k \in 1..Len(done') : done'[k].update \in 1..Len(sent')
    BY <1>1, <1>5, <2>3
  <2> QED BY <1>1, <1>2, <1>4, <2>1, <2>2, <2>4, <2>5 DEF BType
<1>7. QueueInv'
  <2>1. Len(batch) \in Nat  BY <1>2 DEF BType
  <2> QED BY <1>1, <1>2, <1>3, <1>4, <2>1 DEF QueueInv
<1>8. HandledInv'  BY <1>1, <1>2, <1>3 DEF HandledInv
<1>9. ForwardedMovesNothing'  BY <1>1, <1>2, <1>5 DEF ForwardedMovesNothing
<1>10. FlagInv'
  <2>1. Len(audit) \in Nat /\ done \in Seq(Entry)  BY <1>2 DEF BType, GType
  <2>2. grants' = 0 => grants = 0 /\ principals' = principals /\ principals' = allowed'
    BY <1>1, <1>2 DEF FlagInv
  <2> QED BY <1>1, <1>2, <1>3, <1>5, <2>1, <2>2, FlagKept
<1> QED BY <1>6, <1>7, <1>8, <1>9, <1>10 DEF BInv

LEMMA AuthoriseStep ==
    ASSUME BInv, NEW a \in Actor, NEW class \in Granted, Authorise(a, class)
    PROVE  BInv'
<1>1. /\ allowed' = [allowed EXCEPT ![a] = class] /\ grants' = grants + 1
      /\ UNCHANGED <<now, principals, recent, audit, sent, forgotten, offset, batch, at,
                     current, paused, started, done, handled, deaths>>
  BY DEF Authorise, gvars
<1>2. BType /\ QueueInv /\ HandledInv /\ ForwardedMovesNothing /\ FlagInv
  BY DEF BInv
<1>3. Reached' = Reached  BY <1>1 DEF Reached
<1>4. BType'
  <2>1. GType'  BY <1>1, <1>2, GTypeKept DEF BType
  <2>2. allowed' \in Grants  BY <1>1, <1>2, GrantAssumption DEF BType, Grants
  <2> QED BY <1>1, <1>2, <2>1, <2>2 DEF BType
<1>5. QueueInv'  BY <1>1, <1>2, <1>3 DEF QueueInv
<1>6. HandledInv'  BY <1>1, <1>2, <1>3 DEF HandledInv
<1>7. ForwardedMovesNothing'  BY <1>1, <1>2 DEF ForwardedMovesNothing
<1>8. FlagInv'
  <2>1. grants' # 0  BY <1>1, <1>2 DEF BType
  <2> QED BY <2>1 DEF FlagInv, Unlimited
<1> QED BY <1>4, <1>5, <1>6, <1>7, <1>8 DEF BInv

LEMMA PollStep == ASSUME BInv, Poll PROVE BInv'
<1>1. /\ at = "poll" /\ batch = <<>>
      /\ forgotten' = Reached
      /\ batch' = [i \in 1..(Len(sent) - Reached) |-> Reached + i]
      /\ UNCHANGED <<now, principals, recent, audit, allowed, sent, offset, at, current,
                     paused, started, done, handled, deaths, grants>>
  BY DEF Poll, Acknowledged, Fetched, Reached, gvars
<1>2. BType /\ QueueInv /\ HandledInv /\ ForwardedMovesNothing /\ FlagInv
  BY DEF BInv
<1>3. Reached \in Nat /\ Reached' = Reached
  <2>1. Reached \in Nat  BY <1>2, ReachedIs
  <2> QED BY <1>1, <2>1 DEF Reached
<1>4. Len(sent) \in Nat /\ Len(sent) - Reached \in Nat
  BY <1>1, <1>2, <1>3 DEF BType, QueueInv
<1>5. batch' \in Seq(Nat) /\ Len(batch') = Len(sent) - Reached
      /\ \A k \in 1..Len(batch') : batch'[k] = Reached + k
  BY <1>1, <1>3, <1>4
<1>6. BType'
  <2>1. GType'  BY <1>1, <1>2, GTypeKept DEF BType
  <2> QED BY <1>1, <1>2, <1>3, <1>5, <2>1 DEF BType
<1>7. QueueInv'  BY <1>1, <1>2, <1>3, <1>4, <1>5 DEF QueueInv
<1>8. HandledInv'  BY <1>1, <1>2, <1>3 DEF HandledInv
<1>9. ForwardedMovesNothing'  BY <1>1, <1>2 DEF ForwardedMovesNothing
<1>10. FlagInv'
  <2>1. Len(audit) \in Nat /\ done \in Seq(Entry)  BY <1>2 DEF BType, GType
  <2>2. grants' = 0 => grants = 0 /\ principals' = principals /\ principals' = allowed'
    BY <1>1, <1>2 DEF FlagInv
  <2> QED BY <1>1, <1>2, <1>3, <2>1, <2>2, FlagKept
<1> QED BY <1>6, <1>7, <1>8, <1>9, <1>10 DEF BInv

LEMMA ReplyStep == ASSUME BInv, Reply PROVE BInv'
<1>1. /\ at' = "poll" /\ current' = 0
      /\ UNCHANGED <<now, principals, recent, audit, allowed, sent, forgotten, offset, batch,
                     paused, started, done, handled, deaths, grants>>
  BY DEF Reply, gvars
<1>2. BType /\ QueueInv /\ HandledInv /\ ForwardedMovesNothing /\ FlagInv
  BY DEF BInv
<1>3. Reached \in Nat /\ Reached' = Reached
  BY <1>1, <1>2, ReachedIs DEF Reached
<1>6. BType'
  <2>1. GType'  BY <1>1, <1>2, GTypeKept DEF BType
  <2> QED BY <1>1, <1>2, <2>1 DEF BType
<1>7. QueueInv'  BY <1>1, <1>2, <1>3 DEF QueueInv
<1>8. HandledInv'  BY <1>1, <1>2, <1>3 DEF HandledInv
<1>9. ForwardedMovesNothing'  BY <1>1, <1>2 DEF ForwardedMovesNothing
<1>10. FlagInv'
  <2>1. Len(audit) \in Nat /\ done \in Seq(Entry)  BY <1>2 DEF BType, GType
  <2>2. grants' = 0 => grants = 0 /\ principals' = principals /\ principals' = allowed'
    BY <1>1, <1>2 DEF FlagInv
  <2> QED BY <1>1, <1>2, <1>3, <2>1, <2>2, FlagKept
<1> QED BY <1>6, <1>7, <1>8, <1>9, <1>10 DEF BInv

LEMMA DieStep == ASSUME BInv, Die PROVE BInv'
<1>1. /\ at' = "down" /\ deaths' = deaths + 1
      /\ offset' = 0 /\ batch' = <<>> /\ current' = 0
      /\ recent' = [a \in Actor |-> {}]
      /\ UNCHANGED <<now, principals, audit, allowed, sent, forgotten, paused, started,
                     done, handled, grants>>
  BY DEF Die
<1>2. BType /\ QueueInv /\ HandledInv /\ ForwardedMovesNothing /\ FlagInv
  BY DEF BInv
<1>3. /\ Reached \in Nat /\ Reached' = forgotten /\ forgotten \in Nat
      /\ forgotten <= Reached /\ Reached <= Len(sent) /\ Len(sent) \in Nat
  <2>1. Reached \in Nat  BY <1>2, ReachedIs
  <2>2. Len(batch) \in Nat /\ Len(sent) \in Nat /\ forgotten \in Nat  BY <1>2 DEF BType
  <2>3. Reached' = forgotten  BY <1>1 DEF Reached
  <2> QED BY <1>2, <2>1, <2>2, <2>3 DEF QueueInv
<1>6. BType'
  <2>1. GType'  BY <1>1, <1>2 DEF BType, GType, Lines
  <2>2. batch' \in Seq(Nat)  BY <1>1
  <2> QED BY <1>1, <1>2, <2>1, <2>2 DEF BType
<1>7. QueueInv'
  <2>1. Len(batch') = 0  BY <1>1
  <2> QED BY <1>1, <1>3, <2>1 DEF QueueInv
<1>8. HandledInv'
  <2> SUFFICES ASSUME NEW i \in 1..MaxUpdates
               PROVE  /\ i <= forgotten => handled[i] > 0
                      /\ handled[i] <= (deaths + 1) + (IF i <= forgotten THEN 1 ELSE 0)
    BY <1>1, <1>3 DEF HandledInv
  <2>1. handled[i] \in Nat /\ deaths \in Nat  BY <1>2 DEF BType
  <2> QED BY <1>2, <1>3, <2>1 DEF HandledInv
<1>9. ForwardedMovesNothing'  BY <1>1, <1>2 DEF ForwardedMovesNothing
<1>10. FlagInv'
  <2>1. Len(audit) \in Nat /\ done \in Seq(Entry)  BY <1>2 DEF BType, GType
  <2>2. grants' = 0 => grants = 0 /\ principals' = principals /\ principals' = allowed'
    BY <1>1, <1>2 DEF FlagInv
  <2> QED BY <1>1, <1>2, <1>3, <2>1, <2>2, FlagKept
<1> QED BY <1>6, <1>7, <1>8, <1>9, <1>10 DEF BInv

LEMMA RestartStep == ASSUME BInv, Restart PROVE BInv'
<1>1. /\ at = "down" /\ at' = "poll" /\ principals' = allowed
      /\ UNCHANGED <<now, recent, audit, allowed, sent, forgotten, offset, batch, current,
                     paused, started, done, handled, deaths, grants>>
  BY DEF Restart
<1>2. BType /\ QueueInv /\ HandledInv /\ ForwardedMovesNothing /\ FlagInv
  BY DEF BInv
<1>3. Reached \in Nat /\ Reached' = Reached
  BY <1>1, <1>2, ReachedIs DEF Reached
<1>6. BType'
  <2>1. GType'  BY <1>1, <1>2 DEF BType, GType, Lines
  <2> QED BY <1>1, <1>2, <2>1 DEF BType
<1>7. QueueInv'  BY <1>1, <1>2, <1>3 DEF QueueInv
<1>8. HandledInv'  BY <1>1, <1>2, <1>3 DEF HandledInv
<1>9. ForwardedMovesNothing'  BY <1>1, <1>2 DEF ForwardedMovesNothing
<1>10. FlagInv'
  <2>1. Len(audit) \in Nat /\ done \in Seq(Entry)  BY <1>2 DEF BType, GType
  <2>2. grants' = 0 => grants = 0 /\ principals' = principals /\ principals' = allowed'
    BY <1>1, <1>2 DEF FlagInv
  <2> QED BY <1>1, <1>2, <1>3, <2>1, <2>2, FlagKept
<1> QED BY <1>6, <1>7, <1>8, <1>9, <1>10 DEF BInv

LEMMA ConverseStep == ASSUME BInv, Converse PROVE BInv'
<1>1. /\ at = "converse" /\ at' = "send"
      /\ Run(current, Command("status"), FALSE)
      /\ UNCHANGED <<now, principals, allowed, sent, forgotten, offset, batch, current,
                     handled, deaths, grants>>
  BY DEF Converse
<1>2. BType /\ QueueInv /\ HandledInv /\ ForwardedMovesNothing /\ FlagInv
  BY DEF BInv
<1>3. Reached \in Nat /\ Reached' = Reached
  BY <1>1, <1>2, ReachedIs DEF Reached
<1>4. current \in 1..Len(sent)
  <2>1. Len(batch) \in Nat /\ Len(sent) \in Nat /\ current \in Nat  BY <1>2 DEF BType
  <2>2. current # 0 /\ current = Reached /\ Reached + Len(batch) <= Len(sent)
    BY <1>1, <1>2 DEF QueueInv
  <2> QED BY <1>3, <2>1, <2>2
<1>5. /\ GType' /\ UNCHANGED <<paused, started, done>>
      /\ Len(audit) <= Len(audit') /\ \A n \in 1..Len(audit) : audit'[n] = audit[n]
  BY <1>1, <1>2, <1>4, KindsOfActions, ReadingServed
<1>6. BType'  BY <1>1, <1>2, <1>5 DEF BType
<1>7. QueueInv'  BY <1>1, <1>2, <1>3 DEF QueueInv
<1>8. HandledInv'  BY <1>1, <1>2, <1>3 DEF HandledInv
<1>9. ForwardedMovesNothing'  BY <1>1, <1>2, <1>5 DEF ForwardedMovesNothing
<1>10. FlagInv'
  <2>1. Len(audit) \in Nat /\ done \in Seq(Entry)  BY <1>2 DEF BType, GType
  <2>2. grants' = 0 => grants = 0 /\ principals' = principals /\ principals' = allowed'
    BY <1>1, <1>2 DEF FlagInv
  <2>3. Len(audit') \in Nat  BY <1>5 DEF GType
  <2> QED BY <1>1, <1>2, <1>3, <1>5, <2>1, <2>2, <2>3, FlagKept
<1> QED BY <1>6, <1>7, <1>8, <1>9, <1>10 DEF BInv

LEMMA HandleStep == ASSUME BInv, Handle PROVE BInv'
<1>1. BType /\ QueueInv /\ HandledInv /\ ForwardedMovesNothing /\ FlagInv
  BY DEF BInv
<1>2. PICK i \in 1..Len(sent) :
         /\ i = Reached + 1 /\ at' \in {"converse", "send"}
         /\ offset' = i + 1 /\ current' = i /\ batch # <<>> /\ batch' = Tail(batch)
         /\ handled' = [handled EXCEPT ![i] = @ + 1]
         /\ UNCHANGED <<principals, allowed, sent, forgotten, deaths, grants>>
         /\ Served(i)
  BY <1>1, HandleIs
<1>3. /\ Reached \in Nat /\ i \in Nat \ {0} /\ Reached' = i /\ Len(sent) \in Nat
      /\ i \in 1..MaxUpdates
  <2>1. Reached \in Nat /\ Len(sent) \in Nat /\ Len(sent) <= MaxUpdates
    BY <1>1, ReachedIs DEF BType
  <2>2. Reached' = i  BY <1>2, <2>1 DEF Reached
  <2> QED BY <1>2, <2>1, <2>2, BridgeAssumption
<1>4. /\ batch' \in Seq(Nat) /\ Len(batch') = Len(batch) - 1 /\ Len(batch) \in Nat \ {0}
      /\ \A k \in 1..Len(batch') : batch'[k] = batch[k + 1]
  <2>1. batch \in Seq(Nat)  BY <1>1 DEF BType
  <2> QED BY <1>2, <2>1
<1>5. /\ GType' /\ paused' \in BOOLEAN /\ started' \in {started, started \cup {i}}
      /\ Len(audit) <= Len(audit') /\ \A n \in 1..Len(audit) : audit'[n] = audit[n]
  BY <1>2 DEF Served
<1> DEFINE entry(word) == [update |-> i, action |-> word, actor |-> sent[i].from]
           Quiet == /\ done' = done /\ paused' = paused
                    /\ (\A n \in 1..Len(audit') : audit'[n].reason # "rate") => ~Lasting(i)
           Moves(word) ==
              /\ done' = Append(done, entry(word))
              /\ paused' = IF word \in {"pause", "resume"} THEN word = "pause" ELSE paused
              /\ word \in {"pause", "resume"} <=> Lasting(i)
<1>6. Quiet \/ (~sent[i].forwarded /\ \E word \in Actions \ Read : Moves(word))
  BY <1>2 DEF Served
<1>7. ASSUME NEW word \in Actions, Moves(word)
      PROVE  /\ done' \in Seq(Entry) /\ Len(done') = Len(done) + 1 /\ Len(done) \in Nat
             /\ done'[Len(done) + 1] = entry(word)
             /\ \A k \in 1..Len(done) : done'[k] = done[k]
  <2>1. done \in Seq(Entry)  BY <1>1 DEF BType
  <2>2. sent[i].from \in Actor  BY <1>1, UpdateIs
  <2>3. entry(word) \in Entry  BY <1>3, <2>2 DEF Entry
  <2> HIDE DEF entry
  <2> QED BY <1>7, <2>1, <2>3
<1>8. BType'
  <2>1. started' \subseteq 1..Len(sent')  BY <1>1, <1>2, <1>5 DEF BType
  <2>2. handled' \in [1..MaxUpdates -> Nat]  BY <1>1, <1>2, <1>3 DEF BType
  <2>3. done' \in Seq(Entry) /\ \A k \in 1..Len(done') : done'[k].update \in 1..Len(sent')
    <3>1. CASE Quiet
      BY <3>1, <1>1, <1>2 DEF BType
    <3>2. ASSUME NEW word \in Actions, Moves(word)
          PROVE  /\ done' \in Seq(Entry)
                 /\ \A k \in 1..Len(done') : done'[k].update \in 1..Len(sent')
      <4>1. /\ done' \in Seq(Entry) /\ Len(done') = Len(done) + 1 /\ Len(done) \in Nat
            /\ done'[Len(done) + 1].update = i
            /\ \A k \in 1..Len(done) : done'[k] = done[k]
        BY <3>2, <1>7
      <4>2. \A k \in 1..Len(done') : k \in 1..Len(done) \/ k = Len(done) + 1
        BY <4>1
      <4> QED BY <1>1, <1>2, <4>1, <4>2 DEF BType
    <3> QED BY <3>1, <3>2, <1>6
  <2>4. offset' \in Nat /\ current' \in Nat  BY <1>2, <1>3
  <2> QED BY <1>1, <1>2, <1>4, <1>5, <2>1, <2>2, <2>3, <2>4 DEF BType
<1>9. QueueInv'
  <2>1. \A k \in 1..Len(batch') : batch'[k] = i + k
    <3> SUFFICES ASSUME NEW k \in 1..Len(batch') PROVE batch'[k] = i + k
      OBVIOUS
    <3>1. k + 1 \in 1..Len(batch) /\ batch'[k] = batch[k + 1]  BY <1>4
    <3>2. batch[k + 1] = Reached + (k + 1)  BY <1>1, <3>1 DEF QueueInv
    <3> QED BY <1>2, <1>3, <3>1, <3>2
  <2>2. forgotten' <= i /\ i + Len(batch') <= Len(sent')
    BY <1>1, <1>2, <1>3, <1>4 DEF QueueInv, BType
  <2> QED BY <1>2, <1>3, <2>1, <2>2 DEF QueueInv
<1>10. HandledInv'
  <2> SUFFICES ASSUME NEW m \in 1..MaxUpdates
               PROVE  /\ m <= i => handled'[m] > 0
                      /\ handled'[m] <= deaths + (IF m <= i THEN 1 ELSE 0)
    BY <1>2, <1>3 DEF HandledInv
  <2>1. handled[m] \in Nat /\ deaths \in Nat /\ handled \in [1..MaxUpdates -> Nat]
    BY <1>1 DEF BType
  <2>2. handled'[m] = IF m = i THEN handled[m] + 1 ELSE handled[m]
    BY <1>2, <1>3, <2>1
  <2>3. /\ m <= Reached => handled[m] > 0
        /\ handled[m] <= deaths + (IF m <= Reached THEN 1 ELSE 0)
    BY <1>1 DEF HandledInv
  <2>4. m \in Nat /\ (m <= i <=> m <= Reached \/ m = i) /\ ~(i <= Reached)
    BY <1>2, <1>3
  <2> QED BY <2>1, <2>2, <2>3, <2>4
<1>11. ForwardedMovesNothing'
  <2>1. CASE Quiet
    BY <2>1, <1>1, <1>2 DEF ForwardedMovesNothing
  <2>2. ASSUME NEW word \in Actions, Moves(word), ~sent[i].forwarded
        PROVE  ForwardedMovesNothing'
    <3>1. /\ Len(done') = Len(done) + 1 /\ Len(done) \in Nat
          /\ done'[Len(done) + 1].update = i
          /\ \A k \in 1..Len(done) : done'[k] = done[k]
      BY <2>2, <1>7
    <3>2. \A k \in 1..Len(done') : k \in 1..Len(done) \/ k = Len(done) + 1
      BY <3>1
    <3> QED BY <1>1, <1>2, <2>2, <3>1, <3>2 DEF ForwardedMovesNothing
  <2> QED BY <2>1, <2>2, <1>6
<1>12. FlagInv'
  <2>1. grants' = 0 => principals' = allowed'
    BY <1>1, <1>2 DEF FlagInv
  <2>2. SUFFICES ASSUME Unlimited'
                 PROVE  /\ \A m \in Movers' : Lasting(m)'
                        /\ Words' # {} => \E k \in Words' :
                             /\ paused' = (done'[k].action = "pause")
                             /\ \A j \in Words' : done'[j].update <= done'[k].update
                                                  \/ done'[j].update > i
    BY <2>1, <1>3 DEF FlagInv
  <2>3. Unlimited
    <3>1. Len(audit) \in Nat /\ Len(audit') \in Nat  BY <1>1, <1>5 DEF BType, GType
    <3>2. \A n \in 1..Len(audit) : n \in 1..Len(audit') /\ audit'[n] = audit[n]
      BY <1>5, <3>1
    <3> QED BY <1>2, <2>2, <3>2 DEF Unlimited
  <2>4. \A m : Lasting(m)' <=> Lasting(m)
    BY <1>2 DEF Lasting
  <2>5. /\ \A m \in Movers : Lasting(m)
        /\ Words # {} => \E k \in Words :
             /\ paused = (done[k].action = "pause")
             /\ \A j \in Words : done[j].update <= done[k].update \/ done[j].update > Reached
    BY <1>1, <2>3 DEF FlagInv
  <2>6. \A k \in Words : done[k].update \in Nat
    BY <1>1 DEF BType, Words, Entry
  <2>7. CASE Quiet
    <3>1. ~Lasting(i)  BY <2>2, <2>7 DEF Unlimited
    <3>2. \A j \in Words : done[j].update # i  BY <2>5, <3>1 DEF Movers
    <3>3. \A j \in Words : done[j].update > Reached => done[j].update > i
      BY <1>2, <1>3, <2>6, <3>2
    <3>4. Words' = Words  BY <2>7 DEF Words
    <3>5. \A m \in Movers' : Lasting(m)'
      <4>1. Movers' = Movers  BY <2>7, <3>4 DEF Movers
      <4> QED BY <2>4, <2>5, <4>1
    <3>6. ASSUME Words # {}
          PROVE  \E k \in Words :
                   /\ paused = (done[k].action = "pause")
                   /\ \A j \in Words : done[j].update <= done[k].update \/ done[j].update > i
      <4>1. PICK k \in Words :
               /\ paused = (done[k].action = "pause")
               /\ \A j \in Words : done[j].update <= done[k].update
                                   \/ done[j].update > Reached
        BY <2>5, <3>6
      <4> QED BY <4>1, <3>3
    <3> QED BY <2>7, <3>4, <3>5, <3>6
  <2>8. ASSUME NEW word \in Actions, Moves(word)
        PROVE  /\ \A m \in Movers' : Lasting(m)'
               /\ Words' # {} => \E k \in Words' :
                    /\ paused' = (done'[k].action = "pause")
                    /\ \A j \in Words' : done'[j].update <= done'[k].update
                                         \/ done'[j].update > i
    <3> DEFINE n == Len(done) + 1
    <3>1. /\ Len(done') = n /\ Len(done) \in Nat
          /\ done'[n].update = i /\ done'[n].action = word
          /\ \A k \in 1..Len(done) : done'[k] = done[k]
      BY <2>8, <1>7
    <3>2. Words' = Words \cup (IF word \in {"pause", "resume"} THEN {n} ELSE {})
      <4>1. 1..Len(done') = 1..Len(done) \cup {n} /\ n \notin 1..Len(done)  BY <3>1
      <4> QED BY <3>1, <4>1 DEF Words
    <3>3. \A k \in Words : done'[k] = done[k]  BY <3>1 DEF Words
    <3> HIDE DEF n
    <3>4. CASE word \in {"pause", "resume"}
      <4>1. Lasting(i) /\ paused' = (word = "pause")  BY <2>8, <3>4
      <4>2. \A m \in Movers' : Lasting(m)'
        <5>1. \A m \in Movers' : m \in Movers \/ m = i
          BY <3>1, <3>2, <3>3, <3>4 DEF Movers
        <5> QED BY <2>4, <2>5, <4>1, <5>1
      <4>3. \A j \in Words' : done'[j].update <= done'[n].update \/ done'[j].update > i
        <5> SUFFICES ASSUME NEW j \in Words'
                     PROVE  done'[j].update <= i \/ done'[j].update > i
          BY <3>1
        <5>1. done'[j].update \in Nat  BY <1>3, <2>6, <3>1, <3>2, <3>3, <3>4
        <5> QED BY <1>3, <5>1
      <4>4. n \in Words' /\ paused' = (done'[n].action = "pause")
        BY <3>1, <3>2, <3>4, <4>1
      <4> QED BY <4>2, <4>3, <4>4
    <3>5. CASE word \notin {"pause", "resume"}
      <4>1. Words' = Words /\ paused' = paused  BY <2>8, <3>2, <3>5
      <4>2. \A m \in Movers' : Lasting(m)'
        <5>1. Movers' = Movers  BY <3>3, <4>1 DEF Movers
        <5> QED BY <2>4, <2>5, <5>1
      <4>3. ~Lasting(i)  BY <2>8, <3>5
      <4>4. \A j \in Words : done[j].update # i  BY <2>5, <4>3 DEF Movers
      <4>5. \A j \in Words : done[j].update > Reached => done[j].update > i
        BY <1>2, <1>3, <2>6, <4>4
      <4>6. ASSUME Words # {}
            PROVE  \E k \in Words :
                     /\ paused = (done[k].action = "pause")
                     /\ \A j \in Words : done[j].update <= done[k].update
                                         \/ done[j].update > i
        <5>1. PICK k \in Words :
                 /\ paused = (done[k].action = "pause")
                 /\ \A j \in Words : done[j].update <= done[k].update
                                     \/ done[j].update > Reached
          BY <2>5, <4>6
        <5> QED BY <5>1, <4>5
      <4> QED BY <3>3, <4>1, <4>2, <4>6
    <3> QED BY <3>4, <3>5
  <2> QED BY <2>7, <2>8, <1>6
<1> QED BY <1>8, <1>9, <1>10, <1>11, <1>12 DEF BInv

LEMMA BInvStutter == BInv /\ UNCHANGED bvars => BInv'
<1> SUFFICES ASSUME BInv, UNCHANGED bvars PROVE BInv'
  OBVIOUS
<1>1. UNCHANGED <<now, principals, recent, audit, allowed, sent, forgotten, offset, batch,
                  at, current, paused, started, done, handled, deaths, grants>>
  BY DEF bvars, gvars
<1>2. BType /\ QueueInv /\ HandledInv /\ ForwardedMovesNothing /\ FlagInv
  BY DEF BInv
<1>3. Reached' = Reached  BY <1>1 DEF Reached
<1>4. BType'
  <2>1. GType'  BY <1>1, <1>2, GTypeKept DEF BType
  <2> QED BY <1>1, <1>2, <2>1 DEF BType
<1>5. QueueInv'  BY <1>1, <1>2, <1>3 DEF QueueInv
<1>6. HandledInv'  BY <1>1, <1>2, <1>3 DEF HandledInv
<1>7. ForwardedMovesNothing'  BY <1>1, <1>2 DEF ForwardedMovesNothing
<1>8. FlagInv'
  <2>1. Words' = Words  BY <1>1 DEF Words
  <2>2. Movers' = Movers  BY <1>1, <2>1 DEF Movers
  <2>3. \A m : Lasting(m)' <=> Lasting(m)  BY <1>1 DEF Lasting
  <2>4. Unlimited' <=> Unlimited  BY <1>1 DEF Unlimited
  <2> QED BY <1>1, <1>2, <1>3, <2>1, <2>2, <2>3, <2>4 DEF FlagInv
<1> QED BY <1>4, <1>5, <1>6, <1>7, <1>8 DEF BInv

LEMMA BInvStep == BInv /\ [BridgeNext]_bvars => BInv'
BY BInvStutter, SendStep, AuthoriseStep, PollStep, HandleStep, ConverseStep, ReplyStep,
   DieStep, RestartStep
   DEF BridgeNext

LEMMA BridgeInvariant == BridgeSpec => []BInv
BY BInvInit, BInvStep, PTL DEF BridgeSpec

(***************************************************************************)
(* What the bridge guarantees.                                             *)
(***************************************************************************)

\* poll_once() and handle(): every variable keeps its type, and a batch is the updates
\* that follow the one being handled, in order.
THEOREM BridgeTypeCorrect == BridgeSpec => []BridgeTypeOK
<1>1. BInv => BridgeTypeOK
  <2> SUFFICES ASSUME BInv PROVE BridgeTypeOK
    OBVIOUS
  <2>1. BType /\ QueueInv /\ Reached \in Nat  BY ReachedIs DEF BInv
  <2>2. /\ \A k \in 1..Len(batch) : batch[k] = Reached + k
        /\ Len(batch) \in Nat /\ Len(sent) \in Nat
        /\ Reached + Len(batch) <= Len(sent)
    BY <2>1 DEF BType, QueueInv
  <2>3. batch # <<>> => 1 \in 1..Len(batch) /\ Len(batch) \in 1..Len(batch)
    <3>1. batch \in Seq(Nat)  BY <2>1 DEF BType
    <3> QED BY <3>1
  <2>4. \A k \in 1..Len(batch) : batch[k] = batch[1] + k - 1
    <3> SUFFICES ASSUME NEW k \in 1..Len(batch) PROVE batch[k] = batch[1] + k - 1
      OBVIOUS
    <3>1. 1 \in 1..Len(batch)  BY <2>2
    <3>2. batch[1] = Reached + 1 /\ batch[k] = Reached + k  BY <2>2, <3>1
    <3> QED BY <2>1, <3>2
  <2>5. batch # <<>> => batch[Len(batch)] <= Len(sent) /\ batch[1] = Reached + 1
    BY <2>1, <2>2, <2>3
  <2>6. (at \in {"converse", "send"}) = (current # 0)
    BY <2>1 DEF QueueInv
  <2> QED BY <2>1, <2>4, <2>5, <2>6 DEF BType, QueueInv, BridgeTypeOK
<1> QED BY <1>1, BridgeInvariant, PTL

\* poll_once() advances the offset before it handles an update, and still the server
\* drops none that was not handled.
THEOREM NoUpdateIsLost == BridgeSpec => []ForgottenWereHandled
<1>1. BInv => ForgottenWereHandled
  <2> SUFFICES ASSUME BInv, NEW i \in 1..forgotten PROVE handled[i] > 0
    BY DEF ForgottenWereHandled
  <2>1. BType /\ QueueInv /\ HandledInv /\ Reached \in Nat  BY ReachedIs DEF BInv
  <2>2. /\ forgotten \in Nat /\ Len(sent) \in Nat /\ Len(batch) \in Nat
        /\ Len(sent) <= MaxUpdates /\ forgotten <= Reached
        /\ Reached + Len(batch) <= Len(sent)
    BY <2>1 DEF BType, QueueInv
  <2>3. i \in 1..MaxUpdates /\ i <= Reached  BY <2>1, <2>2, BridgeAssumption
  <2> QED BY <2>1, <2>3 DEF HandledInv
<1> QED BY <1>1, BridgeInvariant, PTL

\* An update is handled at most once by each process that was started.
THEOREM OncePerProcess == BridgeSpec => []HandledOncePerProcess
<1>1. BInv => HandledOncePerProcess
  <2> SUFFICES ASSUME BInv, NEW i \in 1..Len(sent) PROVE handled[i] <= deaths + 1
    BY DEF HandledOncePerProcess
  <2>1. BType /\ HandledInv  BY DEF BInv
  <2>2. i \in 1..MaxUpdates  BY <2>1, BridgeAssumption DEF BType
  <2>3. handled[i] \in Nat /\ deaths \in Nat  BY <2>1, <2>2 DEF BType
  <2> QED BY <2>1, <2>2, <2>3 DEF HandledInv
<1> QED BY <1>1, BridgeInvariant, PTL

\* is_forwarded(): neither the message nor what interpret() reads in it changes anything
\* when it is forwarded.
THEOREM ForwardedIsPowerless == BridgeSpec => []ForwardedMovesNothing
<1>1. BInv => ForwardedMovesNothing  BY DEF BInv
<1> QED BY <1>1, BridgeInvariant, PTL

\* The pause flag: once everything sent was handled, it is as the newest executed word
\* says, however often the process died and commands were executed again.
THEOREM LastWordIsKept == BridgeSpec => []LastWordStands
<1>1. BInv => LastWordStands
  <2> SUFFICES ASSUME BInv, at = "poll", batch = <<>>, grants = 0, Words # {},
                      \A n \in 1..Len(audit) : audit[n].reason # "rate",
                      offset = Len(sent) + 1 \/ forgotten = Len(sent)
               PROVE  \E k \in Words : /\ \A j \in Words : done[j].update <= done[k].update
                                       /\ paused = (done[k].action = "pause")
    BY DEF LastWordStands, Words
  <2>1. BType /\ QueueInv /\ FlagInv /\ Reached \in Nat  BY ReachedIs DEF BInv
  <2>2. Reached = Len(sent)
    BY <2>1 DEF BType, QueueInv, Reached
  <2>3. \A j \in Words : done[j].update \in 1..Len(sent)  BY <2>1 DEF BType, Words
  <2>4. PICK k \in Words :
           /\ paused = (done[k].action = "pause")
           /\ \A j \in Words : done[j].update <= done[k].update \/ done[j].update > Reached
    BY <2>1 DEF FlagInv, Unlimited
  <2>5. \A j \in Words : ~(done[j].update > Reached)  BY <2>1, <2>2, <2>3
  <2> QED BY <2>4, <2>5
<1> QED BY <1>1, BridgeInvariant, PTL
=============================================================================
