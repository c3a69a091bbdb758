---------------------------- MODULE MessageStore ----------------------------
(***************************************************************************)
(* The durable messages of one consumer (src/messages/messageStore.ts).    *)
(*                                                                         *)
(* Four journals are only ever appended to: the outbox, the inbox, the     *)
(* acks and the dead letters.  state.json holds the messages and their     *)
(* claims; every operation reads it, replays the journals over it, changes *)
(* its copy and writes the whole of it back, and no lock is held           *)
(* meanwhile.  A claim is written to a lease file of the message as well.  *)
(*                                                                         *)
(* A call is one append, one dispatchById or one dispatchOne in some       *)
(* process.  It advances by one action per write of a file, which takes    *)
(* the reads just before it along; a read whose result outlives the next   *)
(* write of another call is an action of its own.  Expire is the clock     *)
(* passing a claim's lease_expires_at; the time of a backoff is a free     *)
(* choice of recover, and so is the order of the messages that are due.    *)
(***************************************************************************)
EXTENDS Integers, FiniteSetsExt

CONSTANTS
  Msg,         \* message ids
  KeyOf,       \* the dedupe key of each
  Journalled,  \* those already in the outbox when the calls start
  Call,        \* store calls
  KindOf,      \* what each call does
  MsgOf,       \* the message of an append or of a dispatchById
  ProcOf,      \* the process a call runs in
  After,       \* the call that has to return before this one is made, or NoCall
  OwnerOf,     \* the owner_id it claims under; calls of one process may share it
  Proc,        \* processes
  Mortal,      \* those that may die (a bound of the instance)
  MaxAttempts, \* max_attempts of every message
  NoOwner, NoCall, NoMsg, NoRec, NoLease

Kind == {"append", "dispatchById", "dispatchOne"}
Key  == {KeyOf[m] : m \in Msg}
OwnerId == {OwnerOf[c] : c \in Call}

\* A message in state.json; `claim` stands for its lease_expires_at.
Rec == [status : {"pending", "claimed", "retry_wait", "acked"},
        owner : OwnerId \cup {NoOwner}, fence : Nat, claim : Call \cup {NoCall},
        attempt : Nat]
State == [count : Nat, messages : [Msg -> Rec \cup {NoRec}], acks : SUBSET Msg]
Lease == [owner : OwnerId, fence : Nat, claim : Call]
Snapshot == [outbox : SUBSET Msg, settled : SUBSET Msg]

ASSUME MessageAssumption ==
  /\ Journalled \subseteq Msg /\ Mortal \subseteq Proc
  /\ KindOf \in [Call -> Kind] /\ ProcOf \in [Call -> Proc]
  /\ After \in [Call -> Call \cup {NoCall}]
  /\ MsgOf \in [Call -> Msg \cup {NoMsg}] /\ NoMsg \notin Msg /\ NoCall \notin Call
  /\ \A c \in Call : KindOf[c] # "dispatchOne" => MsgOf[c] \in Msg
  /\ NoOwner \notin OwnerId /\ NoRec \notin Rec /\ NoLease \notin Lease
  /\ MaxAttempts \in Nat \ {0}

VARIABLES
  up,        \* live processes
  outbox, acks, dead, \* journals: the messages with a line in them
  inbox,     \* the last line of each dedupe key, the one that counts
  state,     \* state.json
  lease,     \* leases/<message_id>.json
  op, at,    \* what each call is doing and how far it is
  mem,       \* the copy of state.json it works on
  msg,       \* the message it has claimed
  token,     \* the fencing token of that claim
  expired,   \* calls whose claim has expired
  stale,     \* calls whose copy another write has overtaken (history)
  clobbered, \* such a copy has been written back (history)
  seen,      \* the journals when the call started (history)
  starts,    \* how often the handler was started with each message (history)
  claims,    \* how many claims of each message were saved (history)
  handled    \* the keys for which a handler has returned (history)

journals == <<outbox, inbox, acks, dead>>
files    == <<journals, state, lease>>
local    == <<op, at, mem, msg, token>>
history  == <<stale, clobbered, seen, starts, claims, handled>>
vars     == <<up, files, local, expired, history>>

NewRec   == [status |-> "pending", owner |-> NoOwner, fence |-> 0, claim |-> NoCall,
             attempt |-> 0]
NoState  == [count |-> 0, messages |-> [m \in Msg |-> NoRec], acks |-> {}]
Nothing  == [outbox |-> {}, settled |-> {}]
Unclaimed(r, status) == [r EXCEPT !.status = status, !.owner = NoOwner, !.fence = 0,
                                  !.claim = NoCall]

At == {"load", "recover", "decide", "bury", "unlease", "save", "check", "start", "handle",
       "applied", "recheck", "done"}

\* The file state.json does not exist yet.
Init ==
  /\ up = Proc
  /\ outbox = Journalled /\ acks = {} /\ dead = {}
  /\ inbox = [k \in Key |-> "none"]
  /\ state = NoState
  /\ lease = [m \in Msg |-> NoLease]
  /\ op = [c \in Call |-> IF KindOf[c] = "append" THEN "append" ELSE "claim"]
  /\ at = [c \in Call |-> "load"]
  /\ mem = [c \in Call |-> NoState]
  /\ msg = [c \in Call |-> NoMsg]
  /\ token = [c \in Call |-> 0]
  /\ expired = {}
  /\ stale = {} /\ clobbered = FALSE
  /\ seen = [c \in Call |-> Nothing]
  /\ starts = [m \in Msg |-> 0]
  /\ claims = [m \in Msg |-> 0]
  /\ handled = {}

-----------------------------------------------------------------------------
\* Control of a call.

Alive(c) == ProcOf[c] \in up
Goto(c, place) == at' = [at EXCEPT ![c] = place]
Switch(c, what) == op' = [op EXCEPT ![c] = what] /\ Goto(c, "load")

\* What the call knew is forgotten when it returns.
Return(c) ==
  /\ Goto(c, "done")
  /\ mem' = [mem EXCEPT ![c] = NoState]
  /\ seen' = [seen EXCEPT ![c] = Nothing]
  /\ stale' = stale \ {c}

Working(c) == at[c] \in {"recover", "decide", "bury", "unlease", "save"}

\* writeState: a rename of the whole copy over state.json.
WriteState(c, s) ==
  /\ state' = s
  /\ clobbered' = (clobbered \/ (c \in stale /\ state # s))
  /\ stale' = (IF state = s THEN stale ELSE stale \cup {d \in Call : Working(d)}) \ {c}

Rest == <<up, expired>>
Counts == <<starts, claims, handled>>

-----------------------------------------------------------------------------
\* recover

\* readPersistedState
Load(c) ==
  /\ Alive(c) /\ at[c] = "load"
  /\ op[c] \in {"append", "claim"} /\ After[c] # NoCall => at[After[c]] = "done"
  /\ KindOf[c] = "dispatchById" => MsgOf[c] \in outbox
  /\ mem' = [mem EXCEPT ![c] = state]
  /\ seen' = IF op[c] \in {"append", "claim"}
             THEN [seen EXCEPT ![c] = [outbox |-> outbox, settled |-> acks \cup dead]]
             ELSE seen
  /\ stale' = stale \ {c}
  /\ Goto(c, "recover")
  /\ UNCHANGED <<Rest, files, op, msg, token, clobbered, Counts>>

\* A claim that has expired and a retry whose time has come are pending again.
ReturnsAnyClaim(r, m, due) == r.status = "claimed" \/ (r.status = "retry_wait" /\ m \in due)
Returns(r, m, due) ==
  \/ r.status = "claimed" /\ r.claim \in expired
  \/ r.status = "retry_wait" /\ m \in due

\* The acks and dead letters are read into their maps but not laid over the messages.
ReplayedOutboxOnly(s, due) ==
  [s EXCEPT !.messages = [m \in Msg |->
    LET r == IF s.messages[m] = NoRec THEN NewRec ELSE s.messages[m]
    IN  IF m \notin outbox /\ s.messages[m] = NoRec THEN NoRec
        ELSE IF Returns(r, m, due) THEN Unclaimed(r, "pending") ELSE r]]

\* The journals are laid over what was read; the backoff of `due` is over.
Replayed(s, due) ==
  LET messages == [m \in Msg |->
        LET r == IF s.messages[m] = NoRec THEN NewRec ELSE s.messages[m]
        IN  IF m \in dead \/ (m \notin outbox /\ s.messages[m] = NoRec) THEN NoRec
            ELSE IF m \in acks THEN Unclaimed(r, "acked")
            ELSE IF Returns(r, m, due) THEN Unclaimed(r, "pending") ELSE r]
      fences == {messages[m].fence : m \in {n \in Msg : messages[n] # NoRec}}
  IN  [count |-> Max({s.count} \cup fences), messages |-> messages,
       acks |-> s.acks \cup acks]

Waiting(s) == {m \in Msg : s.messages[m] # NoRec /\ s.messages[m].status = "retry_wait"}

Recover(c) ==
  /\ Alive(c) /\ at[c] = "recover"
  /\ \E due \in SUBSET Waiting(mem[c]) :
       LET s == Replayed(mem[c], due)
       IN  /\ mem' = [mem EXCEPT ![c] = s]
           /\ WriteState(c, s)
  /\ Goto(c, "decide")
  /\ UNCHANGED <<Rest, journals, lease, op, msg, token, seen, Counts>>

-----------------------------------------------------------------------------
\* append

ExistingUnacked(s, m) ==
  {n \in Msg : s.messages[n] # NoRec /\ s.messages[n].status # "acked" /\ KeyOf[n] = KeyOf[m]}

\* A message of the same key that is not a dead letter is returned instead.
Existing(s, m) == {n \in Msg : s.messages[n] # NoRec /\ KeyOf[n] = KeyOf[m]}

Append(c) ==
  LET m == MsgOf[c]
  IN  /\ Alive(c) /\ at[c] = "decide" /\ op[c] = "append"
      /\ \/ /\ Existing(mem[c], m) # {}
            /\ Return(c)
            /\ UNCHANGED outbox
         \/ /\ Existing(mem[c], m) = {}
            /\ outbox' = outbox \cup {m}
            /\ mem' = [mem EXCEPT ![c].messages[m] = NewRec]
            /\ Goto(c, "save")
            /\ UNCHANGED <<seen, stale>>
      /\ UNCHANGED <<Rest, inbox, acks, dead, state, lease, op, msg, token, clobbered, Counts>>

-----------------------------------------------------------------------------
\* claimById and claimNext

Live(r) == r.status = "claimed" /\ r.claim \notin expired

\* The messages a claim may consider: claimById also one that waits for a retry.
Candidates(c) ==
  {m \in Msg :
     /\ mem[c].messages[m] # NoRec
     /\ IF KindOf[c] = "dispatchById"
        THEN m = MsgOf[c] /\ ~Live(mem[c].messages[m]) /\ mem[c].messages[m].status # "acked"
        ELSE mem[c].messages[m].status = "pending"}

ExhaustedEarly(r) == r.attempt + 1 >= MaxAttempts
ExhaustedLate(r) == r.attempt > MaxAttempts

Exhausted(r) == r.attempt >= MaxAttempts

ClaimOf(c, m) ==
  LET s == mem[c]
  IN  [count |-> s.count + 1, acks |-> s.acks,
       messages |-> [s.messages EXCEPT ![m] =
         [status |-> "claimed", owner |-> OwnerOf[c], fence |-> s.count + 1, claim |-> c,
          attempt |-> s.messages[m].attempt + 1]]]

\* The claim is made in memory and written to the lease file.
Claim(c) ==
  /\ Alive(c) /\ at[c] = "decide" /\ op[c] = "claim"
  /\ \E m \in Candidates(c) :
       /\ ~Exhausted(mem[c].messages[m])
       /\ mem' = [mem EXCEPT ![c] = ClaimOf(c, m)]
       /\ msg' = [msg EXCEPT ![c] = m]
       /\ token' = [token EXCEPT ![c] = mem[c].count + 1]
       /\ lease' = [lease EXCEPT ![m] = [owner |-> OwnerOf[c], fence |-> mem[c].count + 1,
                                         claim |-> c]]
  /\ Goto(c, "save")
  /\ UNCHANGED <<Rest, journals, state, op, stale, clobbered, seen, Counts>>

\* A candidate whose attempts are used up is to become a dead letter.
Condemn(c) ==
  /\ Alive(c) /\ at[c] = "decide" /\ op[c] = "claim"
  /\ \E m \in Candidates(c) :
       /\ Exhausted(mem[c].messages[m])
       /\ msg' = [msg EXCEPT ![c] = m]
  /\ Goto(c, "bury")
  /\ UNCHANGED <<Rest, files, op, mem, token, history>>

\* No candidate: claimNext still writes its copy, claimById returns at once.
NoClaim(c) ==
  /\ Alive(c) /\ at[c] = "decide" /\ op[c] = "claim" /\ Candidates(c) = {}
  /\ IF KindOf[c] = "dispatchOne" THEN WriteState(c, mem[c]) ELSE UNCHANGED <<state, clobbered>>
  /\ Goto(c, "done")
  /\ mem' = [mem EXCEPT ![c] = NoState]
  /\ seen' = [seen EXCEPT ![c] = Nothing]
  /\ KindOf[c] # "dispatchOne" => stale' = stale \ {c}
  /\ UNCHANGED <<Rest, journals, lease, op, msg, token, Counts>>

-----------------------------------------------------------------------------
\* deadLetter, called by a claim and by nack

BuryKeepsRecord(c) ==
  /\ Alive(c) /\ at[c] = "bury"
  /\ dead' = dead \cup {msg[c]}
  /\ mem' = [mem EXCEPT ![c].messages[msg[c]] = Unclaimed(@, "dead_letter")]
  /\ Goto(c, "unlease")
  /\ UNCHANGED <<Rest, outbox, inbox, acks, state, lease, op, msg, token, history>>

Bury(c) ==
  /\ Alive(c) /\ at[c] = "bury"
  /\ dead' = dead \cup {msg[c]}
  /\ mem' = [mem EXCEPT ![c].messages[msg[c]] = NoRec]
  /\ Goto(c, "unlease")
  /\ UNCHANGED <<Rest, outbox, inbox, acks, state, lease, op, msg, token, history>>

\* removeLease at the end of deadLetter and of ack; claimNext looks for another message.
RemoveLease(c) ==
  /\ Alive(c) /\ at[c] = "unlease"
  /\ lease' = [lease EXCEPT ![msg[c]] = NoLease]
  /\ IF op[c] = "claim"
     THEN /\ msg' = [msg EXCEPT ![c] = NoMsg]
          /\ Goto(c, IF KindOf[c] = "dispatchOne" THEN "decide" ELSE "save")
     ELSE Goto(c, "save") /\ UNCHANGED msg
  /\ UNCHANGED <<Rest, journals, state, op, mem, token, history>>

\* The writeState at the end of every operation; a claim goes on to the delivery.
Save(c) ==
  /\ Alive(c) /\ at[c] = "save"
  /\ WriteState(c, mem[c])
  /\ mem' = [mem EXCEPT ![c] = NoState]
  /\ IF op[c] = "claim" /\ msg[c] # NoMsg
     THEN /\ claims' = [claims EXCEPT ![msg[c]] = @ + 1]
          /\ Goto(c, "check")
          /\ UNCHANGED seen
     ELSE /\ Goto(c, "done")
          /\ seen' = [seen EXCEPT ![c] = Nothing]
          /\ UNCHANGED claims
  /\ UNCHANGED <<Rest, journals, lease, op, msg, token, starts, handled>>

-----------------------------------------------------------------------------
\* dispatchOne and dispatchById after the claim

\* assertCurrentClaim, against a record of state.json or a lease file
IsClaimOf(r, c) == r.owner = OwnerOf[c] /\ r.fence = token[c] /\ r.claim \notin expired

IsCurrent(r, c) == r.status = "claimed" /\ IsClaimOf(r, c)

\* assertClaim
Asserted(c) == lease[msg[c]] # NoLease /\ IsClaimOf(lease[msg[c]], c)

CheckStarted(c) ==
  /\ Alive(c) /\ at[c] = "check"
  /\ IF Asserted(c)
     THEN /\ Goto(c, IF inbox[KeyOf[msg[c]]] # "none" THEN "recheck" ELSE "start")
          /\ UNCHANGED op
     ELSE Switch(c, "nack")
  /\ UNCHANGED <<Rest, files, mem, msg, token, history>>

\* The first assertClaim, and applyWithInbox looking for an applied line.
Check(c) ==
  /\ Alive(c) /\ at[c] = "check"
  /\ IF Asserted(c)
     THEN /\ Goto(c, IF inbox[KeyOf[msg[c]]] = "applied" THEN "recheck" ELSE "start")
          /\ UNCHANGED op
     ELSE Switch(c, "nack")
  /\ UNCHANGED <<Rest, files, mem, msg, token, history>>

\* The started line goes to the inbox and the handler is called.
Start(c) ==
  /\ Alive(c) /\ at[c] = "start"
  /\ inbox' = [inbox EXCEPT ![KeyOf[msg[c]]] = "started"]
  /\ starts' = [starts EXCEPT ![msg[c]] = @ + 1]
  /\ Goto(c, "handle")
  /\ UNCHANGED <<Rest, outbox, acks, dead, state, lease, op, mem, msg, token,
                 stale, clobbered, seen, claims, handled>>

Handle(c) ==
  /\ Alive(c) /\ at[c] = "handle"
  /\ handled' = handled \cup {KeyOf[msg[c]]}
  /\ Goto(c, "applied")
  /\ UNCHANGED <<Rest, files, op, mem, msg, token, stale, clobbered, seen, starts, claims>>

HandlerThrows(c) ==
  /\ Alive(c) /\ at[c] = "handle"
  /\ Switch(c, "nack")
  /\ UNCHANGED <<Rest, files, mem, msg, token, history>>

\* The applied line.
Applied(c) ==
  /\ Alive(c) /\ at[c] = "applied"
  /\ inbox' = [inbox EXCEPT ![KeyOf[msg[c]]] = "applied"]
  /\ Goto(c, "recheck")
  /\ UNCHANGED <<Rest, outbox, acks, dead, state, lease, op, mem, msg, token, history>>

\* The second assertClaim.
Recheck(c) ==
  /\ Alive(c) /\ at[c] = "recheck"
  /\ Switch(c, IF Asserted(c) THEN "ack" ELSE "nack")
  /\ UNCHANGED <<Rest, files, mem, msg, token, history>>

Acked(s, m) ==
  [count |-> s.count, acks |-> s.acks \cup {m},
   messages |-> [s.messages EXCEPT ![m] =
     IF @ = NoRec THEN NoRec ELSE Unclaimed(@, "acked")]]

\* ack: a message that is gone from the state is acknowledged without a check.
Ack(c) ==
  LET r == mem[c].messages[msg[c]]
  IN  /\ Alive(c) /\ at[c] = "decide" /\ op[c] = "ack"
      /\ \/ /\ msg[c] \in mem[c].acks
            /\ Return(c)
            /\ UNCHANGED <<acks, op>>
         \/ /\ msg[c] \notin mem[c].acks /\ r # NoRec /\ ~IsCurrent(r, c)
            /\ Switch(c, "nack")
            /\ UNCHANGED <<acks, mem, seen, stale>>
         \/ /\ msg[c] \notin mem[c].acks /\ (r # NoRec => IsCurrent(r, c))
            /\ acks' = acks \cup {msg[c]}
            /\ mem' = [mem EXCEPT ![c] = Acked(@, msg[c])]
            /\ Goto(c, IF r = NoRec THEN "save" ELSE "unlease")
            /\ UNCHANGED <<op, seen, stale>>
      /\ UNCHANGED <<Rest, outbox, inbox, dead, state, lease, msg, token, clobbered, Counts>>

\* nack: refused when the message is gone or the claim is not the current one.
Nack(c) ==
  LET r == mem[c].messages[msg[c]]
      current == r # NoRec /\ IsCurrent(r, c)
  IN  /\ Alive(c) /\ at[c] = "decide" /\ op[c] = "nack"
      /\ \/ /\ ~current
            /\ Return(c)
            /\ UNCHANGED lease
         \/ /\ current
            /\ lease' = [lease EXCEPT ![msg[c]] = NoLease]
            /\ mem' = [mem EXCEPT ![c].messages[msg[c]] = Unclaimed(r, "retry_wait")]
            /\ Goto(c, IF Exhausted(r) THEN "bury" ELSE "save")
            /\ UNCHANGED <<seen, stale>>
      /\ UNCHANGED <<Rest, journals, state, op, msg, token, clobbered, Counts>>

-----------------------------------------------------------------------------
\* Environment

\* Time passes a lease_expires_at that somebody may still look at.
Expire(c) ==
  /\ token[c] # 0 /\ c \notin expired
  /\ \/ at[c] # "done"
     \/ \E m \in Msg : lease[m] # NoLease /\ lease[m].claim = c
     \/ \E m \in Msg : state.messages[m] # NoRec /\ state.messages[m].claim = c
  /\ expired' = expired \cup {c}
  /\ UNCHANGED <<up, files, local, history>>

Crash(p) ==
  /\ p \in up \cap Mortal
  /\ up' = up \ {p}
  /\ LET gone == {c \in Call : ProcOf[c] = p}
     IN  /\ at' = [c \in Call |-> IF c \in gone THEN "done" ELSE at[c]]
         /\ mem' = [c \in Call |-> IF c \in gone THEN NoState ELSE mem[c]]
         /\ seen' = [c \in Call |-> IF c \in gone THEN Nothing ELSE seen[c]]
         /\ stale' = stale \ gone
  /\ UNCHANGED <<files, op, msg, token, expired, clobbered, Counts>>

Operation(c) ==
  \/ Load(c) \/ Recover(c) \/ Append(c)
  \/ Claim(c) \/ Condemn(c) \/ NoClaim(c) \/ Bury(c) \/ RemoveLease(c) \/ Save(c)
Delivery(c) ==
  \/ Check(c) \/ Start(c) \/ Handle(c) \/ HandlerThrows(c) \/ Applied(c) \/ Recheck(c)
  \/ Ack(c) \/ Nack(c)

Next ==
  \/ \E c \in Call : Operation(c) \/ Delivery(c) \/ Expire(c)
  \/ \E p \in Proc : Crash(p)

Spec == Init /\ [][Next]_vars

-----------------------------------------------------------------------------
\* Properties

\* The files and the calls keep their types.
TypeOK ==
  /\ up \in SUBSET Proc
  /\ outbox \in SUBSET Msg /\ acks \in SUBSET outbox /\ dead \in SUBSET outbox
  /\ inbox \in [Key -> {"none", "started", "applied"}]
  /\ state \in State
  /\ lease \in [Msg -> Lease \cup {NoLease}]
  /\ op \in [Call -> {"append", "claim", "ack", "nack"}] /\ at \in [Call -> At]
  /\ mem \in [Call -> State]
  /\ msg \in [Call -> Msg \cup {NoMsg}] /\ token \in [Call -> Nat]
  /\ expired \in SUBSET Call /\ stale \in SUBSET Call /\ clobbered \in BOOLEAN
  /\ seen \in [Call -> Snapshot]
  /\ starts \in [Msg -> Nat] /\ claims \in [Msg -> Nat]
  /\ handled \in SUBSET Key

Delivering(c) == at[c] \in {"check", "start", "handle", "applied", "recheck"}

\* However old the copies are that others write over state.json, a call that starts
\* after a message was acknowledged or buried does not deliver it again: recover lays
\* the acks and the dead letters over whatever it has read.
SettledIsFinal ==
  \A c \in Call : Delivering(c) => msg[c] \notin seen[c].settled

\* A message is acknowledged only after a handler has returned for its dedupe key; a
\* line that only says started does not make it a duplicate.
AckImpliesApplied == \A m \in acks : KeyOf[m] \in handled

\* Stale writes may lose attempts but never invent one: a message that became a dead
\* letter had all its attempts, each saved before the handler ran.
DeadLetterExhausted == \A m \in dead : claims[m] >= MaxAttempts

\* An append that starts when a message of its key is in the outbox, and not a dead
\* letter, adds nothing, also when the writer of that line died before its state.json
\* or another write has undone it.
DedupeSeesOutbox ==
  \A c \in Call :
    at[c] = "save" /\ op[c] = "append" =>
      ~\E m \in seen[c].outbox \ dead : KeyOf[m] = KeyOf[MsgOf[c]]

\* As long as no old copy has been written back, a handler is not started more often
\* than max_attempts allows, whatever crashes, expires or is retried.
BudgetKept == clobbered \/ \A m \in Msg : starts[m] <= MaxAttempts

\* As long as no old copy has been written back, two calls are in the delivery of one
\* message only when the claim of one of them has expired.
ClaimExclusive ==
  clobbered \/ \A c, d \in Call :
    c # d /\ Delivering(c) /\ Delivering(d) /\ msg[c] = msg[d] => {c, d} \cap expired # {}

\* messageStore.ts:725 refuses a delivery whose claim is not the current one: of two
\* calls that have both asserted their claims of one message, one has expired.
StaleDeliveryRefused ==
  \A c, d \in Call :
    c # d /\ at[c] = "handle" /\ at[d] = "handle" /\ msg[c] = msg[d] => {c, d} \cap expired # {}
=============================================================================
