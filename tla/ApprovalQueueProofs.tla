------------------------ MODULE ApprovalQueueProofs ------------------------
(***************************************************************************)
(* Proofs about the approval queue, for any number of waiters and any ids:  *)
(* its invariants, and that it implements Approval.                         *)
(*                                                                          *)
(* The argument rests on the tokens.  NEXT_TOKEN makes them unique, so an   *)
(* entry with a waiter's token is that waiter's own entry, however often    *)
(* the id was reused.                                                       *)
(***************************************************************************)
EXTENDS ApprovalQueue, TLAPS

Waits(w) == pc[w] \in {"waiting", "timed out"}

\* WaiterListed, for the channels that occur (ChannelInv).
Listed ==
    \A w \in Waiter : pc[w] \in {"waiting", "timed out"} /\ chan[w] = "empty" =>
        /\ id[w] \in DOMAIN entries
        /\ entries[id[w]].waiter = w

TokensUnique ==
    \A v, w \in Waiter : pc[v] # "new" /\ pc[w] # "new" =>
        /\ token[w] < next
        /\ v # w => token[v] # token[w]

EntriesOwned ==
    \A i \in DOMAIN entries : entries[i].token = token[entries[i].waiter]

\* A channel holds a verdict or nothing, and nothing before the registration;
\* an answer is given at the end of the wait.
ChannelInv ==
    \A w \in Waiter :
        /\ chan[w] # "lost"
        /\ pc[w] \in {"new", "tokened"} => chan[w] = "empty"
        /\ pc[w] \in {"new", "tokened"} \/ Waits(w) => answer[w] = "nothing"

IInv ==
    /\ QueueTypeOK
    /\ Listed
    /\ NoStaleEntry
    /\ TokensUnique
    /\ EntriesOwned
    /\ ChannelInv

\* What the invariant says of one entry.
LEMMA EntryFacts ==
  ASSUME IInv, NEW i \in DOMAIN entries
  PROVE  /\ i \in Id
         /\ entries[i].waiter \in Waiter
         /\ pc[entries[i].waiter] \in {"waiting", "timed out"}
         /\ chan[entries[i].waiter] = "empty"
         /\ id[entries[i].waiter] = i
         /\ entries[i].token = token[entries[i].waiter]
<1>1. i \in Id /\ entries[i].waiter \in Waiter
  BY Zenon DEF IInv, QueueTypeOK
<1> QED BY <1>1, Zenon DEF IInv, NoStaleEntry, EntriesOwned

\* An entry with the waiter's id and token is its own; a waiter without a
\* verdict has one.
LEMMA OwnEntry ==
  ASSUME IInv, NEW w \in Waiter, Waits(w) \/ pc[w] = "dropping"
  PROVE  /\ Own(w) => /\ id[w] \in DOMAIN entries
                      /\ entries[id[w]].waiter = w
                      /\ chan[w] = "empty"
                      /\ Waits(w)
         /\ Waits(w) /\ chan[w] = "empty" => Own(w)
<1>1. ASSUME Own(w)
      PROVE  /\ id[w] \in DOMAIN entries
             /\ entries[id[w]].waiter = w
             /\ chan[w] = "empty"
             /\ Waits(w)
  <2> DEFINE v == entries[id[w]].waiter
  <2>1. id[w] \in DOMAIN entries /\ v \in Waiter /\ token[v] = token[w]
    BY <1>1, Zenon DEF Own, IInv, QueueTypeOK, EntriesOwned
  <2>2. pc[v] # "new" /\ pc[w] # "new"
    BY <2>1, Zenon DEF IInv, NoStaleEntry, Waits
  <2>3. v = w
    BY <2>1, <2>2, Zenon DEF IInv, TokensUnique
  <2> QED BY <2>1, <2>3 DEF IInv, NoStaleEntry, Waits
<1>2. Waits(w) /\ chan[w] = "empty" => Own(w)
  BY Zenon DEF Waits, Own, IInv, Listed, EntriesOwned
<1> QED BY <1>1, <1>2, Zenon

LEMMA InitInv == QueueInit => IInv
  BY DEF QueueInit, IInv, QueueTypeOK, Listed, NoStaleEntry, TokensUnique, EntriesOwned,
         ChannelInv, Waits

LEMMA TakeTokenStep ==
  ASSUME IInv, NEW w \in Waiter, TakeToken(w)
  PROVE  IInv'
<1>1. UNCHANGED <<entries, id, chan, answer>>
  BY Zenon DEF TakeToken
<1>2. /\ pc[w] = "new" /\ pc'[w] = "tokened"
      /\ token'[w] = next
      /\ \A v \in Waiter \ {w} : pc'[v] = pc[v] /\ token'[v] = token[v]
  BY Zenon DEF TakeToken, Moves, IInv, QueueTypeOK
<1>3. QueueTypeOK'
  <2>1. token \in [Waiter -> Nat] /\ next \in Nat
    BY Zenon DEF TakeToken, IInv, QueueTypeOK
  <2>2. token' \in [Waiter -> Nat] /\ next' \in Nat
    BY <2>1 DEF TakeToken
  <2>3. pc' \in [Waiter -> {"new", "tokened", "waiting", "timed out", "dropping", "done"}]
    BY Zenon DEF TakeToken, Moves, IInv, QueueTypeOK
  <2> QED BY <1>1, <2>2, <2>3, Zenon DEF IInv, QueueTypeOK
<1>4. \A i \in DOMAIN entries :
         LET v == entries[i].waiter
         IN  v \in Waiter /\ pc'[v] = pc[v] /\ token'[v] = token[v]
  BY <1>2, EntryFacts, Zenon
<1>5. NoStaleEntry' /\ EntriesOwned'
  <2> SUFFICES ASSUME NEW i \in DOMAIN entries
               PROVE  LET v == entries[i].waiter
                      IN  /\ pc'[v] \in {"waiting", "timed out"}
                          /\ chan[v] = "empty"
                          /\ id[v] = i
                          /\ entries[i].token = token'[v]
    BY <1>1, Zenon DEF NoStaleEntry, EntriesOwned
  <2> QED BY <1>4, EntryFacts
<1>6. Listed'
  BY <1>1, <1>2, Zenon DEF IInv, Listed
<1>7. TokensUnique'
  <2>1. next \in Nat /\ next' = next + 1 /\ token \in [Waiter -> Nat]
    BY Zenon DEF TakeToken, IInv, QueueTypeOK
  <2>2. \A v \in Waiter : pc[v] # "new" => token[v] < next
    BY Zenon DEF IInv, TokensUnique
  <2>3. \A v \in Waiter \ {w} : pc'[v] # "new" => token'[v] < next
    BY <1>2, <2>2, Zenon
  <2>4. \A u, v \in Waiter \ {w} : pc'[u] # "new" /\ pc'[v] # "new" /\ u # v
                                    => token'[u] # token'[v]
    BY <1>2, Zenon DEF IInv, TokensUnique
  <2>5. \A v \in Waiter : token'[v] \in Nat
    BY <1>3, Zenon DEF QueueTypeOK
  <2> QED BY <1>2, <2>1, <2>3, <2>4, <2>5 DEF TokensUnique
<1>8. ChannelInv'
  BY <1>1, <1>2, Zenon DEF IInv, ChannelInv, Waits
<1> QED BY <1>3, <1>5, <1>6, <1>7, <1>8, Zenon DEF IInv

LEMMA RegisterStep ==
  ASSUME IInv, NEW w \in Waiter, Register(w)
  PROVE  IInv'
<1>1. PICK i \in Id \ DOMAIN entries :
         /\ entries' = Put(entries, i, [token |-> token[w], waiter |-> w])
         /\ id' = [id EXCEPT ![w] = i]
  BY Zenon DEF Register
<1>2. DOMAIN entries' = DOMAIN entries \cup {i}
  BY <1>1, Zenon DEF Put
<1>3. entries'[i] = [token |-> token[w], waiter |-> w]
  BY <1>1, Zenon DEF Put
<1>4. \A j \in DOMAIN entries : entries'[j] = entries[j]
  BY <1>1, Zenon DEF Put
<1>5. pc[w] = "tokened" /\ pc'[w] = "waiting" /\ id'[w] = i
  BY <1>1, Zenon DEF Register, Moves, IInv, QueueTypeOK
<1>6. \A v \in Waiter : v # w => pc'[v] = pc[v] /\ id'[v] = id[v]
  BY <1>1, Zenon DEF Register, Moves, IInv, QueueTypeOK
<1>7. UNCHANGED <<next, token, chan, answer>>
  BY Zenon DEF Register
<1>8. \A j \in DOMAIN entries : entries[j].waiter \in Waiter /\ entries[j].waiter # w
  BY <1>5, EntryFacts, Zenon
<1>9. entries'[i].waiter = w /\ entries'[i].token = token[w]
  BY <1>3
<1>10. QueueTypeOK'
  <2>1. /\ pc' \in [Waiter -> {"new", "tokened", "waiting", "timed out", "dropping", "done"}]
        /\ id' \in [Waiter -> Id \cup {NoId}]
    BY <1>1, Zenon DEF Register, Moves, IInv, QueueTypeOK
  <2>2. entries'[i] \in [token : Nat, waiter : Waiter]
    <3>1. token[w] \in Nat
      BY Zenon DEF IInv, QueueTypeOK
    <3> QED BY <1>3, <3>1
  <2>3. \A j \in DOMAIN entries' : entries'[j] \in [token : Nat, waiter : Waiter]
    BY <1>2, <1>4, <2>2, Zenon DEF IInv, QueueTypeOK
  <2>4. DOMAIN entries' \subseteq Id
    BY <1>2, Zenon DEF IInv, QueueTypeOK
  <2> QED BY <1>7, <2>1, <2>3, <2>4, Zenon DEF IInv, QueueTypeOK
<1>11. NoStaleEntry'
  <2> SUFFICES ASSUME NEW j \in DOMAIN entries'
               PROVE  LET v == entries'[j].waiter
                      IN  pc'[v] \in {"waiting", "timed out"} /\ chan'[v] = "empty" /\ id'[v] = j
    BY Zenon DEF NoStaleEntry
  <2>1. CASE j = i
    <3>1. chan'[w] = "empty"
      BY <1>5, <1>7, Zenon DEF IInv, ChannelInv
    <3> QED BY <1>5, <1>9, <2>1, <3>1, Zenon
  <2>2. CASE j \in DOMAIN entries
    <3> DEFINE v == entries[j].waiter
    <3>1. entries'[j].waiter = v
      BY <1>4, <2>2, Zenon
    <3>2. pc'[v] = pc[v] /\ id'[v] = id[v] /\ chan'[v] = chan[v]
      BY <1>6, <1>7, <1>8, <2>2, Zenon
    <3> QED BY <2>2, <3>1, <3>2, EntryFacts, Zenon
  <2> QED BY <1>2, <2>1, <2>2, Zenon
<1>12. Listed'
  <2> SUFFICES ASSUME NEW v \in Waiter, pc'[v] \in {"waiting", "timed out"}, chan'[v] = "empty"
               PROVE  id'[v] \in DOMAIN entries' /\ entries'[id'[v]].waiter = v
    BY Zenon DEF Listed
  <2>1. CASE v = w
    <3>1. id'[v] = i
      BY <1>5, <2>1, Zenon
    <3> QED BY <1>2, <1>9, <2>1, <3>1, Zenon
  <2>2. CASE v # w
    <3>1. id[v] \in DOMAIN entries /\ entries[id[v]].waiter = v
      BY <1>6, <1>7, <2>2, Zenon DEF IInv, Listed
    <3> QED BY <1>2, <1>4, <1>6, <2>2, <3>1, Zenon
  <2> QED BY <2>1, <2>2, Zenon
<1>13. TokensUnique'
  <2>1. \A v \in Waiter : pc'[v] # "new" => pc[v] # "new"
    BY <1>5, <1>6, Zenon
  <2> QED BY <1>7, <2>1, Zenon DEF IInv, TokensUnique
<1>14. EntriesOwned'
  <2> SUFFICES ASSUME NEW j \in DOMAIN entries'
               PROVE  entries'[j].token = token[entries'[j].waiter]
    BY <1>7, Zenon DEF EntriesOwned
  <2>1. CASE j = i
    BY <1>9, <2>1, Zenon
  <2>2. CASE j \in DOMAIN entries
    <3>1. entries'[j] = entries[j]
      BY <1>4, <2>2, Zenon
    <3> QED BY <2>2, <3>1, EntryFacts, Zenon
  <2> QED BY <1>2, <2>1, <2>2, Zenon
<1>15. ChannelInv'
  BY <1>5, <1>6, <1>7, Zenon DEF IInv, ChannelInv, Waits
<1> QED BY <1>10, <1>11, <1>12, <1>13, <1>14, <1>15, Zenon DEF IInv

LEMMA DecideStep ==
  ASSUME IInv, NEW i \in Id, NEW verdict \in {"allow", "deny"}, Decide(i, verdict)
  PROVE  IInv'
<1> DEFINE w == entries[i].waiter
<1>1. /\ w \in Waiter /\ id[w] = i /\ Waits(w)
      /\ DOMAIN entries' = DOMAIN entries \ {i}
      /\ \A j \in DOMAIN entries' : entries'[j] = entries[j]
      /\ UNCHANGED <<next, pc, id, token, answer>>
  BY Zenon DEF Decide, Restrict, IInv, QueueTypeOK, NoStaleEntry, Waits
<1>2. chan'[w] = verdict /\ \A v \in Waiter \ {w} : chan'[v] = chan[v]
  BY <1>1, Zenon DEF Decide, IInv, QueueTypeOK
<1>3. QueueTypeOK'
  BY <1>1 DEF Decide, IInv, QueueTypeOK
<1>4. NoStaleEntry'
  <2> SUFFICES ASSUME NEW j \in DOMAIN entries'
               PROVE  LET v == entries[j].waiter
                      IN  pc[v] \in {"waiting", "timed out"} /\ chan'[v] = "empty" /\ id[v] = j
    BY <1>1 DEF NoStaleEntry
  <2>1. j \in DOMAIN entries /\ j # i
    BY <1>1, Zenon
  <2>2. entries[j].waiter \in Waiter /\ entries[j].waiter # w
    BY <1>1, <2>1, EntryFacts
  <2> QED BY <1>2, <2>1, <2>2, EntryFacts
<1>5. Listed'
  BY <1>1, <1>2 DEF IInv, Listed
<1>6. TokensUnique' /\ EntriesOwned'
  BY <1>1, Zenon DEF IInv, TokensUnique, EntriesOwned
<1>7. ChannelInv'
  BY <1>1, <1>2 DEF IInv, ChannelInv, Waits
<1> QED BY <1>3, <1>4, <1>5, <1>6, <1>7, Zenon DEF IInv

\* A waiter that leaves takes its own entry with it, and no other.
LEMMA RemoveOwnStep ==
  ASSUME IInv, NEW w \in Waiter, Waits(w) \/ pc[w] = "dropping",
         RemoveOwn(w), NEW to \in {"dropping", "done"}, Moves(w, to),
         UNCHANGED <<next, id, token>>,
         answer' \in [Waiter -> {"nothing", "ok", "denied", "timeout"}],
         \A v \in Waiter : v # w => answer'[v] = answer[v]
  PROVE  IInv'
<1>1. pc'[w] = to /\ \A v \in Waiter : v # w => pc'[v] = pc[v]
  BY Zenon DEF Moves, IInv, QueueTypeOK
<1>2. UNCHANGED chan
  BY Zenon DEF RemoveOwn
<1>3. /\ DOMAIN entries' \subseteq DOMAIN entries
      /\ \A i \in DOMAIN entries' : entries'[i] = entries[i] /\ entries[i].waiter # w
  <2>1. CASE Own(w)
    <3>1. DOMAIN entries' = DOMAIN entries \ {id[w]}
      BY <2>1, Zenon DEF RemoveOwn, Restrict
    <3>2. \A i \in DOMAIN entries' : entries'[i] = entries[i]
      BY <2>1, Zenon DEF RemoveOwn, Restrict
    <3> QED BY <3>1, <3>2, EntryFacts, Zenon
  <2>2. CASE ~Own(w)
    <3>1. entries' = entries
      BY <2>2, Zenon DEF RemoveOwn
    <3>2. ASSUME NEW i \in DOMAIN entries PROVE entries[i].waiter # w
      <4>1. /\ id[entries[i].waiter] = i
            /\ entries[i].token = token[entries[i].waiter]
        BY EntryFacts, Zenon
      <4> QED BY <2>2, <4>1, Zenon DEF Own
    <3> QED BY <3>1, <3>2, Zenon
  <2> QED BY <2>1, <2>2, Zenon
<1>4. \A i \in DOMAIN entries : entries[i].waiter # w => i \in DOMAIN entries'
  <2>1. CASE Own(w)
    BY <2>1, OwnEntry, Zenon DEF RemoveOwn, Restrict
  <2>2. CASE ~Own(w)
    BY <2>2, Zenon DEF RemoveOwn
  <2> QED BY <2>1, <2>2, Zenon
<1>5. QueueTypeOK'
  <2>1. pc' \in [Waiter -> {"new", "tokened", "waiting", "timed out", "dropping", "done"}]
    BY Zenon DEF Moves, IInv, QueueTypeOK
  <2>2. /\ DOMAIN entries' \subseteq Id
        /\ \A i \in DOMAIN entries' : entries'[i] \in [token : Nat, waiter : Waiter]
    BY <1>3, Zenon DEF IInv, QueueTypeOK
  <2> QED BY <1>2, <2>1, <2>2, Zenon DEF IInv, QueueTypeOK
<1>6. NoStaleEntry' /\ EntriesOwned'
  <2> SUFFICES ASSUME NEW i \in DOMAIN entries'
               PROVE  LET v == entries'[i].waiter
                      IN  /\ pc'[v] \in {"waiting", "timed out"}
                          /\ chan'[v] = "empty"
                          /\ id'[v] = i
                          /\ entries'[i].token = token'[v]
    BY Zenon DEF NoStaleEntry, EntriesOwned
  <2> DEFINE v == entries[i].waiter
  <2>1. i \in DOMAIN entries /\ entries'[i] = entries[i] /\ v # w
    BY <1>3, Zenon
  <2>2. v \in Waiter
    BY <2>1, EntryFacts, Zenon
  <2>3. pc'[v] = pc[v] /\ chan' = chan /\ id' = id /\ token' = token
    BY <1>1, <1>2, <2>1, <2>2, Zenon
  <2>4. pc[v] \in {"waiting", "timed out"} /\ chan[v] = "empty" /\ id[v] = i
    BY <2>1, EntryFacts, Zenon
  <2>5. entries[i].token = token[v]
    BY <2>1, EntryFacts, Zenon
  <2> HIDE DEF v
  <2>6. entries'[i].waiter = v /\ entries'[i].token = entries[i].token
    BY <2>1, Zenon DEF v
  <2> QED BY <2>3, <2>4, <2>5, <2>6, Zenon
<1>7. Listed'
  <2> SUFFICES ASSUME NEW v \in Waiter, pc'[v] \in {"waiting", "timed out"}, chan'[v] = "empty"
               PROVE  id'[v] \in DOMAIN entries' /\ entries'[id'[v]].waiter = v
    BY Zenon DEF Listed
  <2>1. v # w
    BY <1>1, Zenon
  <2>2. id[v] \in DOMAIN entries /\ entries[id[v]].waiter = v
    BY <1>1, <1>2, <2>1, Zenon DEF IInv, Listed
  <2> QED BY <1>3, <1>4, <2>1, <2>2, Zenon
<1>8. TokensUnique'
  <2>1. \A v \in Waiter : pc'[v] # "new" => pc[v] # "new"
    BY <1>1, Zenon DEF Waits
  <2> QED BY <2>1, Zenon DEF IInv, TokensUnique
<1>9. ChannelInv'
  BY <1>1, <1>2, Zenon DEF IInv, ChannelInv, Waits
<1> QED BY <1>5, <1>6, <1>7, <1>8, <1>9, Zenon DEF IInv

\* Steps that change neither the queue nor a channel.
LEMMA WaitStep ==
  ASSUME IInv, NEW w \in Waiter, Receive(w) \/ TimerFires(w)
  PROVE  IInv'
<1>1. UNCHANGED <<entries, next, id, token, chan>>
  BY Zenon DEF Receive, TimerFires
<1>2. \A v \in Waiter : v # w => pc'[v] = pc[v] /\ answer'[v] = answer[v]
  BY Zenon DEF Receive, TimerFires, Moves, Answer, IInv, QueueTypeOK
<1>3. /\ pc[w] = "waiting"
      /\ \/ pc'[w] = "dropping" /\ chan[w] # "empty"
         \/ pc'[w] = "timed out" /\ answer' = answer
  BY Zenon DEF Receive, TimerFires, Moves, IInv, QueueTypeOK
<1>4. QueueTypeOK'
  <2>1. pc' \in [Waiter -> {"new", "tokened", "waiting", "timed out", "dropping", "done"}]
    BY Zenon DEF Receive, TimerFires, Moves, IInv, QueueTypeOK
  <2>2. answer' \in [Waiter -> {"nothing", "ok", "denied", "timeout"}]
    BY Zenon DEF Receive, TimerFires, Answer, Verdict, IInv, QueueTypeOK
  <2> QED BY <1>1, <2>1, <2>2, Zenon DEF IInv, QueueTypeOK
<1>5. NoStaleEntry' /\ EntriesOwned'
  <2> SUFFICES ASSUME NEW i \in DOMAIN entries
               PROVE  LET v == entries[i].waiter
                      IN  /\ pc'[v] \in {"waiting", "timed out"}
                          /\ chan[v] = "empty"
                          /\ id[v] = i
                          /\ entries[i].token = token[v]
    BY <1>1, Zenon DEF NoStaleEntry, EntriesOwned
  <2> QED BY <1>2, <1>3, EntryFacts
<1>6. Listed'
  <2>1. \A v \in Waiter : pc'[v] \in {"waiting", "timed out"} => pc[v] \in {"waiting", "timed out"}
    BY <1>2, <1>3, Zenon
  <2> QED BY <1>1, <2>1, Zenon DEF IInv, Listed
<1>7. TokensUnique'
  <2>1. \A v \in Waiter : pc'[v] # "new" => pc[v] # "new"
    BY <1>2, <1>3, Zenon
  <2> QED BY <1>1, <2>1, Zenon DEF IInv, TokensUnique
<1>8. ChannelInv'
  BY <1>1, <1>2, <1>3, Zenon DEF IInv, ChannelInv, Waits
<1> QED BY <1>4, <1>5, <1>6, <1>7, <1>8, Zenon DEF IInv

LEMMA LeaveStep ==
  ASSUME IInv, NEW w \in Waiter, CleanUp(w) \/ Drop(w) \/ Cancel(w)
  PROVE  IInv'
<1>1. CASE CleanUp(w)
  <2>1. answer' \in [Waiter -> {"nothing", "ok", "denied", "timeout"}]
    BY <1>1, Zenon DEF CleanUp, Answer, Verdict, IInv, QueueTypeOK
  <2>2. \A v \in Waiter : v # w => answer'[v] = answer[v]
    BY <1>1, Zenon DEF CleanUp, Answer, IInv, QueueTypeOK
  <2>3. Waits(w) /\ RemoveOwn(w) /\ Moves(w, "dropping") /\ UNCHANGED <<next, id, token>>
    BY <1>1, Zenon DEF CleanUp, Waits
  <2> QED BY <2>1, <2>2, <2>3, RemoveOwnStep, Zenon
<1>2. CASE Drop(w) \/ Cancel(w)
  <2>1. answer' \in [Waiter -> {"nothing", "ok", "denied", "timeout"}]
    BY <1>2, Zenon DEF Drop, Cancel, IInv, QueueTypeOK
  <2>2. \A v \in Waiter : v # w => answer'[v] = answer[v]
    BY <1>2, Zenon DEF Drop, Cancel
  <2>3. /\ Waits(w) \/ pc[w] = "dropping"
        /\ RemoveOwn(w) /\ Moves(w, "done") /\ UNCHANGED <<next, id, token>>
    BY <1>2, Zenon DEF Drop, Cancel, Waits
  <2> QED BY <2>1, <2>2, <2>3, RemoveOwnStep, Zenon
<1> QED BY <1>1, <1>2, Zenon

LEMMA NextInv == IInv /\ [QueueNext]_queueVars => IInv'
<1> SUFFICES ASSUME IInv, [QueueNext]_queueVars PROVE IInv'
  BY Zenon
<1>1. CASE UNCHANGED queueVars
  <2>1. UNCHANGED <<entries, next, pc, id, token, chan, answer>>
    BY <1>1, Zenon DEF queueVars
  <2>2. QueueTypeOK' /\ Listed'
    BY <2>1, Zenon DEF IInv, QueueTypeOK, Listed
  <2>3. NoStaleEntry' /\ EntriesOwned'
    BY <2>1, Zenon DEF IInv, NoStaleEntry, EntriesOwned
  <2>4. TokensUnique' /\ ChannelInv'
    BY <2>1, Zenon DEF IInv, TokensUnique, ChannelInv, Waits
  <2> QED BY <2>2, <2>3, <2>4, Zenon DEF IInv
<1>2. ASSUME NEW w \in Waiter, Poll(w) \/ Cancel(w) PROVE IInv'
  BY <1>2, TakeTokenStep, RegisterStep, WaitStep, LeaveStep, Zenon DEF Poll
<1>3. ASSUME NEW i \in Id, NEW verdict \in {"allow", "deny"}, Decide(i, verdict) PROVE IInv'
  BY <1>3, DecideStep, Zenon
<1> QED BY <1>1, <1>2, <1>3, Zenon DEF QueueNext

\* The inductive invariant: tokens are unique, and an entry with a waiter's token is the
\* waiter's own.
THEOREM Invariance == QueueSpec => []IInv
<1> QED BY InitInv, NextInv, PTL DEF QueueSpec

\* The type invariant of the queue.
THEOREM TypeCorrect == QueueSpec => []QueueTypeOK
<1>1. IInv => QueueTypeOK
  BY Zenon DEF IInv
<1> QED BY <1>1, Invariance, PTL

\* No other waiter's time-out or drop takes away the entry of a request that
\* still waits, however ids are reused (remove_own compares the token).
THEOREM WaitersListed == QueueSpec => []WaiterListed
<1>1. IInv => WaiterListed
  BY Zenon DEF IInv, QueueTypeOK, Listed, ChannelInv, WaiterListed
<1> QED BY <1>1, Invariance, PTL

\* Every entry the operator can see belongs to a request that still waits and
\* has no verdict: decide and remove_own leave nothing behind.
THEOREM NoneStale == QueueSpec => []NoStaleEntry
<1>1. IInv => NoStaleEntry
  BY Zenon DEF IInv
<1> QED BY <1>1, Invariance, PTL

-----------------------------------------------------------------------------
(***************************************************************************)
(* The refinement: each step of the queue is one step of Approval or none.  *)
(***************************************************************************)
StatusOf == [w \in Waiter |-> Status(w)]

\* A step that touches one waiter changes no one else's status.
LEMMA OthersStatus ==
  ASSUME NEW w \in Waiter,
         \A v \in Waiter : v # w =>
            pc'[v] = pc[v] /\ chan'[v] = chan[v] /\ answer'[v] = answer[v]
  PROVE  StatusOf' = [StatusOf EXCEPT ![w] = Status(w)']
<1>1. ASSUME NEW v \in Waiter, v # w PROVE Status(v)' = Status(v)
  BY <1>1, Zenon DEF Status
<1> QED BY <1>1, Zenon DEF StatusOf

\* What each step does to one waiter's status and answer, in the words of
\* Approval.
LEMMA StatusStep ==
  ASSUME NEW w \in Waiter, NEW to,
         StatusOf' = [StatusOf EXCEPT ![w] = to]
  PROVE  /\ Status(w) = "new" /\ to = "pending" /\ answer' = answer => A!Ask(w)
         /\ Status(w) = "pending" /\ to \in {"allow", "deny"} /\ answer' = answer
              => A!Settle(w, to)
         /\ Status(w) = "pending" /\ to = "expired"
              /\ answer' = [answer EXCEPT ![w] = "timeout"] => A!Expire(w)
         /\ Status(w) = "pending" /\ to = "withdrawn" /\ answer' = answer => A!Withdraw(w)
         /\ Status(w) \in {"allow", "deny"} /\ to = Status(w) /\ answer[w] = "nothing"
              /\ answer' = [answer EXCEPT ![w] = IF to = "allow" THEN "ok" ELSE "denied"]
              => A!Tell(w)
         /\ to = Status(w) => UNCHANGED StatusOf
<1>1. StatusOf[w] = Status(w)
  BY Zenon DEF StatusOf
<1>2. to = Status(w) => UNCHANGED StatusOf
  BY <1>1, Zenon DEF StatusOf
<1>3. Status(w) = "new" /\ to = "pending" /\ answer' = answer => A!Ask(w)
  BY <1>1, Zenon DEF StatusOf, A!Ask
<1>4. Status(w) = "pending" /\ to \in {"allow", "deny"} /\ answer' = answer => A!Settle(w, to)
  BY <1>1, Zenon DEF StatusOf, A!Settle
<1>5. Status(w) = "pending" /\ to = "expired" /\ answer' = [answer EXCEPT ![w] = "timeout"]
        => A!Expire(w)
  BY <1>1, Zenon DEF StatusOf, A!Expire
<1>6. Status(w) = "pending" /\ to = "withdrawn" /\ answer' = answer => A!Withdraw(w)
  BY <1>1, Zenon DEF StatusOf, A!Withdraw
<1>7. Status(w) \in {"allow", "deny"} /\ to = Status(w) /\ answer[w] = "nothing"
        /\ answer' = [answer EXCEPT ![w] = IF to = "allow" THEN "ok" ELSE "denied"]
        => A!Tell(w)
  BY <1>1, <1>2, Zenon DEF StatusOf, A!Tell
<1> QED BY <1>2, <1>3, <1>4, <1>5, <1>6, <1>7, Zenon

LEMMA StepsImplement ==
  ASSUME IInv, NEW w \in Waiter, Poll(w) \/ Cancel(w)
  PROVE  A!ANext \/ UNCHANGED <<StatusOf, answer>>
<1>1. pc[w] \in {"new", "tokened", "waiting", "timed out", "dropping", "done"}
  BY Zenon DEF IInv, QueueTypeOK
<1>2. chan[w] \in {"empty", "allow", "deny"} /\ UNCHANGED chan
  BY Zenon DEF IInv, QueueTypeOK, ChannelInv, Poll, TakeToken, Register, Receive, TimerFires, CleanUp,
         Drop, Cancel, RemoveOwn
<1>3. \A v \in Waiter : v # w => pc'[v] = pc[v] /\ answer'[v] = answer[v]
  BY Zenon DEF IInv, QueueTypeOK, Poll, TakeToken, Register, Receive, TimerFires, CleanUp, Drop,
         Cancel, Moves, Answer
<1>4. StatusOf' = [StatusOf EXCEPT ![w] = Status(w)']
  BY <1>2, <1>3, OthersStatus, Zenon
<1>5. pc' = [pc EXCEPT ![w] = pc'[w]] /\ answer' = [answer EXCEPT ![w] = answer'[w]]
  BY Zenon DEF IInv, QueueTypeOK, Poll, TakeToken, Register, Receive, TimerFires, CleanUp, Drop,
         Cancel, Moves, Answer
<1>6. CASE TakeToken(w)
  <2>1. pc[w] = "new" /\ pc'[w] = "tokened" /\ answer' = answer
    BY <1>6, Zenon DEF TakeToken, Moves, IInv, QueueTypeOK
  <2>2. Status(w)' = Status(w)
    BY <1>2, <2>1, Zenon DEF Status
  <2> QED BY <1>4, <2>1, <2>2, StatusStep, Zenon
<1>7. CASE Register(w)
  <2>1. pc[w] = "tokened" /\ pc'[w] = "waiting" /\ answer' = answer
    BY <1>7, Zenon DEF Register, Moves, IInv, QueueTypeOK
  <2>2. chan[w] = "empty"
    BY <2>1, Zenon DEF IInv, ChannelInv
  <2>3. Status(w) = "new" /\ Status(w)' = "pending"
    BY <1>2, <2>1, <2>2, Zenon DEF Status
  <2>4. A!Ask(w)
    BY <1>4, <2>1, <2>3, StatusStep, Zenon
  <2> QED BY <2>4, Zenon DEF A!ANext
<1>8. CASE Receive(w)
  <2>1. /\ pc[w] = "waiting" /\ chan[w] \in {"allow", "deny"}
        /\ answer' = [answer EXCEPT ![w] = Verdict(w)]
    BY <1>2, <1>8, Zenon DEF Receive, Answer
  <2>2. answer[w] = "nothing"
    BY <2>1, Zenon DEF IInv, ChannelInv, Waits
  <2>3. Status(w) = chan[w] /\ Status(w)' = chan[w]
    BY <1>2, <2>1, Zenon DEF Status
  <2>4. A!Tell(w)
    BY <1>4, <2>1, <2>2, <2>3, StatusStep, Zenon DEF Verdict
  <2> QED BY <2>4, Zenon DEF A!ANext
<1>9. CASE TimerFires(w)
  <2>1. pc[w] = "waiting" /\ pc'[w] = "timed out" /\ answer' = answer
    BY <1>9, Zenon DEF TimerFires, Moves, IInv, QueueTypeOK
  <2>2. Status(w)' = Status(w)
    BY <1>2, <2>1, Zenon DEF Status
  <2> QED BY <1>4, <2>1, <2>2, StatusStep, Zenon
<1>10. CASE CleanUp(w)
  <2>1. pc[w] = "timed out" /\ pc'[w] = "dropping"
    BY <1>10, Zenon DEF CleanUp, Moves, IInv, QueueTypeOK
  <2>2. answer[w] = "nothing" /\ Waits(w)
    BY <2>1, Zenon DEF IInv, ChannelInv, Waits
  <2>3. Own(w) <=> chan[w] = "empty"
    BY <2>2, OwnEntry, Zenon
  <2>4. CASE chan[w] = "empty"
    <3>1. answer' = [answer EXCEPT ![w] = "timeout"]
      BY <1>10, <2>3, <2>4, Zenon DEF CleanUp, Answer
    <3>2. Status(w) = "pending" /\ Status(w)' = "expired"
      <4>1. answer'[w] = "timeout"
        BY <3>1, Zenon DEF IInv, QueueTypeOK
      <4> QED BY <1>2, <2>1, <2>4, <4>1, Zenon DEF Status
    <3>3. A!Expire(w)
      BY <1>4, <3>1, <3>2, StatusStep, Zenon
    <3> QED BY <3>3, Zenon DEF A!ANext
  <2>5. CASE chan[w] \in {"allow", "deny"}
    <3>1. answer' = [answer EXCEPT ![w] = Verdict(w)]
      BY <1>10, <2>3, <2>5, Zenon DEF CleanUp, Answer
    <3>2. Status(w) = chan[w] /\ Status(w)' = chan[w]
      BY <1>2, <2>5, Zenon DEF Status
    <3>3. A!Tell(w)
      BY <1>4, <2>2, <2>5, <3>1, <3>2, StatusStep, Zenon DEF Verdict
    <3> QED BY <3>3 DEF A!ANext
  <2> QED BY <1>2, <2>4, <2>5, Zenon
<1>11. CASE Drop(w) \/ Cancel(w)
  <2>1. /\ pc[w] \in {"waiting", "dropping"} /\ pc'[w] = "done"
        /\ answer' = answer
    BY <1>11, Zenon DEF Drop, Cancel, Moves, IInv, QueueTypeOK
  <2>2. CASE Waits(w) /\ chan[w] = "empty"
    <3>1. answer[w] = "nothing"
      BY <2>2, Zenon DEF IInv, ChannelInv
    <3>2. Status(w) = "pending" /\ Status(w)' = "withdrawn"
      BY <1>2, <2>1, <2>2, <3>1, Zenon DEF Status, Waits
    <3>3. A!Withdraw(w)
      BY <1>4, <2>1, <3>2, StatusStep, Zenon
    <3> QED BY <3>3, Zenon DEF A!ANext
  <2>3. CASE ~(Waits(w) /\ chan[w] = "empty")
    <3>1. Status(w)' = Status(w)
      BY <1>2, <2>1, <2>3, Zenon DEF Status, Waits
    <3> QED BY <1>4, <2>1, <3>1, StatusStep, Zenon
  <2> QED BY <2>2, <2>3, Zenon
<1> QED BY <1>6, <1>7, <1>8, <1>9, <1>10, <1>11, Zenon DEF Poll

LEMMA DecideImplements ==
  ASSUME IInv, NEW i \in Id, NEW verdict \in {"allow", "deny"}, Decide(i, verdict)
  PROVE  A!ANext
<1>1. PICK w \in Waiter : /\ w = entries[i].waiter
                          /\ pc[w] \in {"waiting", "timed out"} /\ chan[w] = "empty"
  BY EntryFacts, Zenon DEF Decide
<1>2. chan' = [chan EXCEPT ![w] = verdict] /\ UNCHANGED <<pc, answer>>
  BY <1>1, Zenon DEF Decide
<1>3. chan'[w] = verdict /\ \A v \in Waiter : v # w => chan'[v] = chan[v]
  BY <1>1, <1>2, Zenon DEF IInv, QueueTypeOK
<1>4. StatusOf' = [StatusOf EXCEPT ![w] = Status(w)']
  BY <1>2, <1>3, OthersStatus, Zenon
<1>5. Status(w) = "pending" /\ Status(w)' = verdict
  BY <1>1, <1>2, <1>3, Zenon DEF Status
<1>6. A!Settle(w, verdict)
  BY <1>1, <1>2, <1>4, <1>5, StatusStep, Zenon
<1> QED BY <1>1, <1>6, Zenon DEF A!ANext

\* The queue implements Approval: every request is settled once, and its caller
\* is told that settlement, whatever the order of the decision, the time limit
\* and the cancellation.
THEOREM Implements == QueueSpec => ImplementsApproval
<1>1. QueueInit => A!AInit
  BY DEF QueueInit, Status, A!AInit
<1>2. IInv /\ [QueueNext]_queueVars => [A!ANext]_(A!avars)
  <2> SUFFICES ASSUME IInv, [QueueNext]_queueVars PROVE A!ANext \/ UNCHANGED A!avars
    BY Zenon
  <2>1. UNCHANGED <<StatusOf, answer>> => UNCHANGED A!avars
    BY Zenon DEF StatusOf, A!avars
  <2>2. CASE UNCHANGED queueVars
    <3>1. UNCHANGED <<pc, chan, answer>>
      BY <2>2, Zenon DEF queueVars
    <3>2. UNCHANGED StatusOf
      BY <3>1, Zenon DEF StatusOf, Status
    <3> QED BY <2>1, <3>1, <3>2, Zenon
  <2>3. CASE QueueNext
    BY <2>1, <2>3, StepsImplement, DecideImplements, Zenon DEF QueueNext
  <2> QED BY <2>2, <2>3, Zenon
<1> QED BY <1>1, <1>2, Invariance, PTL DEF QueueSpec, ImplementsApproval, A!ASpec
=============================================================================
