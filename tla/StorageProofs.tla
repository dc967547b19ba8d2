--------------------------- MODULE StorageProofs ---------------------------
(***************************************************************************)
(* What the files of the daemon keep, for any set of peers, keys and tasks  *)
(* and any number of crashes and faults: issued tokens and saved            *)
(* revocations, forgotten and unwanted cookies, the records of the audit    *)
(* log; and how a start that may fail at every step ends.                   *)
(***************************************************************************)
EXTENDS Storage, Integers, TLAPS

(* PeerStore.  Neither property is inductive: what a restart reads is the     *)
(* file, so the invariant says of the file what the properties say of the     *)
(* memory.  And revoke marks one record of the peer, so no peer may have two, *)
(* which is why an import must not be repeated.                               *)

Id == Peer \cup {Legacy}
Rec == [peer_id : Id, revoked : BOOLEAN]

\* No peer has two records.
Unique(s) == \A i, j \in 1..Len(s) : s[i].peer_id = s[j].peer_id => i = j

\* The peer is known and none of its records is accepted.
Gone(s, p) == Has(s, p) /\ \A i \in 1..Len(s) : s[i].peer_id = p => s[i].revoked

PeersType ==
    /\ daemon \in {"down", "loaded", "written", "up", "persist"}
    /\ peers \in Seq(Rec) /\ file \in Seq(Rec)
    /\ daemon = "persist" => call[2] \in Id

Kept ==
    /\ \A p \in issued : Has(file, p) /\ (daemon # "down" => Has(peers, p))
    /\ \A p \in saved : Gone(file, p) /\ (daemon # "down" => Gone(peers, p))
    /\ daemon = "persist" /\ call[1] = "issue" => Has(peers, call[2])
    /\ daemon = "persist" /\ call[1] = "revoke" => Gone(peers, call[2])

PeersInv == PeersType /\ Unique(peers) /\ Unique(file) /\ Kept

-----------------------------------------------------------------------------
(* The two changes of the records. *)

\* A record added for a peer that has none leaves the others as they are.
LEMMA Added ==
  ASSUME NEW s \in Seq(Rec), NEW p \in Id, Unique(s), ~Has(s, p)
  PROVE  LET t == Append(s, Record(p)) IN
         /\ t \in Seq(Rec) /\ Unique(t) /\ Has(t, p)
         /\ \A q : Has(s, q) => Has(t, q)
         /\ \A q : Gone(s, q) => Gone(t, q)
<1> DEFINE t == Append(s, Record(p))
<1>1. Record(p) \in Rec
  BY Zenon DEF Record, Rec
<1>2. /\ t \in Seq(Rec) /\ Len(t) = Len(s) + 1 /\ Len(s) \in Nat
      /\ t[Len(s) + 1] = Record(p) /\ \A i \in 1..Len(s) : t[i] = s[i]
  BY <1>1
<1>3. Record(p).peer_id = p
  BY Zenon DEF Record
<1> HIDE DEF t
<1>4. \A q : Has(s, q) => Has(t, q)
  BY <1>2 DEF Has
<1>5. Has(t, p)
  BY <1>2, <1>3 DEF Has
<1>6. Unique(t)
  BY <1>2, <1>3 DEF Unique, Has
<1>7. ASSUME NEW q, Gone(s, q) PROVE Gone(t, q)
  <2>1. q # p
    BY <1>7, Zenon DEF Gone
  <2> QED
    BY <1>2, <1>3, <1>4, <1>7, <2>1 DEF Gone
<1> QED
  BY <1>2, <1>4, <1>5, <1>6, <1>7, Zenon DEF t

\* revoke marks the one record of its peer.
LEMMA Marked ==
  ASSUME peers \in Seq(Rec), Unique(peers), NEW p \in Id, Has(peers, p)
  PROVE  LET t == [peers EXCEPT ![First(p)].revoked = TRUE] IN
         /\ t \in Seq(Rec) /\ Unique(t) /\ Gone(t, p)
         /\ \A q : Has(peers, q) => Has(t, q)
         /\ \A q : Gone(peers, q) => Gone(t, q)
<1> DEFINE n == First(p)
           t == [peers EXCEPT ![n].revoked = TRUE]
<1>1. PICK k \in 1..Len(peers) : peers[k].peer_id = p
  BY Zenon DEF Has
<1>2. \A j \in 1..(k - 1) : peers[j].peer_id # p
  BY <1>1 DEF Unique
<1>3. n \in 1..Len(peers) /\ peers[n].peer_id = p
  BY <1>1, <1>2, Zenon DEF First
<1> HIDE DEF n
<1>4. peers[n] \in Rec
  BY <1>3
<1>5. [peers[n] EXCEPT !.revoked = TRUE] \in Rec
  BY <1>4, Zenon DEF Rec
<1>6. t \in Seq(Rec) /\ Len(t) = Len(peers)
  BY <1>3, <1>5
<1>7. \A i \in 1..Len(peers) : i # n => t[i] = peers[i]
  BY <1>3
<1>8. t[n].peer_id = peers[n].peer_id /\ t[n].revoked = TRUE
  BY <1>3, <1>4 DEF Rec
<1>9. t[n].peer_id = p /\ t[n].revoked
  BY <1>3, <1>4, <1>8, Zenon DEF Rec
<1> HIDE DEF t
<1>10. \A i \in 1..Len(peers) : t[i].peer_id = peers[i].peer_id
  BY <1>3, <1>7, <1>9, Zenon
<1>11. \A q : Has(peers, q) => Has(t, q)
  BY <1>6, <1>10, Zenon DEF Has
<1>12. Unique(t)
  BY <1>6, <1>10, Zenon DEF Unique
<1>13. \A q : Gone(peers, q) => Gone(t, q)
  BY <1>6, <1>7, <1>9, <1>10, <1>11, Zenon DEF Gone
<1>14. Gone(t, p)
  <2>1. \A i \in 1..Len(t) : t[i].peer_id = p => i = n
    BY <1>3, <1>6, <1>9, <1>12, Zenon DEF Unique
  <2> QED
    BY <1>6, <1>9, <1>11, <2>1, Zenon DEF Gone
<1> QED
  BY <1>6, <1>11, <1>12, <1>13, <1>14, Zenon DEF t, n

-----------------------------------------------------------------------------
(* The invariant. *)

LEMMA PeersInit == Init => PeersInv
BY DEF Init, PeersInv, PeersType, Unique, Kept

\* A start: what was read, and the token of the older version if it is new.
LEMMA LoadKeeps == PeersInv /\ Load => PeersInv'
<1> SUFFICES ASSUME PeersInv, Load PROVE PeersInv'
  BY Zenon
<1> USE DEF PeersInv
<1>1. /\ peers' \in Seq(Rec) /\ Unique(peers')
      /\ \A q : Has(file, q) => Has(peers', q)
      /\ \A q : Gone(file, q) => Gone(peers', q)
  <2>1. CASE ToImport(file)
    <3>1. Legacy \in Id /\ ~Has(file, Legacy)
      BY <2>1, Zenon DEF ToImport, Id
    <3> QED
      BY <2>1, <3>1, Added, Zenon DEF Load, PeersType
  <2>2. CASE ~ToImport(file)
    BY <2>2, Zenon DEF Load, PeersType
  <2> QED
    BY <2>1, <2>2, Zenon
<1>2. /\ daemon' = "loaded" /\ UNCHANGED <<file, issued, saved>>
  BY Zenon DEF Load, history
<1>3. PeersType'
  BY <1>1, <1>2 DEF PeersType
<1>4. Unique(peers)' /\ Unique(file)'
  BY <1>1, <1>2, Zenon DEF Unique
<1>5. Kept'
  <2>1. \A p \in issued : Has(file, p)' /\ Has(peers, p)'
    BY <1>1, <1>2, Zenon DEF Kept, Has
  <2>2. \A p \in saved : Gone(file, p)
    BY Zenon DEF Kept
  <2>3. \A p \in saved : Gone(file, p)' /\ Gone(peers, p)'
    BY <1>1, <1>2, <2>2, Zenon DEF Gone, Has
  <2> QED BY <1>2, <2>1, <2>3, Zenon DEF Kept
<1> QED
  BY <1>3, <1>4, <1>5, Zenon

\* The steps that write the memory to the file, forget it, or do neither.
LEMMA StartKeeps == PeersInv /\ (StartWrite \/ StartRename \/ Crash) => PeersInv'
<1> SUFFICES ASSUME PeersInv, StartWrite \/ StartRename \/ Crash PROVE PeersInv'
  BY Zenon
<1> USE DEF PeersInv
<1>1. /\ daemon' \in {"down", "written", "up"} /\ daemon # "down"
      /\ file' \in {file, peers}
      /\ daemon' # "down" => peers' = peers
      /\ peers' \in {peers, << >>}
      /\ UNCHANGED <<issued, saved>>
  BY Zenon DEF StartWrite, StartRename, Crash, history
<1>2. PeersType'
  <2>1. << >> \in Seq(Rec)
    OBVIOUS
  <2>2. peers' \in Seq(Rec) /\ file' \in Seq(Rec)
    BY <1>1, <2>1, Zenon DEF PeersType
  <2> QED
    BY <1>1, <2>2, Zenon DEF PeersType
<1>3. Unique(peers') /\ Unique(file')
  BY <1>1 DEF Unique
<1>4. Kept'
  BY <1>1, Zenon DEF Kept
<1> QED
  BY <1>2, <1>3, <1>4, Zenon

LEMMA IssueKeeps == ASSUME PeersInv, NEW p \in Peer, Issue(p) PROVE PeersInv'
<1> USE DEF PeersInv
<1>1. p \in Id /\ ~Has(peers, p)
  BY Zenon DEF Id, Issue
<1>2. /\ peers' \in Seq(Rec) /\ Unique(peers') /\ Has(peers', p)
      /\ \A q : Has(peers, q) => Has(peers', q)
      /\ \A q : Gone(peers, q) => Gone(peers', q)
  BY <1>1, Added, Zenon DEF Issue, PeersType
<1>3. /\ daemon = "up" /\ daemon' = "persist" /\ call' = <<"issue", p>>
      /\ UNCHANGED <<file, issued, saved>>
  BY Zenon DEF Issue, history
<1>4. PeersType'
  BY <1>1, <1>2, <1>3, Zenon DEF PeersType
<1>5. Kept'
  BY <1>2, <1>3, Zenon DEF Kept
<1> QED
  BY <1>2, <1>3, <1>4, <1>5, Zenon

LEMMA RevokeKeeps == ASSUME PeersInv, NEW p \in Id, Revoke(p) PROVE PeersInv'
<1> USE DEF PeersInv
<1>1. CASE peers[First(p)].revoked
  <2>1. UNCHANGED <<daemon, peers, call, file, issued, saved>>
    BY <1>1, Zenon DEF Revoke
  <2> QED
    BY <2>1, Zenon DEF PeersType, Unique, Kept
<1>2. CASE ~peers[First(p)].revoked
  <2>1. /\ peers' = [peers EXCEPT ![First(p)].revoked = TRUE]
        /\ Has(peers, p) /\ daemon = "up"
        /\ daemon' = "persist" /\ call' = <<"revoke", p>>
        /\ UNCHANGED <<file, issued, saved>>
    BY <1>2, Zenon DEF Revoke
  <2>2. /\ peers' \in Seq(Rec) /\ Unique(peers') /\ Gone(peers', p)
        /\ \A q : Has(peers, q) => Has(peers', q)
        /\ \A q : Gone(peers, q) => Gone(peers', q)
    BY <2>1, Marked, Zenon DEF PeersType
  <2>3. PeersType'
    BY <2>1, <2>2, Zenon DEF PeersType
  <2>4. Kept'
    BY <2>1, <2>2, Zenon DEF Kept
  <2> QED
    BY <2>1, <2>2, <2>3, <2>4, Zenon
<1> QED
  BY <1>1, <1>2, Zenon

\* persist answers only what it has written.
LEMMA PersistKeeps == PeersInv /\ Persist => PeersInv'
<1> SUFFICES ASSUME PeersInv, Persist PROVE PeersInv'
  OBVIOUS
<1> USE DEF PeersInv
<1>1. /\ daemon = "persist" /\ daemon' = "up" /\ peers' = peers /\ file' \in {file, peers}
      /\ \/ UNCHANGED <<issued, saved>>
         \/ /\ file' = peers
            /\ issued' = IF call[1] = "issue" THEN issued \cup {call[2]} ELSE issued
            /\ saved' = IF call[1] = "revoke" THEN saved \cup {call[2]} ELSE saved
  BY Zenon DEF Persist, history
<1>2. PeersType' /\ Unique(peers') /\ Unique(file')
  BY <1>1, Zenon DEF PeersType
<1>3. Kept'
  BY <1>1, Zenon DEF Kept
<1> QED
  BY <1>2, <1>3, Zenon

LEMMA PeersNext == PeersInv /\ [Next]_vars => PeersInv'
<1> SUFFICES ASSUME PeersInv, [Next]_vars PROVE PeersInv'
  BY Zenon
<1>1. CASE Load
  BY <1>1, LoadKeeps, Zenon
<1>2. CASE StartWrite \/ StartRename \/ Crash
  BY <1>2, StartKeeps, Zenon
<1>3. ASSUME NEW p \in Peer, Issue(p) PROVE PeersInv'
  BY <1>3, IssueKeeps, Zenon
<1>4. ASSUME NEW p \in Peer \cup {Legacy}, Revoke(p) PROVE PeersInv'
  BY <1>4, RevokeKeeps, Zenon DEF Id
<1>5. CASE Persist
  BY <1>5, PersistKeeps
<1>6. CASE UNCHANGED vars
  BY <1>6, Zenon DEF PeersInv, PeersType, Unique, Kept, vars
<1> QED
  BY <1>1, <1>2, <1>3, <1>4, <1>5, <1>6, Zenon DEF Next

LEMMA PeersInvariant == Spec => []PeersInv
BY PeersInit, PeersNext, PTL DEF Spec

-----------------------------------------------------------------------------

\* A revocation that revoke has saved is final, over any number of crashes, failed
\* writes, interrupted starts and imports.
THEOREM RevocationFinal == Spec => []SavedRevocationFinal
<1>1. PeersInv => SavedRevocationFinal
  BY Zenon DEF PeersInv, Kept, Gone, SavedRevocationFinal, Accepted
<1> QED
  BY <1>1, PeersInvariant, PTL

\* A token that issue has handed out is accepted until it is revoked, over any number
\* of crashes, failed writes and restarts.
THEOREM TokensLast == Spec => []IssuedLasts
<1>1. PeersInv => IssuedLasts
  BY DEF PeersInv, Kept, Has, IssuedLasts, Accepted
<1> QED
  BY <1>1, PeersInvariant, PTL

-----------------------------------------------------------------------------
(* AuditLog. *)

\* Until the log has been rotated, it has all records of the process; so the old ".1"
\* may go.
AuditInv ==
    /\ mine \subseteq log \cup old
    /\ ~rotated => mine \subseteq log
    /\ step \in {"remove", "rename"} => ~rotated

LEMMA AuditInit == Audit!Init => AuditInv
  BY Zenon DEF Audit!Init, AuditInv

LEMMA AuditNext == AuditInv /\ [Audit!Next]_Audit!vars => AuditInv'
<1> SUFFICES ASSUME AuditInv, [Audit!Next]_Audit!vars PROVE AuditInv'
  OBVIOUS
<1> USE DEF AuditInv
<1>1. CASE Audit!AppendAudit
  BY <1>1, Zenon DEF Audit!AppendAudit, Audit!Full
<1>2. CASE Audit!RemoveOld
  BY <1>2, Zenon DEF Audit!RemoveOld
<1>3. CASE Audit!Rename
  BY <1>3, Zenon DEF Audit!Rename
<1>4. CASE Audit!Write
  BY <1>4, Zenon DEF Audit!Write
<1>5. CASE Audit!Fail
  BY <1>5, Zenon DEF Audit!Fail
<1>6. CASE Audit!Restart
  BY <1>6, Zenon DEF Audit!Restart
<1>7. CASE UNCHANGED Audit!vars
  BY <1>7, Zenon DEF Audit!vars
<1> QED
  BY <1>1, <1>2, <1>3, <1>4, <1>5, <1>6, <1>7, Zenon DEF Audit!Next

\* A process never loses what it has recorded, however many rotations fail and however
\* small the limit is.
THEOREM OwnRecords == Audit!Spec => []RecordsKept
<1>1. AuditInv => RecordsKept
  BY Zenon DEF AuditInv, RecordsKept, Audit!RecordsKept
<1> QED
  BY AuditInit, AuditNext, <1>1, PTL DEF Audit!Spec

-----------------------------------------------------------------------------
(* CookieStore. *)

TaskState ==
    [at : {"idle"}]
    \cup [at : {"discard", "save"}, key : Key]
    \cup [at : {"forget"}, target : SUBSET Cookies!All, files : SUBSET Key, since : Nat]

CookiesType ==
    /\ saves \in Nat
    /\ cFile \in [Key -> Int]
    /\ gone \in [Key -> Nat]
    /\ skipped \in [Key -> Int]
    /\ task \in [Task -> TaskState]

\* A document is no newer than the last save, and newer than what was forgotten unless
\* forget skipped it.
Newer(k) ==
    /\ gone[k] <= saves
    /\ Cookies!Readable(k) =>
          cFile[k] <= saves /\ (cFile[k] > gone[k] \/ cFile[k] = skipped[k])

\* A forget under way has left behind only documents newer than itself and those it
\* skipped.
Forgetting(t) ==
    task[t].at = "forget" =>
        /\ task[t].since <= saves
        /\ \A k \in Key \ task[t].files :
              Cookies!Readable(k) /\ CredOf[k] \in task[t].target =>
                  cFile[k] > task[t].since \/ cFile[k] = skipped[k]

CookiesInv ==
    /\ CookiesType
    /\ \A k \in Key : Newer(k)
    /\ \A t \in Task : Forgetting(t)

LEMMA CookiesInit == Cookies!Init => CookiesInv
  BY DEF Cookies!Init, CookiesInv, CookiesType, Newer, Forgetting, TaskState,
     Cookies!Readable, Cookies!NoFile, Cookies!Bad, Cookies!Idle

\* No document is added, and a task goes on with what it did or stops.
LEMMA FewerFiles ==
  ASSUME CookiesInv, UNCHANGED <<saves, gone, skipped>>,
         cFile' \in [Key -> Int], task' \in [Task -> TaskState],
         \A k \in Key : cFile'[k] \in {cFile[k], Cookies!NoFile, Cookies!Bad},
         \A t \in Task : task'[t].at = "forget" => task'[t] = task[t]
  PROVE  CookiesInv'
<1>1. CookiesType'
  BY Zenon DEF CookiesInv, CookiesType
<1>2. \A k \in Key : Cookies!Readable(k)' => Cookies!Readable(k) /\ cFile'[k] = cFile[k]
  BY Zenon DEF Cookies!Readable, Cookies!NoFile, Cookies!Bad
<1>3. \A k \in Key : Newer(k)'
  BY <1>2, Zenon DEF CookiesInv, Newer
<1>4. \A t \in Task : Forgetting(t)'
  BY <1>2, Zenon DEF CookiesInv, Forgetting
<1> QED
  BY <1>1, <1>3, <1>4, Zenon DEF CookiesInv

LEMMA RemoveFiles ==
  ASSUME CookiesInv, NEW k \in Key, Cookies!Remove(k)
  PROVE  /\ cFile' \in [Key -> Int]
         /\ \A l \in Key : cFile'[l] = IF l = k THEN Cookies!NoFile ELSE cFile[l]
  BY DEF CookiesInv, CookiesType, Cookies!Remove, Cookies!NoFile

LEMMA IdleState == Cookies!Idle \in TaskState /\ Cookies!Idle.at = "idle"
  BY Zenon DEF Cookies!Idle, TaskState

LEMMA BecomesState ==
  ASSUME CookiesInv, NEW t \in Task, NEW s \in TaskState, Cookies!Becomes(t, s)
  PROVE  /\ task' \in [Task -> TaskState]
         /\ task'[t] = s
         /\ \A u \in Task \ {t} : task'[u] = task[u]
  BY Zenon DEF CookiesInv, CookiesType, Cookies!Becomes

LEMMA ForgetState ==
  ASSUME NEW s \in TaskState, s.at = "forget"
  PROVE  /\ s \in [at : {"forget"}, target : SUBSET Cookies!All, files : SUBSET Key,
                   since : Nat]
         /\ s.since \in Nat
  BY Zenon DEF TaskState

LEMMA SweepStep ==
  ASSUME CookiesInv, NEW k \in Key, Cookies!SweepFile(k) \/ Cookies!GoBad(k)
  PROVE  CookiesInv'
<1>1. cFile' \in [Key -> Int]
      /\ \A l \in Key : cFile'[l] \in {cFile[l], Cookies!NoFile, Cookies!Bad}
  BY RemoveFiles DEF Cookies!SweepFile, Cookies!GoBad, CookiesInv, CookiesType, Cookies!NoFile, Cookies!Bad
<1>2. UNCHANGED <<saves, gone, skipped, task>>
  BY Zenon DEF Cookies!SweepFile, Cookies!GoBad, Cookies!history
<1> QED
  BY <1>1, <1>2, FewerFiles, Zenon DEF CookiesInv, CookiesType

LEMMA SaveStep ==
  ASSUME CookiesInv, NEW t \in Task, Cookies!SaveRename(t)
  PROVE  CookiesInv'
<1>1. task[t].key \in Key /\ task[t] \in TaskState
  BY Zenon DEF Cookies!SaveRename, Cookies!At, CookiesInv, CookiesType, TaskState
<1>2. task' \in [Task -> TaskState] /\ task'[t].at = "idle" /\ \A u \in Task \ {t} : task'[u] = task[u]
  BY IdleState, BecomesState, Zenon DEF Cookies!SaveRename
<1> UNCHANGED <<gone, skipped>>
  BY Zenon DEF Cookies!SaveRename, Cookies!history
<1>3. CASE UNCHANGED <<cFile, saves>>
  BY <1>2, <1>3, FewerFiles, Zenon DEF CookiesInv, CookiesType
<1>4. CASE /\ saves < MaxSaves /\ saves' = saves + 1
           /\ cFile' = [cFile EXCEPT ![task[t].key] = saves']
  <2>1. CookiesType'
    BY <1>1, <1>2, <1>4 DEF Cookies!SaveRename, CookiesInv, CookiesType
  <2>2. ASSUME NEW k \in Key, Cookies!Readable(k)'
        PROVE  cFile'[k] = saves' \/ (cFile'[k] = cFile[k] /\ Cookies!Readable(k))
    BY <1>1, <1>4, <2>2, Zenon DEF CookiesInv, CookiesType, Cookies!Readable, Cookies!NoFile, Cookies!Bad
  <2>3. \A k \in Key : Newer(k)'
    BY <1>4, <2>1, <2>2 DEF Cookies!SaveRename, CookiesInv, CookiesType, Newer
  <2>4. \A u \in Task : Forgetting(u)'
    <3> SUFFICES ASSUME NEW u \in Task, task'[u].at = "forget" PROVE Forgetting(u)'
      BY Zenon DEF Forgetting
    <3>1. task'[u] = task[u] /\ task[u].since \in Nat /\ Forgetting(u)
      BY <1>2, ForgetState, Zenon DEF CookiesInv, CookiesType
    <3> QED
      BY <3>1, <1>4, <2>1, <2>2 DEF CookiesInv, CookiesType, Forgetting
  <2> QED
    BY <2>1, <2>3, <2>4, Zenon DEF CookiesInv
<1> QED
  BY <1>3, <1>4, Zenon DEF Cookies!SaveRename

LEMMA LoadStep ==
  ASSUME CookiesInv, NEW t \in Task,
         \/ Cookies!LoadDiscard(t)
         \/ \E k \in Key : Cookies!LoadRead(t, k) \/ Cookies!SaveWrite(t, k)
  PROVE  CookiesInv'
<1>1. CASE Cookies!LoadDiscard(t)
  <2>1. task[t].key \in Key
    BY <1>1, Zenon DEF Cookies!LoadDiscard, Cookies!At, CookiesInv, CookiesType, TaskState
  <2>2. cFile' \in [Key -> Int]
        /\ \A k \in Key : cFile'[k] \in {cFile[k], Cookies!NoFile}
    BY <1>1, <2>1, RemoveFiles, Zenon DEF Cookies!LoadDiscard
  <2>3. UNCHANGED <<saves, gone, skipped>>
    BY <1>1, Zenon DEF Cookies!LoadDiscard, Cookies!counters, Cookies!history
  <2> QED
    BY <1>1, <2>2, <2>3, IdleState, BecomesState, FewerFiles, Zenon DEF Cookies!LoadDiscard
<1>2. ASSUME NEW k \in Key, Cookies!LoadRead(t, k) \/ Cookies!SaveWrite(t, k)
      PROVE  CookiesInv'
  <2>1. PICK at \in {"discard", "save"} : Cookies!Becomes(t, [at |-> at, key |-> k])
    BY <1>2, Zenon DEF Cookies!LoadRead, Cookies!SaveWrite
  <2>2. [at |-> at, key |-> k] \in TaskState /\ [at |-> at, key |-> k].at # "forget"
    BY Zenon DEF TaskState
  <2>3. UNCHANGED <<cFile, saves, gone, skipped>>
    BY <1>2, Zenon DEF Cookies!LoadRead, Cookies!SaveWrite, Cookies!counters, Cookies!history
  <2> QED
    BY <2>1, <2>2, <2>3, BecomesState, FewerFiles, Zenon DEF CookiesInv, CookiesType
<1> QED
  BY <1>1, <1>2, Zenon

LEMMA ForgetBeginStep ==
  ASSUME CookiesInv, NEW t \in Task, NEW target \in Cookies!Targets,
         Cookies!ForgetBegin(t, target)
  PROVE  CookiesInv'
<1> DEFINE s == [at |-> "forget", target |-> target, files |-> Cookies!Files,
                 since |-> saves]
<1>1. s \in TaskState
  <2>1. target \in SUBSET Cookies!All
    BY Zenon DEF Cookies!Targets, Cookies!All
  <2>2. Cookies!Files \in SUBSET Key
    BY Zenon DEF Cookies!Files
  <2>3. saves \in Nat
    BY DEF CookiesInv, CookiesType
  <2> QED
    BY <2>1, <2>2, <2>3, Zenon DEF TaskState
<1>2. task' \in [Task -> TaskState] /\ task'[t] = s /\ \A u \in Task \ {t} : task'[u] = task[u]
  BY <1>1, BecomesState, Zenon DEF Cookies!ForgetBegin
<1>3. UNCHANGED <<cFile, saves, gone, skipped>>
  BY Zenon DEF Cookies!ForgetBegin, Cookies!history
<1>4. CookiesType' /\ \A k \in Key : Newer(k)'
  BY <1>2, <1>3, Zenon DEF CookiesInv, CookiesType, Newer, Cookies!Readable
<1>5. Forgetting(t)'
  BY <1>2, <1>3 DEF CookiesInv, CookiesType, Forgetting, Cookies!Readable, Cookies!Files, Cookies!NoFile
<1>6. \A u \in Task \ {t} : Forgetting(u)'
  BY <1>2, <1>3, Zenon DEF CookiesInv, Forgetting, Cookies!Readable
<1> QED
  BY <1>4, <1>5, <1>6, Zenon DEF CookiesInv

LEMMA ForgetFileStep ==
  ASSUME CookiesInv, NEW t \in Task, NEW k \in Key, Cookies!ForgetFile(t, k)
  PROVE  CookiesInv'
<1> DEFINE f == task[t]
<1>1. f.at = "forget" /\ f \in TaskState /\ Forgetting(t)
  BY Zenon DEF Cookies!ForgetFile, Cookies!At, CookiesInv, CookiesType
<1>2. f \in [at : {"forget"}, target : SUBSET Cookies!All, files : SUBSET Key,
             since : Nat]
  BY <1>1, ForgetState, Zenon
<1>3. UNCHANGED <<saves, gone>>
  BY Zenon DEF Cookies!ForgetFile
<1>4. cFile' \in [Key -> Int]
      /\ \A l \in Key : cFile'[l] \in {cFile[l], Cookies!NoFile}
  BY RemoveFiles, Zenon DEF Cookies!ForgetFile, CookiesInv, CookiesType
<1>5. CASE Cookies!Becomes(t, Cookies!Idle) /\ UNCHANGED skipped
  BY <1>3, <1>4, <1>5, IdleState, BecomesState, FewerFiles, Zenon
<1>6. ASSUME Cookies!Becomes(t, [f EXCEPT !.files = Cookies!Rest(f, k)]),
             skipped' \in [Key -> Int],
             \A l \in Key : skipped'[l] = skipped[l] \/ (cFile'[l] = cFile[l] /\ cFile[l] = skipped'[l]),
             \/ cFile'[k] = skipped'[k]
             \/ ~Cookies!Matched(k, f.target)
             \/ cFile'[k] = Cookies!NoFile
      PROVE  CookiesInv'
  <2> DEFINE g == [f EXCEPT !.files = Cookies!Rest(f, k)]
  <2>1. /\ g \in TaskState /\ g.at = "forget" /\ g.target = f.target /\ g.since = f.since
        /\ g.files = f.files \ {k}
    BY <1>2, Zenon DEF TaskState, Cookies!Rest
  <2>2. task' \in [Task -> TaskState] /\ task'[t] = g /\ \A u \in Task \ {t} : task'[u] = task[u]
    BY <1>6, <2>1, BecomesState, Zenon
  <2> HIDE DEF g
  <2>3. \A l \in Key : Cookies!Readable(l)' => Cookies!Readable(l) /\ cFile'[l] = cFile[l]
    BY <1>4, Zenon DEF Cookies!Readable
  <2>4. CookiesType' /\ \A l \in Key : Newer(l)'
    BY <1>3, <1>4, <1>6, <2>2, <2>3, Zenon DEF CookiesInv, CookiesType, Newer
  <2>5. \A u \in Task \ {t} : Forgetting(u)'
    BY <1>3, <1>6, <2>2, <2>3, Zenon DEF CookiesInv, Forgetting
  <2>6. cFile'[k] = skipped'[k] \/ ~Cookies!Readable(k)' \/ CredOf[k] \notin f.target
    BY <1>6, <2>3, Zenon DEF Cookies!Matched, Cookies!Readable
  <2>7. Forgetting(t)'
    <3>1. ASSUME NEW l \in Key \ f.files, Cookies!Readable(l)', CredOf[l] \in f.target
          PROVE  cFile'[l] > f.since \/ cFile'[l] = skipped'[l]
      BY <1>1, <1>6, <2>3, <3>1, Zenon DEF Forgetting
    <3>2. \A l \in Key \ g.files : l = k \/ l \in Key \ f.files
      BY <2>1, Zenon
    <3> QED
      BY <1>1, <1>3, <2>1, <2>2, <2>6, <3>1, <3>2, Zenon DEF Forgetting
  <2> QED
    BY <2>4, <2>5, <2>7, Zenon DEF CookiesInv
<1>7. CASE /\ Cookies!Becomes(t, [f EXCEPT !.files = Cookies!Rest(f, k)])
           /\ IF Cookies!Matched(k, f.target) THEN Cookies!Remove(k) ELSE UNCHANGED cFile
           /\ UNCHANGED skipped
  <2>1. Cookies!Matched(k, f.target) => cFile'[k] = Cookies!NoFile
    BY <1>7, RemoveFiles, Zenon
  <2>2. skipped' \in [Key -> Int]
    BY <1>7, Zenon DEF CookiesInv, CookiesType
  <2> QED
    BY <1>6, <1>7, <2>1, <2>2, Zenon
<1>8. CASE /\ Cookies!Becomes(t, [f EXCEPT !.files = Cookies!Rest(f, k)])
           /\ skipped' = [skipped EXCEPT ![k] = cFile[k]]
           /\ UNCHANGED cFile
  <2>1. /\ skipped' \in [Key -> Int]
        /\ skipped'[k] = cFile[k] /\ \A l \in Key \ {k} : skipped'[l] = skipped[l]
    BY <1>8, Zenon DEF CookiesInv, CookiesType
  <2> QED
    BY <1>6, <1>8, <2>1, Zenon
<1> QED
  BY <1>5, <1>7, <1>8, Zenon DEF Cookies!ForgetFile

LEMMA ForgetEndStep ==
  ASSUME CookiesInv, NEW t \in Task, Cookies!ForgetEnd(t)
  PROVE  CookiesInv'
<1> DEFINE f == task[t]
<1>1. f.at = "forget" /\ f.since \in Nat /\ f.files = {} /\ Forgetting(t)
  BY ForgetState, Zenon DEF Cookies!ForgetEnd, Cookies!At, CookiesInv, CookiesType
<1>2. task' \in [Task -> TaskState] /\ task'[t].at = "idle" /\ \A u \in Task \ {t} : task'[u] = task[u]
  BY IdleState, BecomesState, Zenon DEF Cookies!ForgetEnd
<1>3. UNCHANGED <<cFile, saves, skipped>>
  BY Zenon DEF Cookies!ForgetEnd, Cookies!counters
<1>4. \A k \in Key : gone'[k] = gone[k] \/ (gone'[k] = f.since /\ CredOf[k] \in f.target)
  BY Zenon DEF Cookies!ForgetEnd
<1>5. gone' \in [Key -> Nat]
  BY <1>1, Zenon DEF Cookies!ForgetEnd, CookiesInv, CookiesType
<1>6. \A k \in Key : Newer(k)'
  BY <1>1, <1>3, <1>4, Zenon DEF CookiesInv, Newer, Forgetting, Cookies!Readable
<1>7. \A u \in Task : Forgetting(u)'
  BY <1>2, <1>3, Zenon DEF CookiesInv, Forgetting, Cookies!Readable
<1> QED
  BY <1>2, <1>3, <1>5, <1>6, <1>7, Zenon DEF CookiesInv, CookiesType

LEMMA CookiesNext == CookiesInv /\ [Cookies!Next]_Cookies!vars => CookiesInv'
<1> SUFFICES ASSUME CookiesInv, [Cookies!Next]_Cookies!vars PROVE CookiesInv'
  OBVIOUS
<1>1. CASE Cookies!Start \/ Cookies!SweepEnd \/ Cookies!Crash \/ UNCHANGED Cookies!vars
  <2>1. UNCHANGED <<cFile, saves, gone, skipped>>
    BY <1>1, Zenon DEF Cookies!Start, Cookies!SweepEnd, Cookies!Crash, Cookies!vars, Cookies!counters,
                       Cookies!history
  <2>2. UNCHANGED task \/ task' = [t \in Task |-> Cookies!Idle]
    BY <1>1, Zenon DEF Cookies!Start, Cookies!SweepEnd, Cookies!Crash, Cookies!vars
  <2> QED
    BY <2>1, <2>2, IdleState, FewerFiles, Zenon DEF CookiesInv, CookiesType
<1> QED
  BY <1>1, SweepStep, SaveStep, LoadStep, ForgetBeginStep, ForgetFileStep, ForgetEndStep, Zenon
     DEF Cookies!Next

LEMMA CookiesInvariant == Cookies!Spec => []CookiesInv
  BY CookiesInit, CookiesNext, PTL DEF Cookies!Spec

\* What was stored before a forget is gone after it, but for the very document that
\* forget could not read when it came to its file: for any number of keys, of tasks
\* that save and load meanwhile, of crashes and of files that go bad.
THEOREM ForgetFinal == Cookies!Spec => []CookiesForgotten
<1>1. CookiesInv => CookiesForgotten
  <2> SUFFICES ASSUME CookiesInv, NEW k \in Key, Cookies!Readable(k), cFile[k] <= gone[k]
               PROVE  cFile[k] = skipped[k]
    BY Zenon DEF CookiesForgotten, Cookies!CookiesForgotten
  <2>1. cFile[k] \in Int /\ gone[k] \in Nat
    BY DEF CookiesInv, CookiesType
  <2>2. ~(cFile[k] > gone[k])
    BY <2>1
  <2> QED
    BY <2>2, Zenon DEF CookiesInv, Newer
<1> QED
  BY CookiesInvariant, <1>1, PTL

(* The sweep.  What a policy does not name is gone once the sweep has passed it,  *)
(* and comes back only by a save, which asks the policy of its own process: no     *)
(* save outlives the process that began it.                                       *)

Clean(k) == Cookies!Readable(k) => CredOf[k] \in policy

SweepInv ==
    /\ cDaemon \in {"sweeping", "up"} => \A k \in Key \ left :
          Clean(k) \/ (cDaemon = "sweeping" /\ k \in todo)
    /\ \A t \in Task : task[t].at = "save" => cDaemon = "up" /\ CredOf[task[t].key] \in policy

LEMMA SweepInit == Cookies!Init => SweepInv
<1> SUFFICES ASSUME Cookies!Init PROVE SweepInv
  OBVIOUS
<1>1. \A t \in Task : task[t].at = "idle"
  BY IdleState, Zenon DEF Cookies!Init
<1>2. cDaemon = "down"
  BY Zenon DEF Cookies!Init
<1> QED
  BY <1>1, <1>2, Zenon DEF SweepInv

\* No document is added and no save begun.
LEMMA StaysClean ==
  ASSUME SweepInv, UNCHANGED <<cDaemon, policy, left, todo>>,
         \A k \in Key : cFile'[k] \in {cFile[k], Cookies!NoFile, Cookies!Bad},
         \A t \in Task : task'[t].at = "save" => task'[t] = task[t]
  PROVE  SweepInv'
<1>1. \A k \in Key : Clean(k) => Clean(k)'
  BY Zenon DEF Clean, Cookies!Readable, Cookies!NoFile, Cookies!Bad
<1> QED
  BY <1>1, Zenon DEF SweepInv

LEMMA SweepNext == CookiesInv /\ SweepInv /\ [Cookies!Next]_Cookies!vars => SweepInv'
<1> SUFFICES ASSUME CookiesInv, SweepInv, [Cookies!Next]_Cookies!vars PROVE SweepInv'
  OBVIOUS
<1>1. CASE Cookies!Start
  <2>1. \A k \in Key : k \in todo' \/ Clean(k)'
    BY <1>1, Zenon DEF Cookies!Start, Cookies!Files, Clean, Cookies!Readable
  <2> QED
    BY <1>1, <2>1, Zenon DEF Cookies!Start, SweepInv
<1>2. CASE Cookies!SweepEnd
  BY <1>2, Zenon DEF Cookies!SweepEnd, Cookies!history, SweepInv, Clean, Cookies!Readable
<1>3. CASE Cookies!Crash
  BY <1>3, Zenon DEF Cookies!Crash, Cookies!Idle, SweepInv
<1>4. ASSUME NEW k \in Key, Cookies!SweepFile(k) PROVE SweepInv'
  <2>1. \A l \in Key \ {k} : cFile'[l] = cFile[l]
    BY <1>4, RemoveFiles, Zenon DEF Cookies!SweepFile
  <2>2. k \in left' \/ Clean(k)' \/ cDaemon' = "down"
    BY <1>4, RemoveFiles, Zenon DEF Cookies!SweepFile, Cookies!Sweeps, Clean, Cookies!Readable
  <2>3. \A l \in Key \ {k} : Clean(l) => Clean(l)'
    BY <1>4, <2>1, Zenon DEF Cookies!SweepFile, Clean, Cookies!Readable
  <2> QED
    BY <1>4, <2>2, <2>3, Zenon DEF Cookies!SweepFile, SweepInv
<1>5. ASSUME NEW k \in Key, Cookies!GoBad(k) PROVE SweepInv'
  <2>1. \A l \in Key : cFile'[l] \in {cFile[l], Cookies!Bad}
    BY <1>5, Zenon DEF Cookies!GoBad, CookiesInv, CookiesType
  <2> QED
    BY <1>5, <2>1, StaysClean, Zenon DEF Cookies!GoBad, Cookies!history
<1>6. ASSUME NEW t \in Task, NEW k \in Key, Cookies!LoadRead(t, k) PROVE SweepInv'
  <2>1. [at |-> "discard", key |-> k] \in TaskState /\ [at |-> "discard", key |-> k].at # "save"
    BY Zenon DEF TaskState
  <2> QED
    BY <1>6, <2>1, BecomesState, StaysClean, Zenon DEF Cookies!LoadRead, Cookies!history
<1>7. ASSUME NEW t \in Task, NEW k \in Key, Cookies!SaveWrite(t, k) PROVE SweepInv'
  <2>1. /\ [at |-> "save", key |-> k] \in TaskState
        /\ [at |-> "save", key |-> k].key = k
    BY Zenon DEF TaskState
  <2>2. task'[t].key = k /\ \A u \in Task \ {t} : task'[u] = task[u]
    BY <1>7, <2>1, BecomesState, Zenon DEF Cookies!SaveWrite
  <2> QED
    BY <1>7, <2>2, Zenon DEF Cookies!SaveWrite, Cookies!At, Cookies!MaySave, Cookies!history,
       SweepInv, Clean, Cookies!Readable
<1>8. ASSUME NEW t \in Task, NEW k \in Key, Cookies!ForgetFile(t, k) PROVE SweepInv'
  <2>1. \A l \in Key : cFile'[l] \in {cFile[l], Cookies!NoFile}
    BY <1>8, RemoveFiles, Zenon DEF Cookies!ForgetFile
  <2>2. task[t].at = "forget" /\ task[t] \in TaskState
    BY <1>8, Zenon DEF Cookies!ForgetFile, Cookies!At, CookiesInv, CookiesType
  <2>3. PICK s \in TaskState : s.at # "save" /\ Cookies!Becomes(t, s)
    <3>1. [task[t] EXCEPT !.files = Cookies!Rest(task[t], k)] \in TaskState
          /\ [task[t] EXCEPT !.files = Cookies!Rest(task[t], k)].at = "forget"
      BY <2>2, ForgetState, Zenon DEF Cookies!Rest, TaskState
    <3> QED
      BY <1>8, <3>1, IdleState, Zenon DEF Cookies!ForgetFile
  <2> QED
    BY <1>8, <2>1, <2>3, BecomesState, StaysClean, Zenon DEF Cookies!ForgetFile
<1>9. ASSUME NEW t \in Task, Cookies!LoadDiscard(t) PROVE SweepInv'
  <2>1. task[t].key \in Key
    BY <1>9, Zenon DEF Cookies!LoadDiscard, Cookies!At, CookiesInv, CookiesType, TaskState
  <2>2. \A l \in Key : cFile'[l] \in {cFile[l], Cookies!NoFile}
    BY <1>9, <2>1, RemoveFiles, Zenon DEF Cookies!LoadDiscard
  <2> QED
    BY <1>9, <2>2, IdleState, BecomesState, StaysClean, Zenon DEF Cookies!LoadDiscard, Cookies!history
<1>10. ASSUME NEW t \in Task, Cookies!SaveRename(t) PROVE SweepInv'
  <2>1. task[t].key \in Key /\ task[t].at = "save" /\ CredOf[task[t].key] \in policy
    BY <1>10, Zenon DEF Cookies!SaveRename, Cookies!At, CookiesInv, CookiesType, TaskState, SweepInv
  <2>2. \A l \in Key \ {task[t].key} : cFile'[l] = cFile[l]
    BY <1>10, <2>1, Zenon DEF Cookies!SaveRename, CookiesInv, CookiesType
  <2>3. \A l \in Key : Clean(l) => Clean(l)'
    BY <1>10, <2>1, <2>2, Zenon DEF Cookies!SaveRename, Clean, Cookies!Readable
  <2>4. \A u \in Task : task'[u].at = "save" => task'[u] = task[u]
    BY <1>10, IdleState, BecomesState, Zenon DEF Cookies!SaveRename
  <2> QED
    BY <1>10, <2>3, <2>4, Zenon DEF Cookies!SaveRename, Cookies!history, SweepInv
<1>11. ASSUME NEW t \in Task, Cookies!ForgetEnd(t) PROVE SweepInv'
  BY <1>11, IdleState, BecomesState, StaysClean, Zenon DEF Cookies!ForgetEnd
<1>12. ASSUME NEW t \in Task, NEW target \in Cookies!Targets, Cookies!ForgetBegin(t, target)
       PROVE  SweepInv'
  <2>1. \A u \in Task : task'[u].at = "save" => task'[u] = task[u]
    BY <1>12, Zenon DEF Cookies!ForgetBegin, Cookies!Becomes, CookiesInv, CookiesType
  <2> QED
    BY <1>12, <2>1, StaysClean, Zenon DEF Cookies!ForgetBegin, Cookies!history
<1>13. CASE UNCHANGED Cookies!vars
  BY <1>13, StaysClean, Zenon DEF Cookies!vars, Cookies!history
<1> QED
  BY <1>1, <1>2, <1>3, <1>4, <1>5, <1>6, <1>7, <1>8, <1>9, <1>10, <1>11, <1>12, <1>13, Zenon
     DEF Cookies!Next

\* A daemon that is up holds no cookies of a credential that its configuration does not
\* name, whatever the configurations before it, crashes in the middle of a sweep or a
\* save and failed starts have left, but for files it could neither read nor remove.
THEOREM UpIsClean == Cookies!Spec => []SweptClean
<1>1. SweepInv => SweptClean
  BY Zenon DEF SweepInv, Clean, SweptClean, Cookies!SweptClean
<1> QED
  BY CookiesInvariant, SweepInit, SweepNext, <1>1, PTL DEF Cookies!Spec

-----------------------------------------------------------------------------
(* Startup. *)

\* The steps before the listeners are opened.
Early == {"idle", "config", "executor", "directory", "legacy", "options", "peers", "build"}

LEMMA AfterEarly ==
  ASSUME NEW s \in Early
  PROVE  Starting!After(s) \in (Early \cup {"bind"})
<1> DEFINE i == CHOOSE k \in DOMAIN Starting!Order : Starting!Order[k] = s
<1>1. DOMAIN Starting!Order = 1..10
  BY DEF Starting!Order
<1>2. \E k \in 1..8 : Starting!Order[k] = s
  BY DEF Early, Starting!Order
<1>3. i \in 1..10 /\ Starting!Order[i] = s
  BY <1>1, <1>2
<1>4. i \in 1..8
  BY <1>3 DEF Early, Starting!Order
<1> HIDE DEF i
<1>5. Starting!Order[i + 1] \in (Early \cup {"bind"})
  BY <1>4 DEF Early, Starting!Order
<1> QED
  BY <1>5, Zenon DEF i, Starting!After

\* What the daemon and the service thread know of each other: the channel is written
\* once, at "ready" or with the error; so a daemon that is over either has written to
\* it or is about to.
StartInv ==
    /\ bound \in BOOLEAN /\ sender \in BOOLEAN
    /\ bound <=> stage \in {"ready", "serve"}
    /\ stage = "over" => result \in {"ok", "error"}
    /\ service # "start" => platform = "service"
    /\ platform = "service" /\ service = "start" => stage = "idle" /\ sender
    /\ sender => channel = "empty"
    /\ ~sender /\ service = "wait" => channel # "empty"
    /\ platform = "service" /\ stage = "serve" => ~sender
    /\ platform = "service" /\ stage = "over" /\ sender => result = "error"
    /\ channel = "ok" \/ status = "Running" => stage \in {"serve", "over"}
    /\ status = "Stopped" /\ code = 0 => stage = "over" /\ result = "ok"

LEMMA StartInit == Starting!Init => StartInv
  BY Zenon DEF Starting!Init, StartInv

LEMMA StartNext == StartInv /\ [Starting!Next]_Starting!vars => StartInv'
<1> SUFFICES ASSUME StartInv, [Starting!Next]_Starting!vars PROVE StartInv'
  OBVIOUS
<1> USE DEF StartInv, Starting!serviceVars
<1>1. ASSUME NEW s \in (Early \ {"idle"}) \cup {"bind"}, Starting!FailsAt(s)
      PROVE  StartInv'
  BY <1>1, Zenon DEF Starting!FailsAt, Early
<1>2. ASSUME NEW s \in Early \ {"idle"}, Starting!Check(s)
      PROVE  StartInv'
  BY <1>1, <1>2, AfterEarly DEF Starting!Check, Early
<1>3. CASE Starting!Start
  BY <1>3, AfterEarly, Zenon DEF Starting!Start, Early
<1>4. CASE Starting!StartProbe
  BY <1>4, Zenon DEF Starting!StartProbe
<1>5. CASE Starting!Hello
  BY <1>5, Zenon DEF Starting!Hello
<1>6. CASE Starting!EndProbe
  BY <1>6, AfterEarly, Zenon DEF Starting!EndProbe, Early
<1>7. CASE Starting!CheckSocket
  BY <1>2, <1>7, Zenon DEF Starting!CheckSocket, Early
<1>8. CASE Starting!BuildProvider \/ Starting!BuildState
  BY <1>1, <1>2, <1>8 DEF Starting!BuildProvider, Starting!BuildState, Early
<1>9. CASE Starting!Bind
  <2>1. CASE Starting!FailsAt("bind")
    BY <1>1, <2>1, Zenon
  <2>2. CASE /\ stage = "bind" /\ stage' = "ready" /\ bound' = TRUE
             /\ UNCHANGED <<platform, executor, probe, result, channel, sender, service,
                            status, code>>
    BY <2>2, Zenon
  <2> QED
    BY <1>9, <2>1, <2>2, Zenon DEF Starting!Bind
<1>10. CASE Starting!Ready
  <2>1. CASE stage' = "serve" /\ UNCHANGED <<bound, result>>
    <3>1. bound' /\ bound' \in BOOLEAN /\ sender' \in BOOLEAN
      BY <1>10, <2>1, Zenon DEF Starting!Ready
    <3> QED
      BY <1>10, <2>1, <3>1, Zenon DEF Starting!Ready
  <2>2. CASE platform = "foreground" /\ stage' = "over" /\ result' = "error" /\ bound' = FALSE
    BY <1>10, <2>2, Zenon DEF Starting!Ready
  <2> QED
    BY <1>10, <2>1, <2>2, Zenon DEF Starting!Ready
<1>11. CASE Starting!ServeEnds
  BY <1>11, Zenon DEF Starting!ServeEnds
<1>12. CASE Starting!Signal
  BY <1>12, Zenon DEF Starting!Signal
<1>13. CASE Starting!ServiceStarts
  BY <1>13, AfterEarly DEF Starting!ServiceStarts, Early
<1>14. CASE Starting!ThreadEnds
  BY <1>14, Zenon DEF Starting!ThreadEnds, Starting!Reported, Starting!daemonVars
<1>15. CASE Starting!Received
  BY <1>15 DEF Starting!Received, Starting!daemonVars
<1>16. CASE Starting!Joined
  BY <1>16 DEF Starting!Joined, Starting!Reported, Starting!daemonVars
<1>17. CASE Starting!ServiceStop \/ UNCHANGED Starting!vars
  BY <1>17 DEF Starting!ServiceStop, Starting!vars, Starting!daemonVars
<1>18. CASE \E s \in {"config", "directory", "legacy", "options", "peers"} : Starting!Check(s)
  BY <1>2, <1>18, Zenon DEF Early
<1> QED
  BY <1>3, <1>4, <1>5, <1>6, <1>7, <1>8, <1>9, <1>10, <1>11, <1>12, <1>13, <1>14, <1>15,
     <1>16, <1>17, <1>18 DEF Starting!Next

LEMMA StartInvariant == Starting!Spec => []StartInv
  BY StartInit, StartNext, PTL DEF Starting!Spec

\* The service thread never waits in vain, and never reports a daemon as running or as
\* ended without error that is not.
THEOREM ControlManagerTold == Starting!Spec => []ServiceTold
<1>1. StartInv => ServiceTold
  BY Zenon DEF StartInv, ServiceTold, Starting!ServiceTold, Starting!Reported
<1> QED
  BY <1>1, StartInvariant, PTL
=============================================================================
