----------------------------- MODULE PeerStore -----------------------------
(***************************************************************************)
(* The named client tokens of peers.rs: records in memory under one RwLock, *)
(* saved as a whole to peers.json by an atomic replacement.  The daemon may *)
(* crash between any two steps and be started again; every write may fail.  *)
(* The first start imports the token of an older version from a hash file,  *)
(* which is then renamed.                                                   *)
(***************************************************************************)
EXTENDS Naturals, Sequences

CONSTANTS
    Peer,       \* ids that issue generates
    MaxCrashes, \* bound: crashes and failed starts
    MaxFaults   \* bound: failed writes and renames

VARIABLES
    daemon,   \* "down", the steps of load_or_import, "up", or "persist": a save is due
    peers,    \* PeerStore::peers in memory
    file,     \* the records in peers.json
    hash,     \* whether the hash file of the older version is there
    call,     \* the operation that holds the lock, and its peer
    crashes, faults,
    issued,   \* history: peers whose issue was answered with a token
    saved,    \* history: peers whose revocation was written and answered
    answered  \* history: peers whose revocation was answered

vars == <<daemon, peers, file, hash, call, crashes, faults, issued, saved, answered>>
history == <<issued, saved, answered>>

NoCall == <<"none", "none">>
Legacy == "legacy"
Record(p) == [peer_id |-> p, revoked |-> FALSE]
Has(records, p) == \E i \in 1..Len(records) : records[i].peer_id = p

Init ==
    /\ daemon = "down"
    /\ peers = << >> /\ file = << >>
    /\ hash \in BOOLEAN
    /\ call = NoCall
    /\ crashes = 0 /\ faults = 0
    /\ issued = {} /\ saved = {} /\ answered = {}

\* A write or a rename goes wrong.
Fault == faults < MaxFaults /\ faults' = faults + 1

-----------------------------------------------------------------------------
(* load_or_import *)

\* Faulty variant: the hash file alone decides.
ToImport_Any(records) == hash

\* A record with this id was imported before.
ToImport(records) == hash /\ ~Has(records, Legacy)

Load ==
    /\ daemon = "down"
    /\ peers' = IF ToImport(file) THEN Append(file, Record(Legacy)) ELSE file
    /\ daemon' = "loaded"
    /\ UNCHANGED <<file, hash, call, crashes, faults, history>>

\* The start writes the file even when nothing was imported, then puts the hash
\* file aside; a failure of either ends it.
StartWrite ==
    /\ daemon = "loaded"
    /\ \/ /\ file' = peers
          /\ daemon' = IF hash THEN "written" ELSE "up"
          /\ UNCHANGED <<peers, crashes, faults>>
       \/ /\ Fault /\ crashes < MaxCrashes /\ crashes' = crashes + 1
          /\ daemon' = "down" /\ peers' = << >>
          /\ UNCHANGED file
    /\ UNCHANGED <<hash, call, history>>

StartRename ==
    /\ daemon = "written"
    /\ \/ hash' = FALSE /\ daemon' = "up" /\ UNCHANGED <<peers, crashes, faults>>
       \/ /\ Fault /\ crashes < MaxCrashes /\ crashes' = crashes + 1
          /\ daemon' = "down" /\ peers' = << >>
          /\ UNCHANGED hash
    /\ UNCHANGED <<file, call, history>>

\* The process ends at any point; write_private_file_atomic has replaced the
\* file or has not.
Crash ==
    /\ daemon # "down" /\ crashes < MaxCrashes
    /\ crashes' = crashes + 1
    /\ daemon' = "down"
    /\ peers' = << >>
    /\ call' = NoCall
    /\ \/ UNCHANGED file
       \/ daemon \in {"loaded", "persist"} /\ file' = peers
    /\ UNCHANGED <<hash, faults, history>>

-----------------------------------------------------------------------------
(* Operations; the lock is held from the change in memory to the save. *)

\* issue
Issue(p) ==
    /\ daemon = "up" /\ ~Has(peers, p) /\ ~Has(file, p)
    /\ peers' = Append(peers, Record(p))
    /\ daemon' = "persist" /\ call' = <<"issue", p>>
    /\ UNCHANGED <<file, hash, crashes, faults, history>>

\* The first record of the peer.
First(p) ==
    CHOOSE i \in 1..Len(peers) : /\ peers[i].peer_id = p
                                 /\ \A j \in 1..(i - 1) : peers[j].peer_id # p

\* revoke.  A peer that is revoked already is not saved again.
Revoke(p) ==
    /\ daemon = "up" /\ Has(peers, p)
    /\ IF peers[First(p)].revoked
       THEN answered' = answered \cup {p} /\ UNCHANGED <<daemon, peers, call>>
       ELSE /\ peers' = [peers EXCEPT ![First(p)].revoked = TRUE]
            /\ daemon' = "persist" /\ call' = <<"revoke", p>>
            /\ UNCHANGED answered
    /\ UNCHANGED <<file, hash, crashes, faults, issued, saved>>

\* Faulty variant: a failed save is not reported.
Persist_Ignore ==
    /\ daemon = "persist"
    /\ daemon' = "up" /\ call' = NoCall
    /\ \/ file' = peers /\ UNCHANGED faults
       \/ Fault /\ UNCHANGED file
    /\ issued' = IF call[1] = "issue" THEN issued \cup {call[2]} ELSE issued
    /\ saved' = IF call[1] = "revoke" THEN saved \cup {call[2]} ELSE saved
    /\ answered' = answered \cup saved'
    /\ UNCHANGED <<peers, hash, crashes>>

\* persist, and the answer.  A failed write keeps the old file, except that the
\* step after the replacement (replace_file restricts the new file) may fail; the
\* memory keeps the change in either case.
Persist ==
    /\ daemon = "persist"
    /\ daemon' = "up" /\ call' = NoCall
    /\ \/ /\ file' = peers
          /\ issued' = IF call[1] = "issue" THEN issued \cup {call[2]} ELSE issued
          /\ saved' = IF call[1] = "revoke" THEN saved \cup {call[2]} ELSE saved
          /\ answered' = answered \cup saved'
          /\ UNCHANGED faults
       \/ /\ Fault
          /\ file' \in {file, peers}
          /\ UNCHANGED history
    /\ UNCHANGED <<peers, hash, crashes>>

-----------------------------------------------------------------------------

Next ==
    \/ Load \/ StartWrite \/ StartRename \/ Crash
    \/ \E p \in Peer : Issue(p)
    \/ \E p \in Peer \cup {Legacy} : Revoke(p)
    \/ Persist

Spec == Init /\ [][Next]_vars

\* is_active and authenticator: some record of the peer is not revoked.
Accepted(p) ==
    /\ daemon \in {"up", "persist"}
    /\ \E i \in 1..Len(peers) : peers[i].peer_id = p /\ ~peers[i].revoked

\* A token handed out works, over crashes and restarts, until it is revoked: issue
\* answers only once the record is in the file.
IssuedLasts ==
    daemon = "up" =>
        \A p \in issued : Accepted(p) \/ \E i \in 1..Len(peers) :
                                             peers[i].peer_id = p /\ peers[i].revoked

\* A revocation that revoke has saved is final: no restart, and no second import
\* of the older version's token after an interrupted start, accepts the peer again.
SavedRevocationFinal == \A p \in saved : ~Accepted(p)

\* A revocation that was answered with success is final.
AnsweredRevocationFinal == \A p \in answered : ~Accepted(p)
=============================================================================
