---------------------------- MODULE AuditLedger ----------------------------
(***************************************************************************)
(* audit/ledger.py: rows chained by hash, `record`, and what `verify`      *)
(* detects.  The store is an ordinary list that someone may change behind  *)
(* the ledger's back, which is what the chain is there to show; here one   *)
(* row is edited, forged or deleted, at any moment of a life of recording. *)
(*                                                                         *)
(* A row's fields are abstracted to its content.  SHA-256 is taken to be   *)
(* free of collisions: a digest is written as what was digested, the chain *)
(* of positions and contents that leads to the row.                        *)
(***************************************************************************)
EXTENDS Integers, Sequences

CONSTANTS Content,  \* what a row says: everything but seq and the two hashes
          None,
          MaxRows   \* bound: rows in the store

ASSUME BoundAssumption == MaxRows \in Nat

\* What was done behind the ledger's back, the index it must show at, and
\* whether a later row was there to show it.
Tampering == [how: {"edit", "reseal", "delete"}, shows: Nat \ {0}, followed: BOOLEAN]

ASSUME NoneAssumption == None \notin Tampering

Hash == Seq(Nat \X Content)
GENESIS == <<>>
Digest(seq, content, prev_hash) == Append(prev_hash, <<seq, content>>)

AuditRow == [seq: Nat, content: Content, prev_hash: Hash, row_hash: Hash]

VARIABLES rows,     \* InMemoryAuditStore.rows
          tampered  \* history: what was done behind the ledger's back, or None

vars == <<rows, tampered>>

----------------------------------------------------------------------------
ContentDigest(row) ==
    Digest(row.seq, row.content, row.prev_hash)

\* The hash a row must name as its predecessor's.
HashBefore(i) == IF i = 1 THEN GENESIS ELSE rows[i - 1].row_hash

\* Mutant of Broken: a row's own hash is not recomputed.
BrokenLink(i) == rows[i].prev_hash # HashBefore(i)

\* Mutant of Broken: rows are not compared with their predecessors.
BrokenContent(i) == rows[i].row_hash # ContentDigest(rows[i])

\* The two checks `verify` makes on one row of its walk.
Broken(i) ==
    \/ rows[i].prev_hash # HashBefore(i)
    \/ rows[i].row_hash # ContentDigest(rows[i])

Flawed == {i \in 1..Len(rows) : Broken(i)}

\* Ledger.verify returns (True, None) or (False, the first bad index); the
\* index counts from 1 here.
Verify ==
    IF Flawed = {} THEN [ok |-> TRUE, first_bad |-> None]
    ELSE [ok |-> FALSE,
          first_bad |-> CHOOSE i \in Flawed : \A j \in Flawed : i <= j]

\* Mutant of Sealed: two positional fields change places.
SealedSwapped(seq, content, prev_hash) ==
    [seq |-> content, content |-> seq, prev_hash |-> prev_hash,
     row_hash |-> Digest(seq, content, prev_hash)]

\* AuditRow(...) sealed with its own digest.
Sealed(seq, content, prev_hash) ==
    [seq |-> seq, content |-> content, prev_hash |-> prev_hash,
     row_hash |-> Digest(seq, content, prev_hash)]

\* Mutant of PreviousHash: every row is chained to the first one's origin.
PreviousHashGenesis == GENESIS

\* existing[-1].row_hash if existing else GENESIS_HASH
PreviousHash == IF rows = <<>> THEN GENESIS ELSE rows[Len(rows)].row_hash

Init == rows = <<>> /\ tampered = None

Record(content) ==
    /\ Len(rows) < MaxRows
    /\ rows' = Append(rows, Sealed(Len(rows), content, PreviousHash))
    /\ UNCHANGED tampered

\* Someone rewrites what a row says.
Edit(i, content) ==
    /\ tampered = None
    /\ content # rows[i].content
    /\ rows' = [rows EXCEPT ![i].content = content]
    /\ tampered' = [how |-> "edit", shows |-> i, followed |-> i < Len(rows)]

\* Someone rewrites what a row says and seals it again, as `record` does.
Reseal(i, content) ==
    /\ tampered = None
    /\ content # rows[i].content
    /\ rows' = [rows EXCEPT ![i] = Sealed(rows[i].seq, content, rows[i].prev_hash)]
    /\ tampered' = [how |-> "reseal", shows |-> i + 1, followed |-> i < Len(rows)]

\* Someone removes a row; the ones after it move up.
Delete(i) ==
    /\ tampered = None
    /\ rows' = SubSeq(rows, 1, i - 1) \o SubSeq(rows, i + 1, Len(rows))
    /\ tampered' = [how |-> "delete", shows |-> i, followed |-> i < Len(rows)]

Next == \/ \E content \in Content : Record(content)
        \/ \E i \in 1..Len(rows), content \in Content :
               Edit(i, content) \/ Reseal(i, content)
        \/ \E i \in 1..Len(rows) : Delete(i)

Spec == Init /\ [][Next]_vars

----------------------------------------------------------------------------
Located == Verify = [ok |-> FALSE, first_bad |-> tampered.shows]

\* Rows are sealed rows, and the history is one of the ways to tamper.
TypeOK == /\ rows \in Seq(AuditRow)
          /\ tampered \in Tampering \cup {None}

\* A ledger nobody touched verifies, at every length.
UntouchedVerifies == tampered = None => Verify.ok

\* An edited row is reported, at its index, however much is recorded after it.
EditIsLocated == tampered # None => (tampered.how = "edit" => Located)

\* A row that is rewritten and sealed again is reported at its successor, and
\* a row that is gone at the gap, for ever after, if a row followed it.
ForgeryIsLocated ==
    tampered # None =>
        (tampered.how # "edit" /\ tampered.followed => Located)
=============================================================================
