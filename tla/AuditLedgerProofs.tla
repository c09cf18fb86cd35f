------------------------- MODULE AuditLedgerProofs -------------------------
(***************************************************************************)
(* What the chain of audit/ledger.py detects, for every content and every  *)
(* length: the theorems behind the runs of AuditLedger.  The one fact used *)
(* about digests is that a digest differs from the one before it and from  *)
(* the digest of any other content, as it does when nothing collides.      *)
(***************************************************************************)
EXTENDS AuditLedger, SequenceTheorems, TLAPS

\* Nothing before row i is broken, and row i is.
FirstBrokenAt(i) ==
    /\ i \in 1..Len(rows)
    /\ Broken(i)
    /\ \A j \in 1..(i - 1) : ~Broken(j)

Shown == tampered.how = "edit" \/ tampered.followed

\* The invariant: an untouched chain has no flaw, and a tampered one whose
\* tampering shows has its first flaw there.
IInv == /\ TypeOK
        /\ tampered = None => \A i \in 1..Len(rows) : ~Broken(i)
        /\ tampered # None /\ Shown => FirstBrokenAt(tampered.shows)

----------------------------------------------------------------------------
\* A digest is a hash, and determines what was digested.
LEMMA DigestIsInjective ==
    ASSUME NEW seq \in Nat, NEW content \in Content, NEW prev \in Hash,
           NEW seq2 \in Nat, NEW content2 \in Content
    PROVE  /\ Digest(seq, content, prev) \in Hash
           /\ Digest(seq, content, prev) # prev
           /\ content # content2 => Digest(seq, content, prev) # Digest(seq2, content2, prev)
  <1>1. Digest(seq, content, prev) \in Hash
    BY DEF Digest, Hash
  <1>2. Digest(seq, content, prev) # prev
    <2>1. Len(Digest(seq, content, prev)) = Len(prev) + 1 /\ Len(prev) \in Nat
      BY DEF Digest, Hash
    <2> QED BY <2>1
  <1>3. ASSUME content # content2
        PROVE  Digest(seq, content, prev) # Digest(seq2, content2, prev)
    <2>1. /\ Digest(seq, content, prev)[Len(prev) + 1] = <<seq, content>>
          /\ Digest(seq2, content2, prev)[Len(prev) + 1] = <<seq2, content2>>
      BY DEF Digest, Hash
    <2> QED BY <1>3, <2>1
  <1> QED BY <1>1, <1>2, <1>3

\* A sealed row is an audit row that its own hash fits.
LEMMA SealedFits ==
    ASSUME NEW seq \in Nat, NEW content \in Content, NEW prev \in Hash
    PROVE  /\ Sealed(seq, content, prev) \in AuditRow
           /\ Sealed(seq, content, prev).prev_hash = prev
           /\ Sealed(seq, content, prev).row_hash = ContentDigest(Sealed(seq, content, prev))
  BY DigestIsInjective DEF Sealed, AuditRow, ContentDigest

\* If the first flaw is at i, `verify` reports i.
LEMMA VerifyReportsFirst ==
    ASSUME TypeOK, NEW i \in 1..Len(rows), FirstBrokenAt(i)
    PROVE  Verify = [ok |-> FALSE, first_bad |-> i]
  <1>1. Len(rows) \in Nat
    BY DEF TypeOK
  <1>2. i \in Flawed /\ \A j \in Flawed : i <= j
    BY <1>1 DEF FirstBrokenAt, Flawed
  <1>3. \A k \in Flawed : (\A j \in Flawed : k <= j) => k = i
    BY <1>1, <1>2 DEF Flawed
  <1>4. (CHOOSE k \in Flawed : \A j \in Flawed : k <= j) = i
    BY <1>2, <1>3
  <1> QED BY <1>2, <1>4 DEF Verify

----------------------------------------------------------------------------
LEMMA InitIInv == Init => IInv
  BY DEF Init, IInv, TypeOK, AuditRow

\* Recording adds a row at the end and leaves every earlier verdict alone.
LEMMA RecordKeeps ==
    ASSUME IInv, NEW content \in Content, Record(content)
    PROVE  IInv'
  <1> DEFINE new == Sealed(Len(rows), content, PreviousHash)
  <1>1. rows \in Seq(AuditRow) /\ Len(rows) \in Nat
    BY DEF IInv, TypeOK
  <1>2. PreviousHash \in Hash
    <2>1. CASE rows = <<>>
      BY <2>1 DEF PreviousHash, GENESIS, Hash
    <2>2. CASE rows # <<>>
      <3>1. rows[Len(rows)] \in AuditRow
        BY <1>1, <2>2
      <3> QED BY <2>2, <3>1 DEF PreviousHash, AuditRow
    <2> QED BY <2>1, <2>2
  <1>3. /\ new \in AuditRow
        /\ new.prev_hash = PreviousHash
        /\ new.row_hash = ContentDigest(new)
    BY <1>1, <1>2, SealedFits
  <1>4. rows' = Append(rows, new) /\ tampered' = tampered
    BY DEF Record
  <1> HIDE DEF new
  <1> PICK n \in Nat : n = Len(rows)
    BY <1>1
  <1>5. /\ Len(rows') = n + 1
        /\ \A j \in 1..n : rows'[j] = rows[j]
        /\ rows'[n + 1] = new
    BY <1>1, <1>3, <1>4
  <1>6. \A j \in 1..n : HashBefore(j)' = HashBefore(j)
    BY <1>1, <1>5 DEF HashBefore
  <1>7. \A j \in 1..n : Broken(j)' <=> Broken(j)
    BY <1>1, <1>5, <1>6 DEF Broken, ContentDigest
  <1>8. ~Broken(n + 1)'
    <2>1. HashBefore(n + 1)' = PreviousHash
      BY <1>1, <1>5 DEF HashBefore, PreviousHash
    <2> QED BY <1>3, <1>5, <2>1 DEF Broken, ContentDigest
  <1>9. TypeOK'
    BY <1>1, <1>3, <1>4 DEF IInv, TypeOK
  <1>10. tampered' = None => \A j \in 1..Len(rows') : ~Broken(j)'
    BY <1>1, <1>4, <1>5, <1>7, <1>8 DEF IInv
  <1>11. tampered' # None /\ Shown' => FirstBrokenAt(tampered.shows)'
    <2> SUFFICES ASSUME tampered # None, Shown
                 PROVE  FirstBrokenAt(tampered.shows)'
      BY <1>4 DEF Shown
    <2> DEFINE i == tampered.shows
    <2>1. i \in 1..n /\ Broken(i) /\ \A j \in 1..(i - 1) : ~Broken(j)
      BY DEF IInv, FirstBrokenAt
    <2> QED BY <1>1, <1>4, <1>5, <1>7, <2>1 DEF FirstBrokenAt
  <1> QED BY <1>4, <1>9, <1>10, <1>11 DEF IInv

\* Changing the text of row i leaves the rows before it whole and breaks i.
LEMMA EditKeeps ==
    ASSUME IInv, NEW i \in 1..Len(rows), NEW content \in Content, Edit(i, content)
    PROVE  IInv'
  <1>1. rows \in Seq(AuditRow) /\ Len(rows) \in Nat /\ rows[i] \in AuditRow
    BY DEF IInv, TypeOK
  <1>2. /\ Len(rows') = Len(rows)
        /\ rows'[i] = [rows[i] EXCEPT !.content = content]
        /\ \A j \in 1..Len(rows) : j # i => rows'[j] = rows[j]
    BY <1>1 DEF Edit
  <1>3. tampered' = [how |-> "edit", shows |-> i, followed |-> i < Len(rows)]
    BY DEF Edit
  <1>4. rows'[i] \in AuditRow
    BY <1>1, <1>2 DEF AuditRow
  <1>5. TypeOK'
    <2>1. rows' \in Seq(AuditRow)
      BY <1>1, <1>4 DEF Edit
    <2>2. tampered' \in Tampering
      BY <1>1, <1>3 DEF Tampering
    <2> QED BY <2>1, <2>2 DEF TypeOK
  <1>6. tampered = None /\ \A j \in 1..Len(rows) : ~Broken(j)
    BY DEF Edit, IInv
  <1>7. \A j \in 1..(i - 1) : ~Broken(j)'
    <2>1. \A j \in 1..(i - 1) : rows'[j] = rows[j]
      BY <1>1, <1>2
    <2>2. \A j \in 1..(i - 1) : HashBefore(j)' = HashBefore(j)
      BY <1>1, <2>1 DEF HashBefore
    <2> QED BY <1>1, <1>6, <2>1, <2>2 DEF Broken, ContentDigest
  <1>8. Broken(i)'
    <2>1. rows[i].row_hash = Digest(rows[i].seq, rows[i].content, rows[i].prev_hash)
      BY <1>6 DEF Broken, ContentDigest
    <2>2. content # rows[i].content
      BY DEF Edit
    <2>3. /\ rows[i].seq \in Nat /\ rows[i].content \in Content
          /\ rows[i].prev_hash \in Hash
      BY <1>1 DEF AuditRow
    <2>4. rows[i].row_hash # Digest(rows[i].seq, content, rows[i].prev_hash)
      BY <2>1, <2>2, <2>3, DigestIsInjective
    <2>5. /\ rows'[i].row_hash = rows[i].row_hash
          /\ rows'[i].seq = rows[i].seq
          /\ rows'[i].prev_hash = rows[i].prev_hash
          /\ rows'[i].content = content
      BY <1>1, <1>2 DEF AuditRow
    <2> QED BY <2>4, <2>5 DEF Broken, ContentDigest
  <1>9. FirstBrokenAt(tampered.shows)'
    BY <1>1, <1>2, <1>3, <1>7, <1>8 DEF FirstBrokenAt
  <1>10. tampered' # None
    <2>1. tampered' \in Tampering
      BY <1>1, <1>3 DEF Tampering
    <2> QED BY <2>1, NoneAssumption
  <1> QED BY <1>5, <1>9, <1>10 DEF IInv

\* Sealing row i again leaves it whole and breaks the row after it.
LEMMA ResealKeeps ==
    ASSUME IInv, NEW i \in 1..Len(rows), NEW content \in Content, Reseal(i, content)
    PROVE  IInv'
  <1> DEFINE new == Sealed(rows[i].seq, content, rows[i].prev_hash)
  <1>1. rows \in Seq(AuditRow) /\ Len(rows) \in Nat /\ rows[i] \in AuditRow
    BY DEF IInv, TypeOK
  <1>2. /\ rows[i].seq \in Nat /\ rows[i].content \in Content
        /\ rows[i].prev_hash \in Hash
    BY <1>1 DEF AuditRow
  <1>3. /\ new \in AuditRow
        /\ new.prev_hash = rows[i].prev_hash
        /\ new.row_hash = ContentDigest(new)
    BY <1>2, SealedFits
  <1>4. new.row_hash = Digest(rows[i].seq, content, rows[i].prev_hash)
    BY DEF Sealed
  <1>5. rows' = [rows EXCEPT ![i] = new] /\ content # rows[i].content /\ tampered = None
    BY DEF Reseal
  <1>6. tampered' = [how |-> "reseal", shows |-> i + 1, followed |-> i < Len(rows)]
    BY DEF Reseal
  <1> HIDE DEF new
  <1>7. /\ Len(rows') = Len(rows)
        /\ rows'[i] = new
        /\ \A j \in 1..Len(rows) : j # i => rows'[j] = rows[j]
    BY <1>1, <1>5
  <1>8. TypeOK'
    <2>1. rows' \in Seq(AuditRow)
      BY <1>1, <1>3, <1>5
    <2> QED BY <1>1, <1>6, <2>1 DEF TypeOK, Tampering
  <1>9. \A j \in 1..Len(rows) : ~Broken(j)
    BY <1>5 DEF IInv
  <1>10. \A j \in 1..i : ~Broken(j)'
    <2>1. \A j \in 1..(i - 1) : ~Broken(j)'
      BY <1>1, <1>7, <1>9 DEF Broken, HashBefore, ContentDigest
    <2>2. HashBefore(i)' = HashBefore(i)
      BY <1>1, <1>7 DEF HashBefore
    <2>3. ~Broken(i)'
      BY <1>3, <1>7, <1>9, <2>2 DEF Broken, ContentDigest
    <2> QED BY <2>1, <2>3
  <1>11. ASSUME i < Len(rows)
         PROVE  FirstBrokenAt(tampered.shows)'
    <2>1. rows[i].row_hash = Digest(rows[i].seq, rows[i].content, rows[i].prev_hash)
      BY <1>9 DEF Broken, ContentDigest
    <2>2. new.row_hash # rows[i].row_hash
      BY <1>2, <1>4, <1>5, <2>1, DigestIsInjective
    <2>3. rows[i + 1].prev_hash = rows[i].row_hash
      BY <1>1, <1>9, <1>11 DEF Broken, HashBefore
    <2>4. Broken(i + 1)'
      BY <1>1, <1>7, <1>11, <2>2, <2>3 DEF Broken, HashBefore
    <2> QED BY <1>1, <1>6, <1>7, <1>10, <1>11, <2>4 DEF FirstBrokenAt
  <1>12. tampered' # None
    <2>1. tampered' \in Tampering
      BY <1>1, <1>6 DEF Tampering
    <2> QED BY <2>1, NoneAssumption
  <1>13. Shown' => i < Len(rows)
    BY <1>6 DEF Shown
  <1> QED BY <1>8, <1>11, <1>12, <1>13 DEF IInv

\* Removing row i breaks the row that takes its place.
LEMMA DeleteKeeps ==
    ASSUME IInv, NEW i \in 1..Len(rows), Delete(i)
    PROVE  IInv'
  <1>1. rows \in Seq(AuditRow) /\ Len(rows) \in Nat
    BY DEF IInv, TypeOK
  <1>2. rows' = SubSeq(rows, 1, i - 1) \o SubSeq(rows, i + 1, Len(rows)) /\ tampered = None
    BY DEF Delete
  <1>3. tampered' = [how |-> "delete", shows |-> i, followed |-> i < Len(rows)]
    BY DEF Delete
  <1>4. /\ SubSeq(rows, 1, i - 1) \in Seq(AuditRow)
        /\ Len(SubSeq(rows, 1, i - 1)) = i - 1
        /\ \A j \in 1..(i - 1) : SubSeq(rows, 1, i - 1)[j] = rows[j]
    BY <1>1, SubSeqProperties
  <1>5. /\ SubSeq(rows, i + 1, Len(rows)) \in Seq(AuditRow)
        /\ Len(SubSeq(rows, i + 1, Len(rows))) = Len(rows) - i
        /\ \A j \in 1..(Len(rows) - i) : SubSeq(rows, i + 1, Len(rows))[j] = rows[i + j]
    BY <1>1, SubSeqProperties
  <1>6. /\ rows' \in Seq(AuditRow)
        /\ Len(rows') = Len(rows) - 1
        /\ \A j \in 1..(i - 1) : rows'[j] = rows[j]
        /\ i < Len(rows) => rows'[i] = rows[i + 1]
    <2> DEFINE before == SubSeq(rows, 1, i - 1)
               after  == SubSeq(rows, i + 1, Len(rows))
    <2>1. /\ before \in Seq(AuditRow) /\ Len(before) = i - 1
          /\ \A j \in 1..(i - 1) : before[j] = rows[j]
      BY <1>4
    <2>2. /\ after \in Seq(AuditRow) /\ Len(after) = Len(rows) - i
          /\ \A j \in 1..(Len(rows) - i) : after[j] = rows[i + j]
      BY <1>5
    <2>3. rows' = before \o after
      BY <1>2
    <2> HIDE DEF before, after
    <2>4. rows' \in Seq(AuditRow) /\ Len(rows') = Len(rows) - 1
      BY <1>1, <2>1, <2>2, <2>3
    <2>5. \A j \in 1..(i - 1) : rows'[j] = rows[j]
      BY <1>1, <2>1, <2>2, <2>3
    <2>6. ASSUME i < Len(rows) PROVE rows'[i] = rows[i + 1]
      BY <1>1, <2>1, <2>2, <2>3, <2>6
    <2> QED BY <2>4, <2>5, <2>6
  <1>7. TypeOK'
    BY <1>1, <1>3, <1>6 DEF TypeOK, Tampering
  <1>8. \A j \in 1..Len(rows) : ~Broken(j)
    BY <1>2 DEF IInv
  <1>9. \A j \in 1..(i - 1) : ~Broken(j)'
    <2>1. \A j \in 1..(i - 1) : HashBefore(j)' = HashBefore(j)
      BY <1>1, <1>6 DEF HashBefore
    <2> QED BY <1>1, <1>6, <1>8, <2>1 DEF Broken, ContentDigest
  <1>10. ASSUME i < Len(rows)
         PROVE  FirstBrokenAt(tampered.shows)'
    <2>1. HashBefore(i)' = rows[i].prev_hash
      <3>1. HashBefore(i)' = HashBefore(i)
        BY <1>1, <1>6 DEF HashBefore
      <3> QED BY <1>8, <3>1 DEF Broken
    <2>2. rows'[i].prev_hash = rows[i].row_hash
      BY <1>1, <1>6, <1>8, <1>10 DEF Broken, HashBefore
    <2>3. rows[i].row_hash # rows[i].prev_hash
      <3>1. rows[i].row_hash = Digest(rows[i].seq, rows[i].content, rows[i].prev_hash)
        BY <1>8 DEF Broken, ContentDigest
      <3>2. rows[i] \in AuditRow
        BY <1>1
      <3>3. /\ rows[i].seq \in Nat /\ rows[i].content \in Content
            /\ rows[i].prev_hash \in Hash
        BY <3>2 DEF AuditRow
      <3> QED BY <3>1, <3>3, DigestIsInjective
    <2>4. Broken(i)'
      BY <2>1, <2>2, <2>3 DEF Broken
    <2> QED BY <1>1, <1>3, <1>6, <1>9, <1>10, <2>4 DEF FirstBrokenAt
  <1>11. tampered' # None
    <2>1. tampered' \in Tampering
      BY <1>1, <1>3 DEF Tampering
    <2> QED BY <2>1, NoneAssumption
  <1>12. Shown' => i < Len(rows)
    BY <1>3 DEF Shown
  <1> QED BY <1>7, <1>10, <1>11, <1>12 DEF IInv

\* The invariant holds of every ledger, tampered with or not.
LEMMA Invariance == Spec => []IInv
  <1>1. IInv /\ [Next]_vars => IInv'
    <2> SUFFICES ASSUME IInv, [Next]_vars PROVE IInv'
      OBVIOUS
    <2>1. CASE \E content \in Content : Record(content)
      BY <2>1, RecordKeeps
    <2>2. CASE \E i \in 1..Len(rows), content \in Content : Edit(i, content) \/ Reseal(i, content)
      BY <2>2, EditKeeps, ResealKeeps
    <2>3. CASE \E i \in 1..Len(rows) : Delete(i)
      BY <2>3, DeleteKeeps
    <2>4. CASE UNCHANGED vars
      BY <2>4 DEF vars, IInv, TypeOK, Shown, FirstBrokenAt, Broken, HashBefore, ContentDigest
    <2> QED BY <2>1, <2>2, <2>3, <2>4 DEF Next
  <1> QED BY <1>1, InitIInv, PTL DEF Spec

----------------------------------------------------------------------------
\* Ledger.record and every tampering keep rows and history well typed.
THEOREM LedgerTypes == Spec => []TypeOK
  <1>1. IInv => TypeOK
    BY DEF IInv
  <1> QED BY <1>1, Invariance, PTL

\* Ledger.verify accepts whatever Ledger.record wrote.
THEOREM UntouchedLedgerVerifies == Spec => []UntouchedVerifies
  <1>1. IInv => UntouchedVerifies
    BY DEF IInv, UntouchedVerifies, Verify, Flawed
  <1> QED BY <1>1, Invariance, PTL

\* Ledger.verify names an edited row, for ever after.
THEOREM EditsAreLocated == Spec => []EditIsLocated
  <1>1. ASSUME IInv PROVE EditIsLocated
    <2> SUFFICES ASSUME tampered # None, tampered.how = "edit" PROVE Located
      BY DEF EditIsLocated
    <2>1. FirstBrokenAt(tampered.shows) /\ TypeOK
      BY <1>1 DEF IInv, Shown
    <2> QED BY <2>1, VerifyReportsFirst DEF Located, FirstBrokenAt
  <1> QED BY <1>1, Invariance, PTL

\* Ledger.verify names the row after a forged one, and the gap a row left.
THEOREM ForgeriesAreLocated == Spec => []ForgeryIsLocated
  <1>1. ASSUME IInv PROVE ForgeryIsLocated
    <2> SUFFICES ASSUME tampered # None, tampered.followed PROVE Located
      BY DEF ForgeryIsLocated
    <2>1. FirstBrokenAt(tampered.shows) /\ TypeOK
      BY <1>1 DEF IInv, Shown
    <2> QED BY <2>1, VerifyReportsFirst DEF Located, FirstBrokenAt
  <1> QED BY <1>1, Invariance, PTL
=============================================================================
