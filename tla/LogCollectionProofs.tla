------------------------ MODULE LogCollectionProofs ------------------------
(* Theorems about LogCollection, for any limit, line sizes and bounds. *)
EXTENDS LogCollection, TLAPS

Inv == TypeOK /\ TruncationInv /\ LongestEnd /\ RowSound /\ LateSound

-----------------------------------------------------------------------------
(* The offsets of a log are numbers that rise. *)
LEMMA EndsRise ==
    ASSUME NEW l, IsLog(l)
    PROVE  /\ Len(l) \in Nat
           /\ \A i \in 0..Len(l) : End(l, i) \in Nat
           /\ \A i, j \in 0..Len(l) : i <= j => End(l, i) <= End(l, j)
<1>1. l \in Seq(Nat) /\ Len(l) \in Nat /\ DOMAIN l = 1..Len(l)
  BY DEF IsLog
<1>2. ASSUME NEW i \in 0..Len(l) PROVE End(l, i) \in Nat
  BY <1>1 DEF End
<1>3. ASSUME NEW i \in 0..Len(l), NEW j \in 0..Len(l), i <= j
      PROVE  End(l, i) <= End(l, j)
  <2>1. CASE i = j  BY <2>1, <1>2
  <2>2. CASE i < j
    <3>1. End(l, i) < End(l, j)  BY <2>2 DEF IsLog
    <3> QED BY <3>1, <1>2
  <2> QED BY <2>1, <2>2, <1>3, <1>1
<1> QED BY <1>1, <1>2, <1>3

(* The bytes after a line are a number, and fewer the later the line. *)
LEMMA BytesFall ==
    ASSUME NEW l, IsLog(l)
    PROVE  /\ \A i \in 0..Len(l) : Bytes(l, i) \in Nat
           /\ \A i, j \in 0..Len(l) : i <= j => Bytes(l, j) <= Bytes(l, i)
           /\ \A i \in 0..Len(l) : i < Len(l) => Bytes(l, i) > 0
           /\ Bytes(l, Len(l)) = 0
           /\ \A i \in 1..Len(l) : LineSize(l, i) \in Nat /\ i - 1 \in 0..Len(l)
                                   /\ Bytes(l, i - 1) = Bytes(l, i) + LineSize(l, i)
<1>1. /\ Len(l) \in Nat /\ Len(l) \in 0..Len(l)
      /\ \A i \in 0..Len(l) : End(l, i) \in Nat
      /\ \A i, j \in 0..Len(l) : i <= j => End(l, i) <= End(l, j)
  BY EndsRise
<1>2. ASSUME NEW i \in 0..Len(l) PROVE Bytes(l, i) \in Nat
  <2>1. End(l, i) <= End(l, Len(l))  BY <1>1
  <2> QED BY <2>1, <1>1 DEF Bytes
<1>3. ASSUME NEW i \in 0..Len(l), NEW j \in 0..Len(l), i <= j
      PROVE  Bytes(l, j) <= Bytes(l, i)
  <2>1. End(l, i) <= End(l, j)  BY <1>3, <1>1
  <2> QED BY <2>1, <1>1 DEF Bytes
<1>4. ASSUME NEW i \in 0..Len(l), i < Len(l) PROVE Bytes(l, i) > 0
  <2>1. End(l, i) < End(l, Len(l))  BY <1>4, <1>1 DEF IsLog
  <2> QED BY <2>1, <1>1 DEF Bytes
<1>5. Bytes(l, Len(l)) = 0
  BY <1>1 DEF Bytes
<1>6. ASSUME NEW i \in 1..Len(l)
      PROVE  LineSize(l, i) \in Nat /\ i - 1 \in 0..Len(l)
             /\ Bytes(l, i - 1) = Bytes(l, i) + LineSize(l, i)
  <2>1. i \in 0..Len(l) /\ i - 1 \in 0..Len(l) /\ i - 1 <= i  BY <1>1
  <2>2. End(l, i - 1) <= End(l, i) /\ End(l, i - 1) \in Nat /\ End(l, i) \in Nat
    BY <2>1, <1>1
  <2> QED BY <2>1, <2>2, <1>1 DEF Bytes, LineSize
<1> QED BY <1>2, <1>3, <1>4, <1>5, <1>6

(* The lines asked for begin within the log, before its last line unless   *)
(* all of them are left out.                                               *)
LEMMA FirstWithin ==
    ASSUME NEW l, IsLog(l), NEW n \in Int
    PROVE  /\ FirstWanted(l, n) \in 0..Len(l)
           /\ l # <<>> /\ ~(n < 0 /\ -n >= Len(l)) => FirstWanted(l, n) < Len(l)
<1>1. Len(l) \in Nat /\ (l # <<>> => Len(l) > 0)
  BY DEF IsLog
<1> QED BY <1>1 DEF FirstWanted

(* A log that grows by a line is a log. *)
LEMMA WriteLog ==
    ASSUME NEW l, IsLog(l), NEW n \in Nat \ {0}
    PROVE  IsLog(Append(l, End(l, Len(l)) + n))
<1> DEFINE m == Append(l, End(l, Len(l)) + n)
<1>1. /\ Len(l) \in Nat
      /\ \A i \in 0..Len(l) : End(l, i) \in Nat
      /\ \A i, j \in 0..Len(l) : i <= j => End(l, i) <= End(l, j)
  BY EndsRise
<1>2. m \in Seq(Nat) /\ Len(m) = Len(l) + 1
  BY <1>1 DEF IsLog
<1>3. \A i \in 0..Len(l) : End(m, i) = End(l, i)
  BY <1>1 DEF End, IsLog
<1>4. End(m, Len(l) + 1) = End(l, Len(l)) + n
  BY <1>1 DEF End, IsLog
<1>5. ASSUME NEW i \in 0..Len(m), NEW j \in 0..Len(m), i < j
      PROVE  End(m, i) < End(m, j)
  <2>1. i \in 0..Len(l)  BY <1>5, <1>2, <1>1
  <2>2. CASE j \in 0..Len(l)
    BY <2>1, <2>2, <1>3, <1>5 DEF IsLog
  <2>3. CASE j = Len(l) + 1
    <3>1. End(l, i) <= End(l, Len(l)) /\ End(l, i) \in Nat /\ End(l, Len(l)) \in Nat
      BY <2>1, <1>1
    <3> QED BY <3>1, <2>1, <2>3, <1>3, <1>4
  <2> QED BY <2>2, <2>3, <1>2, <1>1
<1> QED BY <1>2, <1>5 DEF IsLog

(* One line is a log, and so is none. *)
LEMMA SmallLogs ==
    ASSUME NEW n \in Nat \ {0}
    PROVE  IsLog(<<n>>) /\ IsLog(<<>>)
<1>1. <<n>> \in Seq(Nat) /\ Len(<<n>>) = 1 /\ <<n>>[1] = n
  OBVIOUS
<1>2. IsLog(<<n>>)
  BY <1>1 DEF IsLog, End
<1> QED BY <1>2 DEF IsLog

-----------------------------------------------------------------------------
(* What is offered is content, and counts its lines right. *)
LEMMA OfferSound ==
    ASSUME Inv, pc = "store"
    PROVE  /\ Offer \in Contents
           /\ Offer.lines = all_lines /\ Offer.cut = cut
           /\ Offer.line_count = Len(all_lines) - cut
           /\ IsLog(all_lines)
<1>1. IsLog(all_lines) /\ cut \in Nat /\ lines \in Int  BY DEF Inv, TypeOK
<1>2. cut \in FirstWanted(all_lines, lines)..Len(all_lines)  BY DEF Inv, LongestEnd
<1>3. Len(all_lines) \in Nat /\ all_lines \in Seq(Nat)  BY <1>1 DEF IsLog
<1>4. FirstWanted(all_lines, lines) \in 0..Len(all_lines)  BY <1>1, FirstWithin
<1>5. Len(all_lines) - cut \in Nat  BY <1>2, <1>3, <1>4
<1> QED BY <1>1, <1>3, <1>5 DEF Offer, Content, Contents

(* What is accepted, of a log and counted right, makes a sound row. *)
LEMMA AcceptedSound ==
    ASSUME NEW c \in Contents, IsLog(c.lines), c.line_count = Len(c.lines) - c.cut, Accepted(c),
           MaxBytes \in Nat
    PROVE  Size(c) \in 1..MaxBytes
<1>1. c.cut \in Nat /\ c.cut < Len(c.lines) /\ Len(c.lines) \in Nat
  BY DEF Accepted, Contents, IsLog
<1>2. c.cut \in 0..Len(c.lines)  BY <1>1
<1>3. Bytes(c.lines, c.cut) \in Nat /\ Bytes(c.lines, c.cut) > 0
  BY <1>1, <1>2, BytesFall
<1> QED BY <1>3 DEF Size, Accepted

(* A step that does not touch what the truncation works on keeps its       *)
(* invariants, as long as it does not enter it.                            *)
LEMMA Elsewhere ==
    ASSUME Inv, UNCHANGED <<all_lines, lines, cut, size>>,
           pc' = pc \/ pc' \notin {"truncate", "store"}
    PROVE  TruncationInv' /\ LongestEnd'
  BY DEF Inv, TruncationInv, LongestEnd

(* A failed attempt is queued again only while there are attempts left. *)
LEMMA FailTyped ==
    ASSUME TypeOK, Fail, UNCHANGED attempts, MaxAttempts \in Nat \ {0}
    PROVE  /\ pc' \in {"queued", "failed"}
           /\ pc' = "queued" => attempts' < MaxAttempts
  BY DEF TypeOK, Fail

(* The initial states satisfy the invariant. *)
LEMMA InvInit == Init => Inv
<1> SUFFICES ASSUME Init PROVE Inv
  OBVIOUS
<1> USE LogCollectionAssumption
<1>1. IsLog(<<>>)
  BY SmallLogs, 1 \in Nat \ {0}
<1>2. TypeOK
  BY <1>1 DEF Init, TypeOK, PC
<1> QED BY <1>2 DEF Init, Inv, TruncationInv, LongestEnd, RowSound, LateSound

(* Every step keeps the invariant: by action, and by part. *)
LEMMA InvStep == Inv /\ [Next]_vars => Inv'
<1> SUFFICES ASSUME Inv, [Next]_vars PROVE Inv'
  OBVIOUS
<1> USE LogCollectionAssumption
<1>t. TypeOK
  BY DEF Inv
<1>1. ASSUME NEW n \in LineSizes, Write(n) PROVE Inv'
  <2>1. n \in Nat \ {0}
    OBVIOUS
  <2>2. IsLog(log')
    <3>1. CASE log = Missing /\ log' = <<n>>
      BY <3>1, <2>1, SmallLogs
    <3>2. CASE log # Missing /\ log' = Append(log, End(log, Len(log)) + n)
      <4>1. IsLog(log)
        BY <3>2, <1>t DEF TypeOK
      <4> QED BY <4>1, <3>2, <2>1, WriteLog
    <3> QED BY <3>1, <3>2, <1>1 DEF Write
  <2>3. TypeOK'
    BY <2>2, <1>t, <1>1 DEF TypeOK, Write, jobVars
  <2>4. TruncationInv' /\ LongestEnd'
    BY <1>1, Elsewhere DEF Write, jobVars
  <2>5. RowSound' /\ LateSound'
    BY <1>1 DEF Inv, RowSound, LateSound, Write, jobVars
  <2> QED BY <2>3, <2>4, <2>5 DEF Inv
<1>2. ASSUME Rotate PROVE Inv'
  <2>1. log' = Missing \/ IsLog(log')
    BY <1>2, SmallLogs, 1 \in Nat \ {0} DEF Rotate
  <2>2. TypeOK'
    BY <2>1, <1>t, <1>2 DEF TypeOK, Rotate, jobVars
  <2>3. TruncationInv' /\ LongestEnd'
    BY <1>2, Elsewhere DEF Rotate, jobVars
  <2>4. RowSound' /\ LateSound'
    BY <1>2 DEF Inv, RowSound, LateSound, Rotate, jobVars
  <2> QED BY <2>2, <2>3, <2>4 DEF Inv
<1>3. ASSUME NEW n \in Counts, Enqueue(n) PROVE Inv'
  <2>1. TypeOK'
    BY <1>t, <1>3 DEF TypeOK, Enqueue, PC
  <2>2. TruncationInv' /\ LongestEnd'
    BY <1>3 DEF TruncationInv, LongestEnd, Enqueue
  <2>3. RowSound' /\ LateSound'
    BY <1>3 DEF Inv, RowSound, LateSound, Enqueue
  <2> QED BY <2>1, <2>2, <2>3 DEF Inv
<1>4. ASSUME Start PROVE Inv'
  <2>1. TypeOK'
    BY <1>t, <1>4 DEF TypeOK, Start, PC
  <2>2. TruncationInv' /\ LongestEnd'
    BY <1>4, Elsewhere DEF Start
  <2>3. RowSound' /\ LateSound'
    BY <1>4 DEF Inv, RowSound, LateSound, Start
  <2> QED BY <2>1, <2>2, <2>3 DEF Inv
<1>5. ASSUME Read PROVE Inv'
  <2> DEFINE first == FirstWanted(log, lines)
  <2>1. IsLog(log) /\ lines \in Int
    BY <1>5, <1>t DEF TypeOK, Read
  <2>2. first \in 0..Len(log) /\ Len(log) \in Nat /\ Bytes(log, first) \in Nat
        /\ Bytes(log, Len(log)) = 0
    <3>1. first \in 0..Len(log)
      BY <2>1, FirstWithin
    <3>2. Len(log) \in Nat
      BY <2>1 DEF IsLog
    <3>3. Len(log) \in 0..Len(log)
      BY <3>2
    <3>4. Bytes(log, first) \in Nat
      <4> HIDE DEF first
      <4> QED BY <2>1, <3>1, BytesFall
    <3>5. Bytes(log, Len(log)) = 0
      BY <2>1, <3>3, BytesFall
    <3> QED BY <3>1, <3>2, <3>4, <3>5
  <2>3. all_lines' = log /\ lines' = lines /\ UNCHANGED <<row, late>>
    BY <1>5 DEF Read
  <2>4. CASE Bytes(log, first) <= MaxBytes /\ cut' = first /\ pc' = "store" /\ size' = size
    <3>1. TypeOK'
      BY <1>t, <1>5, <2>1, <2>2, <2>4 DEF TypeOK, Read, PC
    <3>2. LongestEnd'
      BY <2>2, <2>3, <2>4 DEF LongestEnd
    <3>3. TruncationInv' /\ RowSound' /\ LateSound'
      BY <2>3, <2>4 DEF Inv, TruncationInv, RowSound, LateSound
    <3> QED BY <3>1, <3>2, <3>3 DEF Inv
  <2>5. CASE Bytes(log, first) > MaxBytes /\ cut' = Len(log) /\ size' = 0 /\ pc' = "truncate"
    <3>1. TypeOK'
      BY <1>t, <1>5, <2>1, <2>2, <2>5 DEF TypeOK, Read, PC
    <3>2. TruncationInv'
      BY <2>2, <2>3, <2>5 DEF TruncationInv
    <3>3. LongestEnd' /\ RowSound' /\ LateSound'
      BY <2>3, <2>5 DEF Inv, LongestEnd, RowSound, LateSound
    <3> QED BY <3>1, <3>2, <3>3 DEF Inv
  <2> QED BY <2>4, <2>5, <1>5 DEF Read
<1>6. ASSUME ReadMissing PROVE Inv'
  <2>1. TypeOK'
    BY <1>t, <1>6 DEF TypeOK, ReadMissing, PC
  <2>2. TruncationInv' /\ LongestEnd'
    BY <1>6, Elsewhere DEF ReadMissing
  <2>3. RowSound' /\ LateSound'
    BY <1>6 DEF Inv, RowSound, LateSound, ReadMissing
  <2> QED BY <2>1, <2>2, <2>3 DEF Inv
<1>7. ASSUME ReadFails PROVE Inv'
  <2>1. pc' \in {"queued", "failed"} /\ (pc' = "queued" => attempts' < MaxAttempts)
    BY <1>7, <1>t, FailTyped DEF ReadFails
  <2>2. TypeOK'
    BY <2>1, <1>t, <1>7 DEF TypeOK, ReadFails, PC
  <2>3. TruncationInv' /\ LongestEnd'
    BY <1>7, <2>1, Elsewhere DEF ReadFails
  <2>4. RowSound' /\ LateSound'
    BY <1>7 DEF Inv, RowSound, LateSound, ReadFails
  <2> QED BY <2>2, <2>3, <2>4 DEF Inv
<1>8. ASSUME Truncate PROVE Inv'
  <2> DEFINE first == FirstWanted(all_lines, lines)
  <2>1. IsLog(all_lines) /\ lines \in Int /\ Len(all_lines) \in Nat
    BY <1>t DEF TypeOK, IsLog
  <2>2. first \in 0..Len(all_lines)
    BY <2>1, FirstWithin
  <2>3. cut \in first..Len(all_lines) /\ size = Bytes(all_lines, cut) /\ size <= MaxBytes
        /\ Bytes(all_lines, first) > MaxBytes
    BY <1>8 DEF Inv, TruncationInv, Truncate
  <2>4. UNCHANGED <<all_lines, lines, row, late>>
    BY <1>8 DEF Truncate
  <2>5. cut > first /\ cut \in 1..Len(all_lines)
    <3>1. size \in Nat /\ cut # first
      BY <2>3, <1>t DEF TypeOK
    <3> QED BY <3>1, <2>1, <2>2, <2>3
  <2>6. /\ LineSize(all_lines, cut) \in Nat
        /\ Bytes(all_lines, cut - 1) = size + LineSize(all_lines, cut)
    BY <2>1, <2>3, <2>5, BytesFall
  <2>7. CASE NextFits /\ size' = size + LineSize(all_lines, cut) /\ cut' = cut - 1 /\ pc' = pc
    <3>1. TypeOK'
      BY <1>t, <1>8, <2>5, <2>6, <2>7 DEF TypeOK, Truncate
    <3>2. TruncationInv'
      BY <2>1, <2>2, <2>3, <2>4, <2>5, <2>6, <2>7 DEF TruncationInv, NextFits
    <3>3. LongestEnd' /\ RowSound' /\ LateSound'
      BY <1>8, <2>4, <2>7 DEF Inv, LongestEnd, RowSound, LateSound, Truncate
    <3> QED BY <3>1, <3>2, <3>3 DEF Inv
  <2>8. CASE ~NextFits /\ pc' = "store" /\ UNCHANGED <<size, cut>>
    <3>1. TypeOK'
      BY <1>t, <1>8, <2>8 DEF TypeOK, Truncate, PC
    <3>2. Bytes(all_lines, cut - 1) > MaxBytes
      BY <2>5, <2>6, <2>8, <1>t DEF NextFits, TypeOK
    <3>3. ASSUME NEW c \in first..(cut - 1) PROVE Bytes(all_lines, c) > MaxBytes
      <4>1. c \in 0..Len(all_lines) /\ cut - 1 \in 0..Len(all_lines) /\ c <= cut - 1
        BY <2>1, <2>2, <2>5
      <4>2. /\ Bytes(all_lines, cut - 1) <= Bytes(all_lines, c)
            /\ Bytes(all_lines, c) \in Nat /\ Bytes(all_lines, cut - 1) \in Nat
        BY <4>1, <2>1, BytesFall
      <4> QED BY <4>2, <3>2
    <3>4. LongestEnd'
      BY <2>3, <2>4, <2>8, <3>3 DEF LongestEnd
    <3>5. TruncationInv' /\ RowSound' /\ LateSound'
      BY <2>4, <2>8 DEF Inv, TruncationInv, RowSound, LateSound
    <3> QED BY <3>1, <3>4, <3>5 DEF Inv
  <2> QED BY <2>7, <2>8, <1>8 DEF Truncate
<1>9. ASSUME Store PROVE Inv'
  <2>1. /\ Offer \in Contents /\ IsLog(Offer.lines)
        /\ Offer.line_count = Len(Offer.lines) - Offer.cut
    BY <1>9, OfferSound DEF Store
  <2>2. row' = Offer /\ Accepted(Offer) /\ pc' = "succeeded"
    BY <1>9 DEF Store
  <2>3. row' # NoRow /\ Size(row') \in 1..MaxBytes
    BY <2>1, <2>2, AcceptedSound DEF Contents
  <2>4. TypeOK'
    BY <1>t, <1>9, <2>1, <2>2 DEF TypeOK, Store, PC
  <2>5. RowSound'
    BY <2>1, <2>2, <2>3 DEF RowSound, Size, Bytes, End
  <2>6. TruncationInv' /\ LongestEnd' /\ LateSound'
    BY <1>9, Elsewhere DEF Store, Inv, LateSound
  <2> QED BY <2>4, <2>5, <2>6 DEF Inv
<1>10. ASSUME StoreRefused PROVE Inv'
  <2>1. pc' \in {"queued", "failed"} /\ (pc' = "queued" => attempts' < MaxAttempts)
    BY <1>10, <1>t, FailTyped DEF StoreRefused
  <2>2. TypeOK'
    BY <2>1, <1>t, <1>10 DEF TypeOK, StoreRefused, PC
  <2>3. TruncationInv' /\ LongestEnd'
    BY <1>10, <2>1, Elsewhere DEF StoreRefused
  <2>4. RowSound' /\ LateSound'
    BY <1>10 DEF Inv, RowSound, LateSound, StoreRefused
  <2> QED BY <2>2, <2>3, <2>4 DEF Inv
<1>11. ASSUME StoreFails PROVE Inv'
  <2>1. pc' \in {"queued", "failed"} /\ (pc' = "queued" => attempts' < MaxAttempts)
    BY <1>11, <1>t, FailTyped DEF StoreFails
  <2>2. /\ Offer \in Contents /\ IsLog(Offer.lines)
        /\ Offer.line_count = Len(Offer.lines) - Offer.cut
    BY <1>11, OfferSound DEF StoreFails
  <2>3. late' \subseteq late \cup {Offer}
    BY <1>11 DEF StoreFails
  <2>4. TypeOK'
    BY <2>1, <2>2, <2>3, <1>t, <1>11 DEF TypeOK, StoreFails, PC
  <2>5. TruncationInv' /\ LongestEnd'
    BY <1>11, <2>1, Elsewhere DEF StoreFails
  <2>6. RowSound'
    BY <1>11 DEF Inv, RowSound, StoreFails
  <2>7. LateSound'
    BY <2>2, <2>3 DEF Inv, LateSound
  <2> QED BY <2>4, <2>5, <2>6, <2>7 DEF Inv
<1>12. ASSUME NEW c \in late, Land(c) PROVE Inv'
  <2>1. c \in Contents /\ IsLog(c.lines) /\ c.line_count = Len(c.lines) - c.cut
    BY <1>t DEF TypeOK, Inv, LateSound
  <2>2. TypeOK'
    BY <2>1, <1>t, <1>12 DEF TypeOK, Land, jobVars
  <2>3. TruncationInv' /\ LongestEnd'
    BY <1>12, Elsewhere DEF Land, jobVars
  <2>4. RowSound'
    <3>1. CASE Accepted(c) /\ row' = c
      <4>1. Size(row') \in 1..MaxBytes
        BY <2>1, <3>1, AcceptedSound
      <4> QED BY <4>1, <2>1, <3>1 DEF RowSound, Size, Bytes, End
    <3>2. CASE row' = row
      BY <3>2 DEF Inv, RowSound
    <3> QED BY <3>1, <3>2, <1>12 DEF Land
  <2>5. LateSound'
    BY <1>12 DEF Inv, LateSound, Land
  <2> QED BY <2>2, <2>3, <2>4, <2>5 DEF Inv
<1>13. ASSUME DeleteRow PROVE Inv'
  <2>1. TypeOK'
    BY <1>t, <1>13 DEF TypeOK, DeleteRow, jobVars
  <2>2. TruncationInv' /\ LongestEnd'
    BY <1>13, Elsewhere DEF DeleteRow, jobVars
  <2>3. RowSound' /\ LateSound'
    BY <1>13 DEF Inv, RowSound, LateSound, DeleteRow, jobVars
  <2> QED BY <2>1, <2>2, <2>3 DEF Inv
<1>14. CASE UNCHANGED vars
  <2>1. TypeOK'
    BY <1>t, <1>14 DEF TypeOK, vars, jobVars
  <2>2. TruncationInv' /\ LongestEnd'
    BY <1>14, Elsewhere DEF vars, jobVars
  <2>3. RowSound' /\ LateSound'
    BY <1>14 DEF Inv, RowSound, LateSound, vars, jobVars
  <2> QED BY <2>1, <2>2, <2>3 DEF Inv
<1> QED BY <1>1, <1>2, <1>3, <1>4, <1>5, <1>6, <1>7, <1>8, <1>9, <1>10, <1>11, <1>12,
           <1>13, <1>14 DEF Next, Collect

-----------------------------------------------------------------------------
(* The invariant holds throughout. *)
LEMMA InvAlways == Spec => []Inv
  BY InvInit, InvStep, PTL DEF Spec

(* Type correctness; it includes that attempts stay within max_attempts. *)
THEOREM TypesHold == Spec => []TypeOK
<1>1. Inv => TypeOK
  BY DEF Inv
<1> QED BY <1>1, InvAlways, PTL

(* The truncation keeps an end of the log that fits, and knows its size. *)
THEOREM TruncationCorrect == Spec => []TruncationInv
<1>1. Inv => TruncationInv
  BY DEF Inv
<1> QED BY <1>1, InvAlways, PTL

(* Whatever the log and the limit, the worker offers the longest end of    *)
(* the lines asked for that fits.                                          *)
THEOREM OffersLongestEnd == Spec => []LongestEnd
<1>1. Inv => LongestEnd
  BY DEF Inv
<1> QED BY <1>1, InvAlways, PTL

(* The row is within the limit, not empty, and counted right. *)
THEOREM RowsSound == Spec => []RowSound
<1>1. Inv => RowSound
  BY DEF Inv
<1> QED BY <1>1, InvAlways, PTL

(* The service refuses nothing but logs without a line that fits. *)
THEOREM RefusalsExplained == Spec => RefusedOnlyForNothing
<1>1. ASSUME Inv, StoreRefused
      PROVE  \/ all_lines = <<>>
             \/ lines < 0 /\ -lines >= Len(all_lines)
             \/ LineSize(all_lines, Len(all_lines)) > MaxBytes
  <2> SUFFICES ASSUME all_lines # <<>>, ~(lines < 0 /\ -lines >= Len(all_lines))
               PROVE  LineSize(all_lines, Len(all_lines)) > MaxBytes
    OBVIOUS
  <2> DEFINE first == FirstWanted(all_lines, lines)
             n == Len(all_lines)
  <2>1. IsLog(all_lines) /\ lines \in Int /\ n \in Nat
    BY <1>1 DEF Inv, TypeOK, IsLog
  <2>2. /\ cut \in first..n
        /\ Bytes(all_lines, cut) <= MaxBytes
        /\ \A c \in first..(cut - 1) : Bytes(all_lines, c) > MaxBytes
    BY <1>1 DEF Inv, LongestEnd, StoreRefused
  <2>3. first \in 0..n /\ first < n
    BY <2>1, FirstWithin
  <2>4. cut >= n
    <3>1. Offer.cut = cut /\ Offer.lines = all_lines
      BY <1>1, OfferSound DEF StoreRefused
    <3>2. ~(cut < n)
      BY <3>1, <2>2, <1>1 DEF StoreRefused, Accepted, Size
    <3> QED BY <3>2, <2>1, <2>2, <2>3
  <2>5. cut = n /\ n - 1 \in first..(cut - 1) /\ n \in 1..n
    BY <2>1, <2>2, <2>3, <2>4
  <2>6. Bytes(all_lines, n - 1) > MaxBytes
    BY <2>2, <2>5
  <2>7. /\ LineSize(all_lines, n) \in Nat
        /\ Bytes(all_lines, n - 1) = Bytes(all_lines, n) + LineSize(all_lines, n)
        /\ Bytes(all_lines, n) = 0
    BY <2>1, <2>5, BytesFall
  <2> QED BY <2>6, <2>7
<1>2. Inv /\ [Next]_vars =>
        [StoreRefused => \/ all_lines = <<>>
                         \/ lines < 0 /\ -lines >= Len(all_lines)
                         \/ LineSize(all_lines, Len(all_lines)) > MaxBytes]_vars
  BY <1>1
<1> QED BY <1>2, InvAlways, PTL DEF Spec, RefusedOnlyForNothing
=============================================================================
