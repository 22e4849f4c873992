---------------------- MODULE AdmissionCredentialProofs ----------------------
(***************************************************************************)
(* Proofs about AdmissionCredential for every set of keys and names and    *)
(* every bound on the times.                                               *)
(***************************************************************************)
EXTENDS AdmissionCredential, SequenceTheorems, TLAPS

(* A field is a number or a name.                                               *)
Value == Nat \cup Seq(Nat)

(* How many fields were read.                                                   *)
Count == Len(values)

TypeOK ==
  /\ signed \in [payload : Payload, nonce : Nonce, domain : {"account-admission", "bot-tool"}]
  /\ bytes \in Seq(Nat)
  /\ offset \in 0..Len(bytes)
  /\ values \in Seq(Value) /\ Count \in 0..8
  /\ now \in Time

(* A name with its length in front stands at position i of the wire.            *)
NameAt(name, i) ==
  /\ name \in Seq(Nat)
  /\ bytes[i] = Len(name)
  /\ \A j \in 1..Len(name) : bytes[i + j] = name[j]

(* Where the fields behind the names begin.                                     *)
Skipped == Len(values[3]) + Len(values[4])

(* The reader has consumed the fields it read and nothing else.                 *)
Consumed ==
  /\ Count <= 2 => offset = Count
  /\ Count = 3 => offset = 3 + Len(values[3])
  /\ Count >= 4 => offset = Count + Skipped

(* Every field it read stands where the writer puts it.                         *)
FieldsInPlace ==
  /\ Count >= 1 => bytes[1] = 1 /\ values[1] = 1
  /\ Count >= 2 => bytes[2] = values[2]
  /\ Count >= 3 => NameAt(values[3], 3)
  /\ Count >= 4 => NameAt(values[4], 4 + Len(values[3]))
  /\ \A j \in 5..8 : Count >= j => bytes[j + Skipped] = values[j]

(* A verdict other than malformed is given on all fields and all bytes.         *)
Finished ==
  result \notin {"reading", "admission_credential_malformed"} =>
    Count = 8 /\ offset = Len(bytes)

IInv ==
  /\ TypeOK
  /\ Consumed
  /\ FieldsInPlace
  /\ Finished

(* A part of a concatenation, found from the front and from behind.             *)
LEMMA Concat ==
  ASSUME NEW x \in Seq(Nat), NEW y \in Seq(Nat)
  PROVE  /\ x \o y \in Seq(Nat)
         /\ Len(x \o y) = Len(x) + Len(y)
         /\ \A i \in 1..Len(x) : (x \o y)[i] = x[i]
         /\ \A i \in 1..Len(y) : (x \o y)[Len(x) + i] = y[i]
<1>1. /\ x \o y \in Seq(Nat)
      /\ Len(x \o y) = Len(x) + Len(y)
      /\ \A i \in 1..(Len(x) + Len(y)) : (x \o y)[i] = IF i <= Len(x) THEN x[i] ELSE y[i - Len(x)]
  BY ConcatProperties
<1>2. ASSUME NEW i \in 1..Len(x) PROVE (x \o y)[i] = x[i]
  BY <1>1
<1>3. ASSUME NEW i \in 1..Len(y) PROVE (x \o y)[Len(x) + i] = y[i]
  <2>1. /\ Len(x) + i \in 1..(Len(x) + Len(y)) /\ ~(Len(x) + i <= Len(x))
        /\ (Len(x) + i) - Len(x) = i
    OBVIOUS
  <2>2. QED
    BY <1>1, <2>1
<1>4. QED
  BY <1>1, <1>2, <1>3

(* A name with its length in front.                                             *)
LEMMA AsciiPositions ==
  ASSUME NEW n \in Seq(Nat)
  PROVE  /\ Ascii(n) \in Seq(Nat) /\ Len(Ascii(n)) = 1 + Len(n)
         /\ Ascii(n)[1] = Len(n)
         /\ \A j \in 1..Len(n) : Ascii(n)[1 + j] = n[j]
<1>1. Len(n) \in Nat /\ <<Len(n)>> \in Seq(Nat) /\ Len(<<Len(n)>>) = 1 /\ <<Len(n)>>[1] = Len(n)
  OBVIOUS
<1> DEFINE l == <<Len(n)>>
<1> HIDE DEF l
<1>2. /\ l \o n \in Seq(Nat) /\ Len(l \o n) = 1 + Len(n)
      /\ \A i \in 1..1 : (l \o n)[i] = l[i]
      /\ \A i \in 1..Len(n) : (l \o n)[1 + i] = n[i]
  <2>1. l \in Seq(Nat) /\ Len(l) = 1
    BY <1>1 DEF l
  <2>2. /\ l \o n \in Seq(Nat) /\ Len(l \o n) = Len(l) + Len(n)
        /\ \A i \in 1..Len(l) : (l \o n)[i] = l[i]
        /\ \A i \in 1..Len(n) : (l \o n)[Len(l) + i] = n[i]
    BY <2>1, Concat
  <2>3. QED
    BY <2>1, <2>2
<1>3. l[1] = Len(n)
  BY DEF l
<1>4. Ascii(n) = l \o n
  BY DEF Ascii, l
<1>5. QED
  BY <1>2, <1>3, <1>4

(* The fields of payload p and nonce n are in their places on wire e; the names *)
(* have the lengths a and b.                                                    *)
WireOf(e, p, n, a, b) ==
  /\ e \in Seq(Nat) /\ Len(e) = 8 + a + b
  /\ e[1] = 1 /\ e[2] = p.keyId
  /\ e[3] = a /\ \A i \in 1..a : e[3 + i] = p.account[i]
  /\ e[4 + a] = b /\ \A i \in 1..b : e[4 + a + i] = p.login[i]
  /\ e[5 + a + b] = p.bot /\ e[6 + a + b] = p.issued
  /\ e[7 + a + b] = p.expires /\ e[8 + a + b] = n

(* What Encode makes of its fields, position by position.                       *)
LEMMA EncodePositions ==
  ASSUME NEW p, NEW n \in Nat, NEW a \in Nat, NEW b \in Nat,
         p.keyId \in Nat, p.bot \in Nat, p.issued \in Nat, p.expires \in Nat,
         p.account \in Seq(Nat), p.login \in Seq(Nat),
         Len(p.account) = a, Len(p.login) = b
  PROVE  WireOf(Encode(p, n), p, n, a, b)
<1> DEFINE first == <<1, p.keyId>>
           second == Ascii(p.account)
           third == Ascii(p.login)
           last == <<p.bot, p.issued, p.expires, n>>
           s == Encode(p, n)
<1>1. first \in Seq(Nat) /\ Len(first) = 2 /\ first[1] = 1 /\ first[2] = p.keyId
  OBVIOUS
<1>2. /\ last \in Seq(Nat) /\ Len(last) = 4
      /\ last[1] = p.bot /\ last[2] = p.issued /\ last[3] = p.expires /\ last[4] = n
  OBVIOUS
<1>3. /\ second \in Seq(Nat) /\ Len(second) = 1 + a /\ second[1] = a
      /\ \A j \in 1..a : second[1 + j] = p.account[j]
  BY AsciiPositions
<1>4. /\ third \in Seq(Nat) /\ Len(third) = 1 + b /\ third[1] = b
      /\ \A j \in 1..b : third[1 + j] = p.login[j]
  BY AsciiPositions
<1> DEFINE u == first \o second
           v == u \o third
<1>5. s = v \o last
  BY DEF Encode
<1> HIDE DEF first, second, third, last, s
<1>6. /\ s \in Seq(Nat) /\ Len(s) = 8 + a + b
      /\ \A i \in 1..2 : s[i] = first[i]
      /\ \A i \in 1..(1 + a) : s[2 + i] = second[i]
      /\ \A i \in 1..(1 + b) : s[3 + a + i] = third[i]
      /\ \A i \in 1..4 : s[4 + a + b + i] = last[i]
  <2>1. /\ u \in Seq(Nat) /\ Len(u) = Len(first) + Len(second)
        /\ \A i \in 1..Len(first) : u[i] = first[i]
        /\ \A i \in 1..Len(second) : u[Len(first) + i] = second[i]
    BY <1>1, <1>3, Concat
  <2> HIDE DEF u
  <2>2. Len(u) = 3 + a
    BY <1>1, <1>3, <2>1
  <2>3. /\ v \in Seq(Nat) /\ Len(v) = Len(u) + Len(third)
        /\ \A i \in 1..Len(u) : v[i] = u[i]
        /\ \A i \in 1..Len(third) : v[Len(u) + i] = third[i]
    BY <1>4, <2>1, Concat
  <2> HIDE DEF v
  <2>4. Len(v) = 4 + a + b
    BY <1>4, <2>2, <2>3
  <2>5. /\ s \in Seq(Nat) /\ Len(s) = Len(v) + Len(last)
        /\ \A i \in 1..Len(v) : s[i] = v[i]
        /\ \A i \in 1..Len(last) : s[Len(v) + i] = last[i]
    <3>1. v \in Seq(Nat) /\ last \in Seq(Nat)
      BY <1>2, <2>3
    <3> HIDE DEF last
    <3>2. QED
      BY <3>1, <1>5, Concat
  <2>6. Len(s) = 8 + a + b
    BY <1>2, <2>4, <2>5
  <2>7. ASSUME NEW i \in 1..2 PROVE s[i] = first[i]
    <3>1. i \in 1..Len(first) /\ i \in 1..Len(u) /\ i \in 1..Len(v)
      BY <1>1, <2>2, <2>4
    <3>2. QED
      BY <3>1, <2>1, <2>3, <2>5
  <2>8. ASSUME NEW i \in 1..(1 + a) PROVE s[2 + i] = second[i]
    <3>1. /\ i \in 1..Len(second) /\ Len(first) + i = 2 + i
          /\ 2 + i \in 1..Len(u) /\ 2 + i \in 1..Len(v)
      BY <1>1, <1>3, <2>2, <2>4
    <3>2. QED
      BY <3>1, <2>1, <2>3, <2>5
  <2>9. ASSUME NEW i \in 1..(1 + b) PROVE s[3 + a + i] = third[i]
    <3>1. /\ i \in 1..Len(third) /\ Len(u) + i = 3 + a + i /\ 3 + a + i \in 1..Len(v)
      BY <1>4, <2>2, <2>4
    <3>2. QED
      BY <3>1, <2>3, <2>5
  <2>10. ASSUME NEW i \in 1..4 PROVE s[4 + a + b + i] = last[i]
    BY <1>2, <2>4, <2>5
  <2>11. QED
    BY <2>5, <2>6, <2>7, <2>8, <2>9, <2>10
<1>7. s[1] = 1 /\ s[2] = p.keyId
  <2>1. s[1] = first[1] /\ s[2] = first[2]
    BY ONLY <1>6
  <2>2. QED
    BY ONLY <1>1, <2>1
<1>8. s[3] = a /\ \A i \in 1..a : s[3 + i] = p.account[i]
  <2>1. s[2 + 1] = second[1]
    BY <1>6
  <2>2. ASSUME NEW i \in 1..a PROVE s[3 + i] = p.account[i]
    <3>1. 1 + i \in 1..(1 + a) /\ 2 + (1 + i) = 3 + i
      OBVIOUS
    <3>2. s[2 + (1 + i)] = second[1 + i]
      BY <3>1, <1>6
    <3>3. QED
      BY <3>1, <3>2, <1>3
  <2>3. QED
    BY <2>1, <2>2, <1>3
<1>9. s[4 + a] = b /\ \A i \in 1..b : s[4 + a + i] = p.login[i]
  <2>1. s[3 + a + 1] = third[1] /\ 3 + a + 1 = 4 + a
    BY <1>6
  <2>2. ASSUME NEW i \in 1..b PROVE s[4 + a + i] = p.login[i]
    <3>1. 1 + i \in 1..(1 + b) /\ 3 + a + (1 + i) = 4 + a + i
      OBVIOUS
    <3>2. s[3 + a + (1 + i)] = third[1 + i]
      BY <3>1, <1>6
    <3>3. QED
      BY <3>1, <3>2, <1>4
  <2>3. QED
    BY <2>1, <2>2, <1>4
<1>10. /\ s[5 + a + b] = p.bot /\ s[6 + a + b] = p.issued
       /\ s[7 + a + b] = p.expires /\ s[8 + a + b] = n
  <2>1. /\ 5 + a + b = 4 + a + b + 1 /\ 6 + a + b = 4 + a + b + 2
        /\ 7 + a + b = 4 + a + b + 3 /\ 8 + a + b = 4 + a + b + 4
    OBVIOUS
  <2>2. /\ s[4 + a + b + 1] = last[1] /\ s[4 + a + b + 2] = last[2]
        /\ s[4 + a + b + 3] = last[3] /\ s[4 + a + b + 4] = last[4]
    BY <1>6
  <2>3. QED
    BY <2>1, <2>2, <1>2
<1>11. QED
  BY <1>6, <1>7, <1>8, <1>9, <1>10 DEF s, WireOf
(* What was signed has the types of its fields.                                 *)
LEMMA PayloadType ==
  ASSUME NEW p \in Payload
  PROVE  /\ p.keyId \in Nat /\ p.bot \in {0, 1} /\ p.issued = 0 /\ p.expires \in Nat
         /\ p.account \in Seq(Nat) /\ p.login \in Seq(Nat)
         /\ \A i \in 1..Len(p.account) : p.account[i] <= 127
         /\ \A i \in 1..Len(p.login) : p.login[i] <= 127
<1>1. p.account \in Name /\ p.login \in Name
  BY DEF Payload
<1>2. /\ p.account \in Seq(Nat) /\ \A i \in 1..Len(p.account) : p.account[i] <= 127
      /\ p.login \in Seq(Nat) /\ \A i \in 1..Len(p.login) : p.login[i] <= 127
  BY <1>1, NameAssumption
<1>4. /\ p.keyId \in Nat /\ p.bot \in {0, 1} /\ p.issued = 0 /\ p.expires \in Nat
  <2>1. \A t \in Time : t \in Nat
    BY TimeAssumption DEF Time
  <2>2. QED
    BY <2>1, KeyAssumption DEF Payload
<1>5. QED
  BY <1>2, <1>4

(* The initial states satisfy the invariant.                                    *)
LEMMA InvInit == Init => IInv
<1> SUFFICES ASSUME Init PROVE IInv
  OBVIOUS
<1>1. PICK p \in Payload, n \in Nonce, d \in {"account-admission", "bot-tool"} :
        signed = [payload |-> p, nonce |-> n, domain |-> d] /\ bytes \in Arrived(Encode(p, n))
  BY DEF Init
<1>2. Encode(p, n) \in Seq(Nat)
  <2>1. WireOf(Encode(p, n), p, n, Len(p.account), Len(p.login))
    BY PayloadType, EncodePositions DEF Nonce
  <2>2. QED
    BY <2>1 DEF WireOf
<1>3. bytes \in Seq(Nat)
  <2>1. \A b \in Byte : b \in Nat
    BY DEF Byte, NonAscii
  <2> DEFINE s == Encode(p, n)
  <2> HIDE DEF s
  <2>2. s \in Seq(Nat) /\ bytes \in Arrived(s)
    BY <1>1, <1>2 DEF s
  <2>3. CASE bytes = s
    BY <2>2, <2>3
  <2>4. CASE bytes = SubSeq(s, 1, Len(s) - 1)
    <3>1. \A i \in 1..(Len(s) - 1) : s[i] \in Nat
      BY <2>2
    <3>2. QED
      BY <2>2, <2>4, <3>1, SubSeqProperties
  <2>5. CASE \E b \in Byte : bytes = Append(s, b)
    BY <2>1, <2>2, <2>5
  <2>6. CASE \E i \in DOMAIN s, b \in Byte : bytes = [s EXCEPT ![i] = b]
    BY <2>1, <2>2, <2>6
  <2>7. QED
    BY <2>2, <2>3, <2>4, <2>5, <2>6 DEF Arrived
<1>4. TypeOK
  BY <1>1, <1>3 DEF TypeOK, Init, Count
<1>5. QED
  BY <1>4 DEF IInv, Init, Count, Consumed, FieldsInPlace, Finished

(* Which fields are numbers and which are names, and what they must be.         *)
LEMMA FieldKinds ==
  ASSUME Count \in 0..7
  PROVE  /\ Field \in {"account", "login"} <=> Count \in {2, 3}
         /\ Field = "version" <=> Count = 0
         /\ Field = "bot" <=> Count = 4
<1>1. Count \in {0, 1, 2, 3, 4, 5, 6, 7}
  OBVIOUS
<1>2. /\ Layout[1] = "version" /\ Layout[2] = "keyId" /\ Layout[3] = "account"
      /\ Layout[4] = "login" /\ Layout[5] = "bot" /\ Layout[6] = "issued"
      /\ Layout[7] = "expires" /\ Layout[8] = "nonce"
  BY DEF Layout
<1>3. Field = Layout[Count + 1]
  BY DEF Field, Count
<1>4. QED
  BY <1>1, <1>2, <1>3

(* A field that was read comes behind those before it.                          *)
Grown(value) ==
  /\ values' \in Seq(Value)
  /\ Count' = Count + 1
  /\ \A i \in 1..Count : values'[i] = values[i]
  /\ values'[Count + 1] = value

(* That is what Append does.                                                    *)
LEMMA Appended ==
  ASSUME values \in Seq(Value), NEW v \in Value, values' = Append(values, v)
  PROVE  Grown(v)
  BY AppendProperties DEF Grown, Count

(* Nothing but the reader moves.                                                *)
LEMMA TypeStep ==
  ASSUME TypeOK, Count \in 0..7, NEW v, Grown(v), offset' \in 0..Len(bytes),
         UNCHANGED <<signed, bytes, now>>
  PROVE  TypeOK'
  BY DEF TypeOK, Grown

(* A number that was taken stands where the reader was.                         *)
LEMMA NumberTaken ==
  ASSUME Consumed, FieldsInPlace, Count \in {0, 1, 4, 5, 6, 7}, offset \in Nat,
         Grown(bytes[offset + 1]),
         Count = 0 => bytes[offset + 1] = 1,
         offset' = offset + 1, bytes' = bytes
  PROVE  Consumed' /\ FieldsInPlace'
<1> DEFINE v == bytes[offset + 1]
<1>1. /\ Count' = Count + 1
      /\ \A i \in 1..Count : values'[i] = values[i]
      /\ values'[Count + 1] = v
  BY DEF Grown
<1>2. CASE Count = 0
  BY <1>1, <1>2 DEF Consumed, FieldsInPlace
<1>3. CASE Count = 1
  <2>1. values'[1] = values[1] /\ values'[2] = v /\ Count' = 2
    BY <1>1, <1>3
  <2>2. offset = 1
    BY <1>3 DEF Consumed
  <2>3. QED
    BY <1>3, <2>1, <2>2 DEF Consumed, FieldsInPlace
<1>4. CASE Count \in 4..7
  <2>1. /\ values'[1] = values[1] /\ values'[2] = values[2]
        /\ values'[3] = values[3] /\ values'[4] = values[4]
    BY <1>1, <1>4
  <2>2. Skipped' = Skipped
    BY <2>1 DEF Skipped
  <2>3. NameAt(values[3], 3) /\ NameAt(values[4], 4 + Len(values[3]))
    BY <1>4 DEF FieldsInPlace
  <2>4. Skipped \in Nat
    <3> DEFINE a == Len(values[3])
               b == Len(values[4])
    <3>1. a \in Nat /\ b \in Nat
      BY <2>3 DEF NameAt
    <3>2. Skipped = a + b
      BY DEF Skipped
    <3> HIDE DEF a, b
    <3>3. QED
      BY <3>1, <3>2
  <2>5. offset = Count + Skipped
    BY <1>4 DEF Consumed
  <2>6. Consumed'
    BY <1>1, <1>4, <2>2, <2>4, <2>5 DEF Consumed
  <2>7. NameAt(values[3], 3)' /\ NameAt(values[4], 4 + Len(values[3]))'
    BY ONLY <2>1, <2>3, bytes' = bytes DEF NameAt
  <2>8. ASSUME NEW j \in 5..8, Count' >= j
        PROVE  bytes'[j + Skipped'] = values'[j]
    <3>1. CASE j <= Count
      <4>1. bytes[j + Skipped] = values[j] /\ values'[j] = values[j]
        BY <1>1, <1>4, <3>1 DEF FieldsInPlace
      <4>2. QED
        BY <4>1, <2>2
    <3>2. CASE j = Count + 1
      <4>1. j + Skipped = offset + 1
        BY <1>4, <2>4, <2>5, <3>2
      <4>2. QED
        BY <1>1, <2>2, <3>2, <4>1
    <3>3. j <= Count \/ j = Count + 1
      BY <1>1, <1>4, <2>8
    <3>4. QED
      BY <3>1, <3>2, <3>3
  <2>9. bytes'[1] = 1 /\ values'[1] = 1 /\ bytes'[2] = values'[2]
    BY <1>4, <2>1 DEF FieldsInPlace
  <2>10. FieldsInPlace'
    BY <2>7, <2>8, <2>9 DEF FieldsInPlace
  <2>11. QED
    BY <2>6, <2>10
<1>5. QED
  BY <1>2, <1>3, <1>4

(* A name that was taken stands behind its length, where the reader was.        *)
LEMMA NameTaken ==
  ASSUME Consumed, FieldsInPlace, Count \in {2, 3}, offset \in Nat,
         NEW name, NameAt(name, offset + 1), Grown(name),
         offset' = offset + (Len(name) + 1), bytes' = bytes
  PROVE  Consumed' /\ FieldsInPlace'
<1>1. /\ Count' = Count + 1
      /\ \A i \in 1..Count : values'[i] = values[i]
      /\ values'[Count + 1] = name
  BY DEF Grown
<1>2. values'[1] = values[1] /\ values'[2] = values[2]
  BY <1>1
<1>3. bytes'[1] = 1 /\ values'[1] = 1 /\ bytes'[2] = values'[2]
  BY <1>2 DEF FieldsInPlace
<1>4. name \in Seq(Nat) /\ Len(name) \in Nat
  BY DEF NameAt
<1>5. CASE Count = 2
  <2>1. offset = 2 /\ values'[3] = name /\ Count' = 3
    BY <1>1, <1>5 DEF Consumed
  <2>2. NameAt(values[3], 3)'
    BY <2>1 DEF NameAt
  <2>3. Consumed'
    BY <1>4, <2>1 DEF Consumed
  <2>4. FieldsInPlace'
    BY <1>3, <2>1, <2>2 DEF FieldsInPlace
  <2>5. QED
    BY <2>3, <2>4
<1>6. CASE Count = 3
  <2>1. /\ offset = 3 + Len(values[3]) /\ values'[3] = values[3] /\ values'[4] = name
        /\ Count' = 4
    BY <1>1, <1>6 DEF Consumed
  <2>2. NameAt(values[3], 3)
    BY <1>6 DEF FieldsInPlace
  <2>3. Len(values[3]) \in Nat
    BY <2>2 DEF NameAt
  <2>4. NameAt(values[3], 3)'
    BY <2>1, <2>2 DEF NameAt
  <2>5. offset + 1 = 4 + Len(values'[3])
    BY <2>1, <2>3
  <2>6. NameAt(values[4], 4 + Len(values[3]))'
    BY <2>1, <2>5 DEF NameAt
  <2>7. Skipped' = Len(values[3]) + Len(name)
    BY <2>1 DEF Skipped
  <2>8. offset' = Count' + Skipped'
    <3> DEFINE a == Len(values[3])
               b == Len(name)
    <3>1. /\ a \in Nat /\ b \in Nat /\ Skipped' = a + b
          /\ offset = 3 + a /\ offset' = offset + (b + 1) /\ Count' = 4
      BY <1>4, <2>1, <2>3, <2>7
    <3> HIDE DEF a, b
    <3>2. QED
      BY ONLY <3>1
  <2>9. Consumed'
    BY ONLY <2>1, <2>8 DEF Consumed
  <2>10. FieldsInPlace'
    BY <1>3, <2>1, <2>4, <2>6 DEF FieldsInPlace
  <2>11. QED
    BY <2>9, <2>10
<1>7. QED
  BY <1>5, <1>6

(* A number is refused, or taken.                                               *)
LEMMA NumberStep ==
  ASSUME IInv, Count \in 0..7, result = "reading", ReadNumber, UNCHANGED <<signed, bytes, now>>
  PROVE  IInv'
<1>1. Count \notin {2, 3} /\ (Field = "version" <=> Count = 0)
  BY FieldKinds DEF ReadNumber
<1>2. bytes \in Seq(Nat) /\ offset \in 0..Len(bytes) /\ values \in Seq(Value)
  BY DEF IInv, TypeOK
<1>3. CASE Malformed
  <2>1. /\ UNCHANGED <<signed, bytes, now, offset, values>>
        /\ result' = "admission_credential_malformed"
    BY <1>3 DEF Malformed
  <2>2. QED
    BY <2>1 DEF IInv, TypeOK, Count, Consumed, Skipped, FieldsInPlace, NameAt, Finished
<1>4. CASE ~Malformed
  <2> DEFINE v == bytes[offset + 1]
  <2>1. Len(bytes) - offset >= 1 /\ Take(v, 1)
    <3>1. ~(Remaining < 1) /\ Take(v, 1)
      BY <1>4 DEF ReadNumber
    <3>2. Remaining \in Int
      BY <1>2 DEF Remaining
    <3>3. QED
      BY <1>2, <3>1, <3>2 DEF Remaining
  <2>2. Legal(v) /\ values' = Append(values, v) /\ offset' = offset + 1 /\ result' = "reading"
    BY <1>4, <2>1 DEF Take
  <2>3. v \in Nat
    BY <1>2, <2>1
  <2>4. Grown(v)
    <3>1. v \in Value
      BY <2>3 DEF Value
    <3>2. QED
      BY ONLY <3>1, <1>2, <2>2, Appended
  <2>5. TypeOK'
    <3>1. offset' \in 0..Len(bytes)
      BY <1>2, <2>1, <2>2
    <3>2. QED
      BY <2>4, <3>1, TypeStep DEF IInv
  <2>6. Consumed' /\ FieldsInPlace'
    <3>1. Count \in {0, 1, 4, 5, 6, 7}
      BY <1>1
    <3>2. Count = 0 => v = 1
      BY <1>1, <2>2 DEF Legal
    <3>3. offset \in Nat
      BY <1>2
    <3>4. QED
      BY <2>2, <2>4, <3>1, <3>2, <3>3, NumberTaken DEF IInv
  <2>7. QED
    BY <2>2, <2>5, <2>6 DEF IInv, Finished
<1>5. QED
  BY <1>3, <1>4

(* A name is refused, or taken; the slice is never outside the buffer.          *)
LEMMA NameStep ==
  ASSUME IInv, Count \in 0..7, result = "reading", ReadAscii, UNCHANGED <<signed, bytes, now>>
  PROVE  IInv'
<1>1. Count \in {2, 3}
  BY FieldKinds DEF ReadAscii
<1>2. bytes \in Seq(Nat) /\ offset \in 0..Len(bytes) /\ values \in Seq(Value)
  BY DEF IInv, TypeOK
<1>3. CASE Malformed
  <2>1. /\ UNCHANGED <<signed, bytes, now, offset, values>>
        /\ result' = "admission_credential_malformed"
    BY <1>3 DEF Malformed
  <2>2. QED
    BY <2>1 DEF IInv, TypeOK, Count, Consumed, Skipped, FieldsInPlace, NameAt, Finished
<1>4. CASE ~Malformed
  <2> DEFINE n == bytes[offset + 1]
             name == SubSeq(bytes, offset + 2, offset + 1 + n)
  <2>1. Len(bytes) - offset >= 1 /\ n \in Nat /\ n <= Len(bytes) - offset - 1
    <3>1. Remaining >= 1 /\ n <= Remaining - 1
      BY <1>4 DEF ReadAscii, AsciiFits
    <3>2. Remaining = Len(bytes) - offset
      BY DEF Remaining
    <3>3. offset + 1 \in 1..Len(bytes)
      BY <1>2, <3>1, <3>2
    <3>4. n \in Nat
      BY <1>2, <3>3
    <3>5. QED
      BY <3>1, <3>2, <3>4
  <2>2. Take(name, n + 1)
    <3>1. AsciiFits
      BY <1>4 DEF ReadAscii
    <3>2. QED
      BY <1>4, <3>1 DEF ReadAscii
  <2>3. values' = Append(values, name) /\ offset' = offset + (n + 1) /\ result' = "reading"
    BY <1>4, <2>2 DEF Take
  <2>4. /\ name \in Seq(Nat) /\ Len(name) = n /\ bytes[offset + 1] = n
        /\ \A i \in 1..n : name[i] = bytes[offset + 1 + i]
    <3>1. bytes[offset + 1] = n /\ name = SubSeq(bytes, offset + 2, offset + 1 + n)
      OBVIOUS
    <3> HIDE DEF n, name
    <3>2. offset \in Nat /\ offset + 1 + n <= Len(bytes)
      BY <1>2, <2>1
    <3> DEFINE from == offset + 2
               to == offset + 1 + n
    <3>3. from \in Int /\ to \in Int /\ to - from + 1 = n
      BY <2>1, <3>2
    <3>4. ASSUME NEW i \in from..to PROVE bytes[i] \in Nat
      <4>1. i \in 1..Len(bytes)
        BY <2>1, <3>2
      <4>2. QED
        BY <1>2, <4>1
    <3>5. name = SubSeq(bytes, from, to)
      BY <3>1
    <3> HIDE DEF from, to
    <3>6. /\ name \in Seq(Nat)
          /\ Len(name) = IF from <= to THEN to - from + 1 ELSE 0
          /\ \A i \in 1..(to - from + 1) : name[i] = bytes[from + i - 1]
      BY ONLY <3>3, <3>4, <3>5, SubSeqProperties
    <3>7. Len(name) = n
      BY <2>1, <3>3, <3>6
    <3>8. ASSUME NEW i \in 1..n PROVE name[i] = bytes[offset + 1 + i]
      <4>1. from + i - 1 = offset + 1 + i
        BY <2>1, <3>2 DEF from
      <4>2. QED
        BY <3>3, <3>6, <4>1
    <3>9. QED
      BY <3>1, <3>6, <3>7, <3>8
  <2> HIDE DEF n, name
  <2>5. NameAt(name, offset + 1)
    BY <2>4 DEF NameAt
  <2>6. Grown(name)
    <3>1. name \in Value
      BY <2>4 DEF Value
    <3>2. QED
      BY ONLY <3>1, <1>2, <2>3, Appended
  <2>7. TypeOK'
    <3>1. offset' \in 0..Len(bytes)
      BY <1>2, <2>1, <2>3
    <3>2. QED
      BY <2>6, <3>1, TypeStep DEF IInv
  <2>8. Consumed' /\ FieldsInPlace'
    <3>1. offset \in Nat /\ offset' = offset + (Len(name) + 1)
      BY <1>2, <2>3, <2>4
    <3>2. QED
      BY <1>1, <2>5, <2>6, <3>1, NameTaken DEF IInv
  <2>9. QED
    BY <2>3, <2>7, <2>8 DEF IInv, Finished
<1>5. QED
  BY <1>3, <1>4

(* The verdict is given when nothing remains, or it is malformed.               *)
LEMMA VerifyStep ==
  ASSUME IInv, Verify
  PROVE  IInv'
<1>1. UNCHANGED <<signed, bytes, offset, values, now>> /\ result' = Verdict
  BY DEF Verify
<1>3. Verdict # "admission_credential_malformed" => Remaining = 0
  BY DEF Verdict, NothingRemains
<1>4. Count = 8
  BY DEF Verify, Count, Layout
<1>5. Finished'
  <2>1. Remaining = 0 => offset = Len(bytes)
    BY DEF Remaining, IInv, TypeOK
  <2>2. Count' = 8 /\ Len(bytes') = Len(bytes) /\ offset' = offset
    BY <1>1, <1>4 DEF Count
  <2>3. QED
    BY <1>1, <1>3, <2>1, <2>2 DEF Finished
<1>7. TypeOK' /\ Consumed' /\ FieldsInPlace'
  BY <1>1 DEF IInv, TypeOK, Count, Consumed, Skipped, FieldsInPlace, NameAt
<1>8. QED
  BY <1>5, <1>7 DEF IInv

(* Every step preserves the invariant.                                          *)
LEMMA InvStep == IInv /\ [Next]_vars => IInv'
<1> SUFFICES ASSUME IInv, [Next]_vars PROVE IInv'
  OBVIOUS
<1>1. CASE Read
  <2>1. result = "reading" /\ UNCHANGED <<signed, bytes, now>> /\ (ReadNumber \/ ReadAscii)
    BY <1>1 DEF Read
  <2>2. Count \in 0..7
    <3>1. Len(Layout) = 8
      BY DEF Layout
    <3>2. Count < 8
      BY ONLY <1>1, <3>1 DEF Read, Count
    <3>3. Count \in 0..8
      BY DEF IInv, TypeOK
    <3>4. QED
      BY ONLY <3>2, <3>3
  <2>3. QED
    BY <2>1, <2>2, NumberStep, NameStep
<1>2. CASE Verify
  BY <1>2, VerifyStep
<1>3. CASE UNCHANGED vars
  BY <1>3 DEF vars, IInv, TypeOK, Count, Consumed, Skipped, FieldsInPlace, NameAt, Finished
<1>4. QED
  BY <1>1, <1>2, <1>3 DEF Next

(* The reader never consumes more than there is, and every field it read stands *)
(* where the writer puts it (LumioBinReader, TryDecode).                        *)
THEOREM Inductive == Spec => []IInv
  BY InvInit, InvStep, PTL DEF Spec

(* When all fields are read, each of them stands where Encode puts it.           *)
LEMMA AllInPlace ==
  ASSUME IInv, Count = 8, NEW a, NEW b, a = Len(values[3]), b = Len(values[4])
  PROVE  /\ a \in Nat /\ b \in Nat /\ offset = 8 + a + b
         /\ values[3] \in Seq(Nat) /\ values[4] \in Seq(Nat)
         /\ bytes[1] = 1 /\ bytes[2] = values[2]
         /\ bytes[3] = a /\ \A i \in 1..a : bytes[3 + i] = values[3][i]
         /\ bytes[4 + a] = b /\ \A i \in 1..b : bytes[4 + a + i] = values[4][i]
         /\ bytes[5 + a + b] = values[5] /\ bytes[6 + a + b] = values[6]
         /\ bytes[7 + a + b] = values[7] /\ bytes[8 + a + b] = values[8]
<1>1. NameAt(values[3], 3) /\ NameAt(values[4], 4 + a)
  BY DEF IInv, FieldsInPlace
<1>2. a \in Nat /\ b \in Nat /\ values[3] \in Seq(Nat) /\ values[4] \in Seq(Nat)
  BY <1>1 DEF NameAt
<1>3. Skipped = a + b
  BY DEF Skipped
<1>4. offset = 8 + (a + b)
  BY <1>3 DEF IInv, Consumed
<1>5. bytes[1] = 1 /\ bytes[2] = values[2]
  BY DEF IInv, FieldsInPlace
<1>6. /\ bytes[3] = a /\ \A i \in 1..a : bytes[3 + i] = values[3][i]
      /\ bytes[4 + a] = b /\ \A i \in 1..b : bytes[4 + a + i] = values[4][i]
  BY <1>1 DEF NameAt
<1>7. /\ bytes[5 + Skipped] = values[5] /\ bytes[6 + Skipped] = values[6]
      /\ bytes[7 + Skipped] = values[7] /\ bytes[8 + Skipped] = values[8]
  BY ONLY IInv, Count = 8 DEF IInv, FieldsInPlace
<1>8. /\ bytes[5 + (a + b)] = values[5] /\ bytes[6 + (a + b)] = values[6]
      /\ bytes[7 + (a + b)] = values[7] /\ bytes[8 + (a + b)] = values[8]
  BY ONLY <1>3, <1>7
<1>9. /\ 5 + (a + b) = 5 + a + b /\ 6 + (a + b) = 6 + a + b
      /\ 7 + (a + b) = 7 + a + b /\ 8 + (a + b) = 8 + a + b
  BY ONLY <1>2
<1>10. QED
  BY <1>2, <1>4, <1>5, <1>6, <1>8, <1>9

(* Two wires that agree in every field are the same.                            *)
LEMMA SameWire ==
  ASSUME NEW s \in Seq(Nat), NEW t \in Seq(Nat), NEW a \in Nat, NEW b \in Nat,
         Len(s) = 8 + a + b, Len(t) = 8 + a + b,
         s[1] = t[1], s[2] = t[2], s[3] = t[3],
         \A i \in 1..a : s[3 + i] = t[3 + i],
         s[4 + a] = t[4 + a],
         \A i \in 1..b : s[4 + a + i] = t[4 + a + i],
         s[5 + a + b] = t[5 + a + b], s[6 + a + b] = t[6 + a + b],
         s[7 + a + b] = t[7 + a + b], s[8 + a + b] = t[8 + a + b]
  PROVE  s = t
<1>1. ASSUME NEW i \in 1..(8 + a + b) PROVE s[i] = t[i]
  <2>1. CASE i \in 1..3
    <3>1. i = 1 \/ i = 2 \/ i = 3
      BY <2>1
    <3>2. QED
      BY ONLY <3>1, s[1] = t[1], s[2] = t[2], s[3] = t[3]
  <2>2. CASE i \in 4..(3 + a)
    <3>1. i - 3 \in 1..a /\ 3 + (i - 3) = i
      BY <2>2
    <3>2. s[3 + (i - 3)] = t[3 + (i - 3)]
      BY ONLY <3>1, \A j \in 1..a : s[3 + j] = t[3 + j]
    <3>3. QED
      BY <3>1, <3>2
  <2>3. CASE i = 4 + a
    BY <2>3
  <2>4. CASE i \in (5 + a)..(4 + a + b)
    <3>1. i - (4 + a) \in 1..b /\ 4 + a + (i - (4 + a)) = i
      BY <2>4
    <3>2. s[4 + a + (i - (4 + a))] = t[4 + a + (i - (4 + a))]
      BY ONLY <3>1, \A j \in 1..b : s[4 + a + j] = t[4 + a + j]
    <3>3. QED
      BY <3>1, <3>2
  <2>5. CASE i = 5 + a + b \/ i = 6 + a + b \/ i = 7 + a + b \/ i = 8 + a + b
    BY <2>5
  <2>6. QED
    BY <2>1, <2>2, <2>3, <2>4, <2>5
<1>2. QED
  BY <1>1, SeqEqual

(* Bytes that were read to the end are the encoding of what was read.           *)
LEMMA CanonicalInv == IInv => DecodedIsEncoded
<1> SUFFICES ASSUME IInv, result \notin {"reading", "admission_credential_malformed"}
             PROVE  bytes = Encode(Decoded, bytes[Len(bytes)])
  BY DEF DecodedIsEncoded
<1> DEFINE a == Len(values[3])
           b == Len(values[4])
<1>1. Count = 8 /\ offset = Len(bytes) /\ bytes \in Seq(Nat)
  BY DEF IInv, Finished, TypeOK
<1>2. /\ a \in Nat /\ b \in Nat /\ offset = 8 + a + b
      /\ values[3] \in Seq(Nat) /\ values[4] \in Seq(Nat)
      /\ bytes[1] = 1 /\ bytes[2] = values[2]
      /\ bytes[3] = a /\ \A i \in 1..a : bytes[3 + i] = values[3][i]
      /\ bytes[4 + a] = b /\ \A i \in 1..b : bytes[4 + a + i] = values[4][i]
      /\ bytes[5 + a + b] = values[5] /\ bytes[6 + a + b] = values[6]
      /\ bytes[7 + a + b] = values[7] /\ bytes[8 + a + b] = values[8]
  BY <1>1, AllInPlace
<1> DEFINE d == Decoded
           n == values[8]
<1>3. /\ d.keyId = values[2] /\ d.account = values[3] /\ d.login = values[4]
      /\ d.bot = values[5] /\ d.issued = values[6] /\ d.expires = values[7]
      /\ n = values[8]
  BY DEF Decoded
<1>4. Len(d.account) = a /\ Len(d.login) = b
  BY <1>3
<1> HIDE DEF a, b, d, n
<1>5. ASSUME NEW i \in 1..(8 + a + b) PROVE bytes[i] \in Nat
  <2>1. i \in 1..Len(bytes)
    BY <1>1, <1>2
  <2>2. QED
    BY ONLY <1>1, <2>1, ElementOfSeq
<1>6. /\ values[2] \in Nat /\ values[5] \in Nat /\ values[6] \in Nat /\ values[7] \in Nat
      /\ values[8] \in Nat
  <2>1. /\ 2 \in 1..(8 + a + b) /\ 5 + a + b \in 1..(8 + a + b) /\ 6 + a + b \in 1..(8 + a + b)
        /\ 7 + a + b \in 1..(8 + a + b) /\ 8 + a + b \in 1..(8 + a + b)
    BY <1>2
  <2>2. /\ bytes[2] \in Nat /\ bytes[5 + a + b] \in Nat /\ bytes[6 + a + b] \in Nat
        /\ bytes[7 + a + b] \in Nat /\ bytes[8 + a + b] \in Nat
    BY ONLY <2>1, <1>5
  <2>3. QED
    BY <1>2, <2>2
<1>7. /\ Encode(d, n) \in Seq(Nat)
      /\ Len(Encode(d, n)) = 8 + a + b
      /\ Encode(d, n)[1] = 1 /\ Encode(d, n)[2] = d.keyId
      /\ Encode(d, n)[3] = a
      /\ \A i \in 1..a : Encode(d, n)[3 + i] = d.account[i]
      /\ Encode(d, n)[4 + a] = b
      /\ \A i \in 1..b : Encode(d, n)[4 + a + i] = d.login[i]
      /\ Encode(d, n)[5 + a + b] = d.bot /\ Encode(d, n)[6 + a + b] = d.issued
      /\ Encode(d, n)[7 + a + b] = d.expires /\ Encode(d, n)[8 + a + b] = n
  <2>1. /\ d.keyId \in Nat /\ d.bot \in Nat /\ d.issued \in Nat /\ d.expires \in Nat
        /\ n \in Nat /\ d.account \in Seq(Nat) /\ d.login \in Seq(Nat)
    BY <1>2, <1>3, <1>6
  <2>2. QED
    <3>1. WireOf(Encode(d, n), d, n, a, b)
      BY ONLY <2>1, <1>2, <1>4, EncodePositions
    <3>2. QED
      BY ONLY <3>1 DEF WireOf
<1>8. bytes = Encode(d, n)
  <2> DEFINE e == Encode(d, n)
  <2> HIDE DEF e
  <2>1. /\ e \in Seq(Nat) /\ Len(e) = 8 + a + b /\ Len(bytes) = 8 + a + b
        /\ bytes[1] = e[1] /\ bytes[2] = e[2] /\ bytes[3] = e[3] /\ bytes[4 + a] = e[4 + a]
        /\ bytes[5 + a + b] = e[5 + a + b] /\ bytes[6 + a + b] = e[6 + a + b]
        /\ bytes[7 + a + b] = e[7 + a + b] /\ bytes[8 + a + b] = e[8 + a + b]
    BY <1>1, <1>2, <1>3, <1>7 DEF e
  <2>2. ASSUME NEW i \in 1..a PROVE bytes[3 + i] = e[3 + i]
    BY <1>2, <1>3, <1>7 DEF e
  <2>3. ASSUME NEW i \in 1..b PROVE bytes[4 + a + i] = e[4 + a + i]
    BY <1>2, <1>3, <1>7 DEF e
  <2>4. bytes = e
    BY <1>1, <1>2, <2>1, <2>2, <2>3, SameWire, ZenonT(60)
  <2>5. QED
    BY <2>4 DEF e
<1>9. bytes[Len(bytes)] = n
  <2>1. Len(bytes) = 8 + a + b
    BY <1>1, <1>2
  <2>2. QED
    BY <1>2, <1>3, <2>1
<1>10. QED
  BY <1>8, <1>9 DEF d

(* Bytes that were read to the end are laid out as the writer lays out what was *)
(* read (TryDecode), for names of every length: two wires with the same fields  *)
(* differ in nothing but the nonce.                                             *)
THEOREM Canonical == Spec => []DecodedIsEncoded
  BY CanonicalInv, Inductive, PTL

(* The wire arrived as it was issued.                                           *)
AsIssued == bytes = Encode(signed.payload, signed.nonce)

(* And in time, for admission and from whom it should be.                       *)
Intact ==
  LET p == signed.payload
  IN /\ AsIssued
     /\ signed.domain = "account-admission" /\ p.keyId = Expected
     /\ now <= p.expires /\ ~(IsBotNamespace(p.login) /\ p.bot = 0)

(* The fields of a wire that arrived as issued are where Encode puts them.      *)
LEMMA IssuedPositions ==
  ASSUME IInv, AsIssued, NEW p, p = signed.payload, NEW n, n = signed.nonce
  PROVE  /\ Len(p.account) \in Nat /\ Len(p.login) \in Nat
         /\ WireOf(bytes, p, n, Len(p.account), Len(p.login))
<1>1. p \in Payload /\ n \in Nat /\ bytes = Encode(p, n)
  BY DEF IInv, TypeOK, AsIssued, Nonce
<1>2. /\ p.keyId \in Nat /\ p.bot \in Nat /\ p.issued \in Nat /\ p.expires \in Nat
      /\ p.account \in Seq(Nat) /\ p.login \in Seq(Nat)
  BY <1>1, PayloadType
<1> DEFINE a == Len(p.account)
           b == Len(p.login)
<1>3. a \in Nat /\ b \in Nat /\ Len(p.account) = a /\ Len(p.login) = b
  BY <1>2
<1> HIDE DEF a, b
<1>4. WireOf(Encode(p, n), p, n, a, b)
  BY ONLY <1>1, <1>2, <1>3, EncodePositions
<1>5. WireOf(bytes, p, n, a, b)
  BY ONLY <1>1, <1>4
<1>6. QED
  BY <1>3, <1>5 DEF a, b

(* How far the reader has come in such a wire.                                  *)
LEMMA IssuedOffset ==
  ASSUME IInv, AsIssued, NEW p, p = signed.payload, NEW a, a = Len(p.account), NEW b, b = Len(p.login)
  PROVE  /\ Count <= 2 => offset = Count
         /\ Count = 3 => offset = 3 + a
         /\ Count \in 4..8 => offset = Count + a + b /\ Len(values[3]) = a /\ Len(values[4]) = b
<1>1. /\ a \in Nat /\ b \in Nat /\ bytes[3] = a /\ bytes[4 + a] = b
  <2>1. a \in Nat /\ b \in Nat /\ WireOf(bytes, p, signed.nonce, a, b)
    BY IssuedPositions
  <2>2. QED
    BY ONLY <2>1 DEF WireOf
<1>2. Count <= 2 => offset = Count
  BY DEF IInv, Consumed
<1>3. Count >= 3 => Len(values[3]) = a
  BY <1>1 DEF IInv, FieldsInPlace, NameAt
<1>4. CASE Count = 3
  <2>1. offset = 3 + Len(values[3])
    BY <1>4 DEF IInv, Consumed
  <2>2. Len(values[3]) = a
    BY <1>3, <1>4
  <2>3. QED
    BY ONLY <1>2, <1>4, <2>1, <2>2
<1>5. CASE Count \in 4..8
  <2>1. NameAt(values[4], 4 + Len(values[3])) /\ Len(values[3]) = a
    BY <1>3, <1>5 DEF IInv, FieldsInPlace
  <2>2. Len(values[4]) = b
    BY ONLY <1>1, <2>1 DEF NameAt
  <2>3. Skipped = a + b
    BY <2>1, <2>2 DEF Skipped
  <2>4. offset = Count + Skipped
    BY <1>5 DEF IInv, Consumed
  <2>5. offset = Count + a + b
    BY ONLY <1>1, <1>5, <2>3, <2>4
  <2>6. QED
    BY ONLY <1>5, <2>1, <2>2, <2>5
<1>6. QED
  BY <1>2, <1>4, <1>5

(* A wire that arrived as issued is never refused while it is read.             *)
LEMMA IssuedRead ==
  ASSUME IInv, AsIssued, Count \in 0..7, result = "reading", ReadNumber \/ ReadAscii
  PROVE  result' = "reading"
<1> DEFINE p == signed.payload
           a == Len(p.account)
           b == Len(p.login)
<1>1. /\ a \in Nat /\ b \in Nat /\ Len(bytes) = 8 + a + b
      /\ bytes[1] = 1 /\ bytes[2] = p.keyId
      /\ bytes[3] = a /\ \A i \in 1..a : bytes[3 + i] = p.account[i]
      /\ bytes[4 + a] = b /\ \A i \in 1..b : bytes[4 + a + i] = p.login[i]
      /\ bytes[5 + a + b] = p.bot /\ bytes[7 + a + b] = p.expires
  <2>1. a \in Nat /\ b \in Nat /\ WireOf(bytes, p, signed.nonce, a, b)
    BY IssuedPositions
  <2> HIDE DEF p, a, b
  <2>2. QED
    BY ONLY <2>1 DEF WireOf
<1>2. /\ Count <= 2 => offset = Count
      /\ Count = 3 => offset = 3 + a
      /\ Count \in 4..8 => offset = Count + a + b
  BY IssuedOffset
<1>3. /\ p.bot \in {0, 1} /\ \A i \in 1..a : p.account[i] <= 127
      /\ \A i \in 1..b : p.login[i] <= 127
  <2>1. p \in Payload
    BY DEF IInv, TypeOK
  <2>2. QED
    BY <2>1, PayloadType
<1> HIDE DEF p, a, b
<1>4. /\ Field \in {"account", "login"} <=> Count \in {2, 3}
      /\ Field = "version" <=> Count = 0
      /\ Field = "bot" <=> Count = 4
  BY FieldKinds
<1>5. CASE ReadNumber
  <2>1. Count \in {0, 1, 4, 5, 6, 7}
    BY <1>4, <1>5 DEF ReadNumber
  <2>2. ~(Remaining < 1)
    <3>1. Len(bytes) - offset >= 1 /\ Len(bytes) - offset \in Int
      BY <1>1, <1>2, <2>1
    <3>2. QED
      BY <3>1 DEF Remaining
  <2>3. Count = 0 => bytes[offset + 1] = 1
    BY <1>1, <1>2
  <2>4. Count = 4 => bytes[offset + 1] \in {0, 1}
    <3>1. Count = 4 => offset + 1 = 5 + a + b
      BY <1>1, <1>2
    <3>2. QED
      BY ONLY <1>1, <1>3, <3>1
  <2>5. Legal(bytes[offset + 1])
    BY <1>4, <2>3, <2>4 DEF Legal
  <2>6. QED
    BY <1>5, <2>2, <2>5 DEF ReadNumber, Take
<1>6. CASE ReadAscii
  <2> DEFINE n == bytes[offset + 1]
             name == SubSeq(bytes, offset + 2, offset + 1 + n)
  <2>1. Count \in {2, 3}
    BY <1>4, <1>6 DEF ReadAscii
  <2>2. /\ offset \in Nat /\ n \in Nat /\ offset + 1 + n <= Len(bytes)
        /\ \A i \in 1..n : bytes[offset + 1 + i] <= 127
    <3>1. CASE Count = 2
      <4>1. offset = 2 /\ n = a
        BY <1>1, <1>2, <3>1
      <4>2. offset \in Nat /\ n \in Nat /\ offset + 1 + n <= Len(bytes)
        BY <1>1, <4>1
      <4>3. ASSUME NEW i \in 1..a PROVE bytes[offset + 1 + i] <= 127
        <5>1. offset + 1 + i = 3 + i
          BY <1>1, <4>1
        <5>2. QED
          BY ONLY <1>1, <1>3, <5>1, i \in 1..a
      <4>4. QED
        BY <4>1, <4>2, <4>3
    <3>2. CASE Count = 3
      <4>1. offset = 3 + a /\ n = b
        BY <1>1, <1>2, <3>2
      <4>2. ASSUME NEW i \in 1..b PROVE bytes[offset + 1 + i] <= 127
        <5>1. offset + 1 + i = 4 + a + i
          BY <1>1, <4>1
        <5>2. QED
          BY ONLY <1>1, <1>3, <5>1, i \in 1..b
      <4>3. QED
        BY <1>1, <4>1, <4>2
    <3>3. QED
      BY <2>1, <3>1, <3>2
  <2>3. Remaining >= 1 /\ n <= Remaining - 1
    <3>1. Len(bytes) \in Nat
      BY <1>1
    <3> HIDE DEF n
    <3>2. QED
      BY <2>2, <3>1 DEF Remaining
  <2>4. ~\E i \in DOMAIN name : name[i] > 127
    <3>1. bytes[offset + 1] = n /\ name = SubSeq(bytes, offset + 2, offset + 1 + n)
      OBVIOUS
    <3> HIDE DEF n, name
    <3> DEFINE from == offset + 2
               to == offset + 1 + n
    <3>2. from \in Int /\ to \in Int /\ to - from + 1 = n
      BY <2>2
    <3>3. bytes \in Seq(Nat)
      BY DEF IInv, TypeOK
    <3>4. ASSUME NEW i \in from..to PROVE bytes[i] \in Nat
      <4>1. i \in 1..Len(bytes)
        BY <1>1, <2>2
      <4>2. QED
        BY <3>3, <4>1
    <3>5. name = SubSeq(bytes, from, to)
      BY <3>1
    <3> HIDE DEF from, to
    <3>6. /\ name \in Seq(Nat)
          /\ Len(name) = IF from <= to THEN to - from + 1 ELSE 0
          /\ \A i \in 1..(to - from + 1) : name[i] = bytes[from + i - 1]
      BY ONLY <3>2, <3>4, <3>5, SubSeqProperties
    <3>7. Len(name) = n
      BY <2>2, <3>2, <3>6
    <3>8. ASSUME NEW i \in 1..n PROVE name[i] <= 127
      <4>1. from + i - 1 = offset + 1 + i
        BY <2>2 DEF from
      <4>2. name[i] = bytes[offset + 1 + i]
        BY <3>2, <3>6, <4>1
      <4>3. QED
        BY <2>2, <4>2
    <3>9. \A i \in 1..n : name[i] \in Nat
      BY <3>6, <3>7
    <3>10. DOMAIN name = 1..n
      BY <3>6, <3>7
    <3>11. QED
      BY <3>8, <3>9, <3>10
  <2>5. Legal(name)
    BY <1>4, <2>1 DEF Legal
  <2>6. AsciiFits
    BY <2>3 DEF AsciiFits
  <2>7. Take(name, n + 1)
    BY <1>6, <2>3, <2>4, <2>6 DEF ReadAscii
  <2>8. QED
    BY <2>5, <2>7 DEF Take
<1>7. QED
  BY <1>5, <1>6

(* Read to the end, such a wire gives the fields that were signed.              *)
LEMMA IssuedFields ==
  ASSUME IInv, AsIssued, Count = 8
  PROVE  NothingRemains /\ Decoded = signed.payload
<1> DEFINE p == signed.payload
           a == Len(p.account)
           b == Len(p.login)
<1>1. /\ a \in Nat /\ b \in Nat /\ Len(bytes) = 8 + a + b
      /\ bytes[1] = 1 /\ bytes[2] = p.keyId
      /\ bytes[3] = a /\ \A i \in 1..a : bytes[3 + i] = p.account[i]
      /\ bytes[4 + a] = b /\ \A i \in 1..b : bytes[4 + a + i] = p.login[i]
      /\ bytes[5 + a + b] = p.bot /\ bytes[6 + a + b] = p.issued
      /\ bytes[7 + a + b] = p.expires
  <2>1. a \in Nat /\ b \in Nat /\ WireOf(bytes, p, signed.nonce, a, b)
    BY IssuedPositions
  <2> HIDE DEF p, a, b
  <2>2. QED
    BY ONLY <2>1 DEF WireOf
<1>2. offset = 8 + a + b /\ Len(values[3]) = a /\ Len(values[4]) = b
  <2>1. Count \in 4..8
    OBVIOUS
  <2>2. offset = Count + a + b /\ Len(values[3]) = a /\ Len(values[4]) = b
    BY <2>1, IssuedOffset
  <2>3. QED
    BY ONLY <2>2, Count = 8
<1>3. /\ values[3] \in Seq(Nat) /\ values[4] \in Seq(Nat) /\ bytes[2] = values[2]
      /\ \A i \in 1..a : bytes[3 + i] = values[3][i]
      /\ \A i \in 1..b : bytes[4 + a + i] = values[4][i]
      /\ bytes[5 + a + b] = values[5] /\ bytes[6 + a + b] = values[6]
      /\ bytes[7 + a + b] = values[7]
  BY <1>2, AllInPlace
<1>4. p \in Payload
  BY DEF IInv, TypeOK
<1>5. /\ p.account \in Seq(Nat) /\ Len(p.account) = a
      /\ p.login \in Seq(Nat) /\ Len(p.login) = b
  BY <1>4, PayloadType
<1>6. values[4] = p.login
  <2> HIDE DEF a, b, p
  <2>1. ASSUME NEW i \in 1..b PROVE values[4][i] = p.login[i]
    BY <1>1, <1>3
  <2> DEFINE v == values[4]
             l == p.login
  <2>2. v \in Seq(Nat) /\ l \in Seq(Nat) /\ Len(v) = b /\ Len(l) = b
    BY <1>2, <1>3, <1>5
  <2>3. \A i \in 1..b : v[i] = l[i]
    BY <2>1
  <2> HIDE DEF v, l
  <2>4. v = l
    BY ONLY <2>2, <2>3, SeqEqual
  <2>5. QED
    BY <2>4 DEF v, l
<1>7. values[3] = p.account
  <2> HIDE DEF a, b, p
  <2>1. ASSUME NEW i \in 1..a PROVE values[3][i] = p.account[i]
    BY <1>1, <1>3
  <2> DEFINE v == values[3]
             l == p.account
  <2>2. v \in Seq(Nat) /\ l \in Seq(Nat) /\ Len(v) = a /\ Len(l) = a
    BY <1>2, <1>3, <1>5
  <2>3. \A i \in 1..a : v[i] = l[i]
    BY <2>1
  <2> HIDE DEF v, l
  <2>4. v = l
    BY ONLY <2>2, <2>3, SeqEqual
  <2>5. QED
    BY <2>4 DEF v, l
<1>8. /\ values[2] = p.keyId /\ values[5] = p.bot /\ values[6] = p.issued
      /\ values[7] = p.expires
  BY ONLY <1>1, <1>3
<1>9. NothingRemains
  <2> HIDE DEF a, b, p
  <2>1. QED
    BY ONLY <1>1, <1>2 DEF NothingRemains, Remaining
<1>10. Decoded = p
  <2> HIDE DEF a, b, p
  <2>1. p = [keyId |-> p.keyId, account |-> p.account, login |-> p.login, bot |-> p.bot,
             issued |-> p.issued, expires |-> p.expires]
    BY <1>4 DEF Payload
  <2>2. QED
    BY ONLY <1>6, <1>7, <1>8, <2>1 DEF Decoded
<1>11. QED
  BY <1>9, <1>10

(* A wire that arrived as issued, in time and from whom it should be is accepted. *)
LEMMA IntactVerdict ==
  ASSUME IInv, Intact, Count = 8
  PROVE  Verdict = "ok"
<1> DEFINE p == signed.payload
<1>1. /\ AsIssued /\ signed.domain = "account-admission" /\ p.keyId = Expected
      /\ now <= p.expires /\ ~(IsBotNamespace(p.login) /\ p.bot = 0)
  BY DEF Intact
<1>2. NothingRemains /\ Decoded = p
  BY <1>1, IssuedFields
<1>3. SignatureOk
  BY <1>1, <1>2 DEF SignatureOk, AsIssued
<1>4. ~Expired
  <2>1. now \in Nat /\ p.expires \in Nat
    <3>1. p \in Payload
      BY DEF IInv, TypeOK
    <3>2. now \in Time /\ \A t \in Time : t \in Nat
      BY TimeAssumption DEF IInv, TypeOK, Time
    <3>3. QED
      BY <3>1, <3>2, PayloadType
  <2> HIDE DEF p
  <2>2. QED
    BY <1>1, <1>2, <2>1 DEF Expired
<1>5. QED
  BY <1>1, <1>2, <1>3, <1>4 DEF Verdict

(* A credential that arrives as issued is accepted up to its last second, for   *)
(* names of every length (TryVerify).                                           *)
THEOREM IntactPasses == Spec => []IntactIsAccepted
<1>1. IntactIsAccepted <=> (Intact => result \in {"reading", "ok"})
  BY DEF IntactIsAccepted, Intact, AsIssued
<1>2. Init => IntactIsAccepted
  BY <1>1 DEF Init
<1>3. IInv /\ IntactIsAccepted /\ [Next]_vars => IntactIsAccepted'
  <2> SUFFICES ASSUME IInv, IntactIsAccepted, [Next]_vars PROVE IntactIsAccepted'
    OBVIOUS
  <2>1. IntactIsAccepted' <=> (Intact' => result' \in {"reading", "ok"})
    BY DEF IntactIsAccepted, Intact, AsIssued
  <2>2. UNCHANGED <<signed, bytes, now>>
    BY DEF Next, Read, Verify, vars
  <2>3. Intact' <=> Intact
    BY <2>2 DEF Intact, AsIssued
  <2>4. CASE Read /\ Intact
    <3>1. result = "reading" /\ (ReadNumber \/ ReadAscii)
      BY <2>4 DEF Read
    <3>2. Count < 8
      <4>1. Len(Layout) = 8
        BY DEF Layout
      <4>2. QED
        BY ONLY <2>4, <4>1 DEF Read, Count
    <3>3. Count \in 0..8
      BY DEF IInv, TypeOK
    <3>4. Count \in 0..7
      BY ONLY <3>2, <3>3
    <3>5. QED
      BY <2>1, <2>4, <3>1, <3>4, IssuedRead DEF Intact
  <2>5. CASE Verify /\ Intact
    <3>1. Count = 8 /\ result' = Verdict
      BY <2>5 DEF Verify, Count, Layout
    <3>2. QED
      BY <2>1, <2>5, <3>1, IntactVerdict
  <2>6. CASE UNCHANGED vars
    BY <1>1, <2>1, <2>3, <2>6 DEF vars
  <2>7. QED
    BY <2>1, <2>3, <2>4, <2>5, <2>6 DEF Next
<1>4. QED
  BY <1>2, <1>3, Inductive, PTL DEF Spec

(* What is accepted was signed for admission with exactly the fields that were  *)
(* read, and neither the expiry nor the namespace of the signed names was       *)
(* passed over, for names of every length (TryVerify).                          *)
THEOREM Genuine == Spec => []AcceptedAsSigned
<1>1. Init => AcceptedAsSigned
  BY DEF Init, AcceptedAsSigned
<1>2. IInv /\ AcceptedAsSigned /\ [Next]_vars => AcceptedAsSigned'
  <2> SUFFICES ASSUME IInv, AcceptedAsSigned, [Next]_vars, result' = "ok" PROVE AcceptedAsSigned'
    BY DEF AcceptedAsSigned
  <2>1. CASE Read
    <3>1. result = "reading" /\ result' \in {"reading", "admission_credential_malformed"}
      BY <2>1 DEF Read, ReadNumber, ReadAscii, Take, Malformed
    <3>2. QED
      BY <3>1
  <2>2. CASE Verify
    <3> DEFINE p == signed.payload
    <3>1. Count = 8 /\ Verdict = "ok" /\ UNCHANGED <<signed, bytes, offset, values, now>>
      BY <2>2 DEF Verify, Count, Layout
    <3>2. /\ SignatureOk /\ ~Expired
          /\ ~(IsBotNamespace(Decoded.login) /\ Decoded.bot = 0)
      BY <3>1 DEF Verdict
    <3>3. AsIssued /\ signed.domain = "account-admission"
      BY <3>2 DEF SignatureOk, AsIssued
    <3>4. Decoded = p
      BY <3>1, <3>3, IssuedFields
    <3>5. now \in Nat /\ p.expires \in Nat /\ p.bot \in {0, 1}
      <4>1. p \in Payload
        BY DEF IInv, TypeOK
      <4>2. now \in Time /\ \A t \in Time : t \in Nat
        BY TimeAssumption DEF IInv, TypeOK, Time
      <4>3. QED
        BY <4>1, <4>2, PayloadType
    <3>6. now <= p.expires
      <4> HIDE DEF p
      <4>1. QED
        BY <3>2, <3>4, <3>5 DEF Expired
    <3>7. IsBotNamespace(p.login) => p.bot = 1
      BY <3>2, <3>4, <3>5
    <3>8. signed' = signed /\ now' = now /\ Decoded' = Decoded
      BY <3>1 DEF Decoded
    <3>9. QED
      BY <3>3, <3>4, <3>6, <3>7, <3>8 DEF AcceptedAsSigned, IsBotNamespace
  <2>3. CASE UNCHANGED vars
    BY <2>3 DEF vars, AcceptedAsSigned, Decoded, IsBotNamespace
  <2>4. QED
    BY <2>1, <2>2, <2>3 DEF Next
<1>3. QED
  BY <1>1, <1>2, Inductive, PTL DEF Spec
=============================================================================
