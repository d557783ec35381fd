----------------------------- MODULE FormatsProofs -----------------------------
(***************************************************************************)
(* Proofs about the two formats, for every file: what encode cuts a file   *)
(* into comes out of the scripts again, and decode puts the file together  *)
(* from all of its pieces and from nothing else.  A byte is any natural    *)
(* number here, since it is only ever copied.                              *)
(***************************************************************************)
EXTENDS Formats, ProofLemmas

Bytes == Nat

-----------------------------------------------------------------------------
(* The encoder *)

LEMMA DivBounds ==
  ASSUME NEW a \in Nat, NEW d \in Nat, d > 0
  PROVE  (a \div d) \in Nat /\ a = d * (a \div d) + (a % d) /\ a % d \in 0 .. d - 1
  OBVIOUS

LEMMA DivCeilBounds ==
  ASSUME NEW a \in Nat, NEW d \in Nat, d > 0
  PROVE  /\ DivCeil(a, d) \in Nat
         /\ a <= DivCeil(a, d) * d
         /\ a = 0 => DivCeil(a, d) = 0
         /\ a > 0 => DivCeil(a, d) > 0 /\ (DivCeil(a, d) - 1) * d < a
<1> DEFINE b == a + d - 1
           q == b \div d
<1>1. b \in Nat
  OBVIOUS
<1> HIDE DEF b
<1>2. q \in Nat /\ b = d * q + (b % d) /\ b % d \in 0 .. d - 1
  BY <1>1, DivBounds
<1> QED
  BY <1>2 DEF DivCeil, b

LEMMA Sizes ==
  /\ FIRST_CHUNK_MAX_DATA \in Nat /\ FIRST_CHUNK_MAX_DATA >= 1
  /\ MAX_DATA_PER_CHUNK \in Nat /\ MAX_DATA_PER_CHUNK >= 1
  /\ FIRST_CHUNK_MAX_DATA + 7 <= 255 /\ MAX_DATA_PER_CHUNK + 5 <= 255
  /\ MIN_LAST_CHUNK_SIZE \in Nat /\ MIN_LAST_CHUNK_SIZE <= MAX_DATA_PER_CHUNK
  BY CodecAssumption DEF FIRST_CHUNK_MAX_DATA, MAX_DATA_PER_CHUNK,
       FIRST_CHUNK_METADATA_SIZE, METADATA_SIZE

(* A file that encode takes, and the number of its chunks. *)
Fits(file) == file \in Seq(Bytes) /\ ~TooLarge(Len(file))
Count(file) == ChunksNeeded(Len(file))

(* The number of bytes in the first i chunks. *)
UpTo(file, i) == Least(FIRST_CHUNK_MAX_DATA + (i - 1) * MAX_DATA_PER_CHUNK, Len(file))

LEMMA CountBounds ==
  ASSUME NEW file, Fits(file)
  PROVE  /\ Len(file) \in Nat
         /\ Count(file) \in 1 .. 255
         /\ Len(file) <= FIRST_CHUNK_MAX_DATA + (Count(file) - 1) * MAX_DATA_PER_CHUNK
         /\ Count(file) > 1 =>
              FIRST_CHUNK_MAX_DATA + (Count(file) - 2) * MAX_DATA_PER_CHUNK < Len(file)
<1> DEFINE L == Len(file)
           F == FIRST_CHUNK_MAX_DATA
           D == MAX_DATA_PER_CHUNK
           rest == L - Least(F, L)
           q == DivCeil(rest, D)
<1>1. L \in Nat /\ F \in Nat /\ D \in Nat /\ D > 0
  BY Sizes DEF Fits
<1>2. Count(file) <= 255 /\ Count(file) = 1 + q
  <2>1. ~(ChunksNeeded(L) > 255)
    BY DEF Fits, TooLarge
  <2>2. ChunksNeeded(L) = 1 + q
    BY DEF ChunksNeeded
  <2> HIDE DEF q
  <2>3. q \in Nat
    <3>1. rest \in Nat
      BY <1>1 DEF Least
    <3> HIDE DEF rest, D
    <3> QED
      BY <1>1, <3>1, DivCeilBounds DEF q
  <2> QED
    BY <1>1, <2>1, <2>2, <2>3 DEF Count
<1> HIDE DEF L, F, D
<1>3. /\ rest \in Nat
      /\ rest = 0 => L <= F
      /\ rest > 0 => L = F + rest
      /\ L <= F + rest
  BY <1>1 DEF Least
<1> HIDE DEF rest
<1>4. /\ q \in Nat /\ rest <= q * D /\ (rest = 0 => q = 0)
      /\ rest > 0 => q > 0 /\ (q - 1) * D < rest
  BY <1>1, <1>3, DivCeilBounds
<1> HIDE DEF q
<1>5. Count(file) \in 1 .. 255 /\ Count(file) - 1 = q /\ Count(file) - 2 = q - 1
  BY <1>2, <1>4
<1>6. q * D \in Int /\ (q - 1) * D \in Int
  BY <1>1, <1>4
<1>7. L <= F + q * D
  BY <1>1, <1>3, <1>4, <1>6
<1>8. q > 0 => F + (q - 1) * D < L
  BY <1>1, <1>3, <1>4, <1>6
<1>9. L <= F + (Count(file) - 1) * D /\ (Count(file) > 1 => F + (Count(file) - 2) * D < L)
  BY <1>5, <1>7, <1>8
<1>10. Len(file) \in Nat /\ Count(file) \in 1 .. 255
  BY <1>1, <1>2, <1>5 DEF L
<1>11. Len(file) <= FIRST_CHUNK_MAX_DATA + (Count(file) - 1) * MAX_DATA_PER_CHUNK
  BY <1>9, Zenon DEF L, F, D
<1>12. Count(file) > 1 =>
         FIRST_CHUNK_MAX_DATA + (Count(file) - 2) * MAX_DATA_PER_CHUNK < Len(file)
  BY <1>9, Zenon DEF L, F, D
<1> QED
  BY <1>10, <1>11, <1>12, Zenon

(* The first i chunks hold the first UpTo(file, i) bytes. *)
LEMMA Slices ==
  ASSUME NEW file, Fits(file), NEW i \in 1 .. Count(file)
  PROVE  /\ Slice(file, i) \in Seq(Bytes)
         /\ Len(Slice(file, i)) <= IF i = 1 THEN FIRST_CHUNK_MAX_DATA ELSE MAX_DATA_PER_CHUNK
         /\ Slice(file, i) = SubSeq(file, IF i = 1 THEN 1 ELSE UpTo(file, i - 1) + 1,
                                          UpTo(file, i))
         /\ UpTo(file, i) \in 0 .. Len(file)
         /\ i > 1 => UpTo(file, i - 1) \in 0 .. UpTo(file, i)
         /\ i = Count(file) => UpTo(file, i) = Len(file)
<1> DEFINE L == Len(file)
           F == FIRST_CHUNK_MAX_DATA
           D == MAX_DATA_PER_CHUNK
           n == Count(file)
<1>1. L \in Nat /\ F \in Nat /\ D \in Nat /\ D > 0 /\ n \in Nat /\ i \in 1 .. n
  <2>1. L \in Nat /\ n \in 1 .. 255
    BY CountBounds
  <2>2. F \in Nat /\ D \in Nat /\ D > 0
    BY Sizes
  <2>3. i \in 1 .. n
    OBVIOUS
  <2> HIDE DEF L, F, D, n
  <2> QED
    BY <2>1, <2>2, <2>3
<1>2. file \in Seq(Bytes)
  BY DEF Fits
<1>3. i = n => UpTo(file, i) = L
  <2>1. L <= F + (n - 1) * D
    BY CountBounds
  <2> HIDE DEF L, F, D, n
  <2>2. F + (n - 1) * D \in Int
    BY <1>1
  <2>3. i = n => Least(F + (i - 1) * D, L) = L
    BY <1>1, <2>1, <2>2 DEF Least
  <2> QED
    BY <2>3 DEF UpTo, L, F, D
<1>4. CASE i = 1
  <2>1. UpTo(file, 1) = Least(F, L)
    <3>1. (1 - 1) * D = 0
      BY <1>1
    <3> QED
      BY <1>1, <3>1 DEF UpTo
  <2>2. Slice(file, i) = SubSeq(file, 1, Least(F, L))
    BY <1>4 DEF Slice
  <2>3. Least(F, L) \in 0 .. L /\ Least(F, L) <= F
    BY <1>1 DEF Least
  <2>4. /\ SubSeq(file, 1, Least(F, L)) \in Seq(Bytes)
        /\ Len(SubSeq(file, 1, Least(F, L))) = Least(F, L)
    BY <1>2, <2>3
  <2> DEFINE end == Least(F, L)
  <2> HIDE DEF L, F, end
  <2>5. UpTo(file, i) = end /\ Slice(file, i) = SubSeq(file, 1, end)
    BY <1>4, <2>1, <2>2 DEF end
  <2>6. Slice(file, i) \in Seq(Bytes) /\ Len(Slice(file, i)) <= F /\ end \in 0 .. L
    BY <2>3, <2>4, <2>5 DEF end
  <2> QED
    BY <1>3, <1>4, <2>5, <2>6 DEF L, F
<1>5. CASE i > 1
  <2> DEFINE offset == F + (i - 2) * D
             end == Least(offset + D, L)
  <2>1. offset < L /\ offset \in Nat
    <3>1. F + (n - 2) * D < L
      BY <1>1, <1>5, CountBounds
    <3> HIDE DEF L, F, D, n
    <3>2. \A a, b, c \in Nat : a <= b => a * c <= b * c /\ a * c \in Nat /\ b * c \in Nat
      OBVIOUS
    <3>3. (i - 2) * D <= (n - 2) * D /\ (i - 2) * D \in Nat /\ (n - 2) * D \in Nat
      BY <1>1, <1>5, <3>2
    <3> QED
      BY <1>1, <3>1, <3>3
  <2>2. offset + D = F + (i - 1) * D
    <3> HIDE DEF F, D
    <3>1. \A a, d \in Int : (a - 2) * d + d = (a - 1) * d /\ (a - 2) * d \in Int
      OBVIOUS
    <3> QED
      BY <1>1, <3>1
  <2>3. UpTo(file, i) = end /\ UpTo(file, i - 1) = offset
    <3>1. UpTo(file, i) = end
      BY <2>2 DEF UpTo
    <3>2. (i - 1) - 1 = i - 2
      BY <1>1
    <3>3. UpTo(file, i - 1) = Least(offset, L)
      BY <3>2 DEF UpTo
    <3> HIDE DEF offset, L
    <3> QED
      BY <1>1, <2>1, <3>1, <3>3 DEF Least
  <2>4. Slice(file, i) = SubSeq(file, offset + 1, end)
    <3>1. i # 1
      BY <1>1, <1>5
    <3> QED
      BY <3>1, Zenon DEF Slice
  <2> HIDE DEF offset, F, D, n, L
  <2>5. end \in offset .. L /\ end - offset <= D
    BY <1>1, <2>1 DEF Least
  <2> HIDE DEF end
  <2>6. /\ SubSeq(file, offset + 1, end) \in Seq(Bytes)
        /\ Len(SubSeq(file, offset + 1, end)) = end - offset
    BY <1>1, <1>2, <2>1, <2>5 DEF L
  <2> QED
    BY <1>1, <1>3, <1>5, <2>1, <2>3, <2>4, <2>5, <2>6, SMTT(60) DEF D, n, L
<1> QED
  BY <1>1, <1>4, <1>5

LEMMA SmallRemainder ==
  ASSUME NEW a \in Nat, NEW m \in Nat, a < m
  PROVE  a % m = a
  OBVIOUS

(* Pad puts zeros after the data, if it is short. *)
LEMMA Padded ==
  ASSUME NEW data \in Seq(Bytes), NEW size \in Nat
  PROVE  \E zeros \in Seq(Bytes) :
           /\ Pad(data, size) = data \o zeros
           /\ Len(data \o zeros) = IF Len(data) < size THEN size ELSE Len(data)
<1>1. CASE Len(data) < size
  <2> DEFINE zeros == [k \in 1 .. size - Len(data) |-> 0]
  <2>1. zeros \in Seq(Bytes) /\ Len(zeros) = size - Len(data)
    BY <1>1 DEF Bytes
  <2>2. Pad(data, size) = data \o zeros
    BY <1>1 DEF Pad
  <2> HIDE DEF zeros
  <2>3. Len(data \o zeros) = size
    BY <2>1, ConcatProperties
  <2> QED
    BY <1>1, <2>1, <2>2, <2>3
<1>2. CASE ~(Len(data) < size)
  <2>1. Pad(data, size) = data
    BY <1>2 DEF Pad
  <2>2. data \o <<>> = data /\ <<>> \in Seq(Bytes)
    OBVIOUS
  <2> QED
    BY <1>2, <2>1, <2>2
<1> QED
  BY <1>1, <1>2

(* What the chunks of a file look like. *)
ChunkOf(file, i, data) ==
  [index        |-> i - 1,
   total_chunks |-> Count(file),
   file_size    |-> IF i = 1 THEN Len(file) ELSE NoSize,
   data         |-> data]

LEMMA DataOf ==
  ASSUME NEW file, NEW i, NEW d
  PROVE  ChunkOf(file, i, d).data = d
  BY DEF ChunkOf

LEMMA Chunks ==
  ASSUME NEW file, Fits(file)
  PROVE  /\ DOMAIN ChunkData(file) = 1 .. Count(file)
         /\ Len(ChunkData(file)) = Count(file)
         /\ \A i \in 1 .. Count(file) : \E zeros \in Seq(Bytes) :
              /\ ChunkData(file)[i] = ChunkOf(file, i, Slice(file, i) \o zeros)
              /\ Slice(file, i) \o zeros \in Seq(Bytes)
              /\ Len(Slice(file, i) \o zeros)
                   <= IF i = 1 THEN FIRST_CHUNK_MAX_DATA ELSE MAX_DATA_PER_CHUNK
              /\ i < Count(file) => zeros = <<>>
              /\ i > 1 /\ i = Count(file) =>
                   Len(Slice(file, i) \o zeros) >= MIN_LAST_CHUNK_SIZE
<1> DEFINE n == Count(file)
<1>1. n \in 1 .. 255 /\ Len(file) \in Nat
  BY CountBounds
<1>2. n % 256 = n /\ Len(file) % 65536 = Len(file)
  <2>1. Len(file) < 65536
    BY <1>1 DEF Fits, TooLarge
  <2>2. \A a \in Nat : a < 65536 => a % 65536 = a
    OBVIOUS
  <2>3. \A a \in 1 .. 255 : a % 256 = a
    OBVIOUS
  <2>4. Len(file) % 65536 = Len(file)
    BY <1>1, <2>1, <2>2
  <2> HIDE DEF n
  <2>5. n % 256 = n
    BY <1>1, <2>3
  <2> QED
    BY <2>4, <2>5
<1> HIDE DEF n
<1>3. ChunkData(file) =
        [i \in 1 .. n |->
           [index        |-> (i - 1) % 256,
            total_chunks |-> n % 256,
            file_size    |-> IF i = 1 THEN Len(file) % 65536 ELSE NoSize,
            data         |-> IF i > 1 /\ i = n THEN Pad(Slice(file, i), MIN_LAST_CHUNK_SIZE)
                             ELSE Slice(file, i)]]
  BY DEF ChunkData, n, Count
<1>4. DOMAIN ChunkData(file) = 1 .. n /\ Len(ChunkData(file)) = n
  BY <1>1, <1>3
<1>5. ASSUME NEW i \in 1 .. n
      PROVE  \E zeros \in Seq(Bytes) :
               /\ ChunkData(file)[i] = ChunkOf(file, i, Slice(file, i) \o zeros)
               /\ Slice(file, i) \o zeros \in Seq(Bytes)
               /\ Len(Slice(file, i) \o zeros)
                    <= IF i = 1 THEN FIRST_CHUNK_MAX_DATA ELSE MAX_DATA_PER_CHUNK
               /\ i < n => zeros = <<>>
               /\ i > 1 /\ i = n => Len(Slice(file, i) \o zeros) >= MIN_LAST_CHUNK_SIZE
  <2> DEFINE d == IF i > 1 /\ i = n THEN Pad(Slice(file, i), MIN_LAST_CHUNK_SIZE)
                  ELSE Slice(file, i)
             most == IF i = 1 THEN FIRST_CHUNK_MAX_DATA ELSE MAX_DATA_PER_CHUNK
  <2>1. Slice(file, i) \in Seq(Bytes) /\ Len(Slice(file, i)) <= most
    BY Slices DEF n
  <2>2. \E zeros \in Seq(Bytes) :
          /\ d = Slice(file, i) \o zeros
          /\ Len(Slice(file, i) \o zeros) <= most
          /\ i < n => zeros = <<>>
          /\ i > 1 /\ i = n => Len(Slice(file, i) \o zeros) >= MIN_LAST_CHUNK_SIZE
    <3>1. CASE i > 1 /\ i = n
      <4>1. PICK zeros \in Seq(Bytes) :
              /\ Pad(Slice(file, i), MIN_LAST_CHUNK_SIZE) = Slice(file, i) \o zeros
              /\ Len(Slice(file, i) \o zeros)
                   = IF Len(Slice(file, i)) < MIN_LAST_CHUNK_SIZE
                     THEN MIN_LAST_CHUNK_SIZE ELSE Len(Slice(file, i))
        BY <2>1, Sizes, Padded
      <4>2. Len(Slice(file, i) \o zeros) <= most
        BY <2>1, <3>1, <4>1, Sizes
      <4>3. Len(Slice(file, i) \o zeros) >= MIN_LAST_CHUNK_SIZE
        BY <2>1, <4>1, Sizes
      <4>4. d = Slice(file, i) \o zeros
        BY <3>1, <4>1, Zenon
      <4>5. ~(i < n)
        BY <1>1, <3>1
      <4> QED
        BY <4>2, <4>3, <4>4, <4>5, Zenon
    <3>2. CASE ~(i > 1 /\ i = n)
      <4>1. Slice(file, i) \o <<>> = Slice(file, i) /\ <<>> \in Seq(Bytes)
        BY <2>1
      <4> QED
        BY <2>1, <3>2, <4>1
    <3> QED
      BY <3>1, <3>2
  <2>3. (i - 1) % 256 = i - 1
    BY <1>1, SmallRemainder
  <2>4. ChunkData(file)[i] = ChunkOf(file, i, d)
    <3>1. i \in 1 .. n
      OBVIOUS
    <3> QED
      BY <1>2, <1>3, <2>3, <3>1 DEF ChunkOf, n
  <2> HIDE DEF d, most
  <2>5. PICK zeros \in Seq(Bytes) :
          /\ d = Slice(file, i) \o zeros
          /\ Len(Slice(file, i) \o zeros) <= most
          /\ i < n => zeros = <<>>
          /\ i > 1 /\ i = n => Len(Slice(file, i) \o zeros) >= MIN_LAST_CHUNK_SIZE
    BY <2>2
  <2>6. Slice(file, i) \o zeros \in Seq(Bytes)
    BY <2>1, <2>5, ConcatProperties
  <2> QED
    BY <2>4, <2>5, <2>6 DEF most
<1> QED
  BY <1>4, <1>5 DEF n

-----------------------------------------------------------------------------
(* The scripts *)

(* The decoder reads the payload that create_op_return_output was given. *)
LEMMA PayloadBack ==
  ASSUME NEW p \in Seq(Bytes), Len(p) <= 255
  PROVE  ExtractOpReturnData(OpReturnScript(p)) = Success(p)
<1> DEFINE n == Len(p)
           s == OpReturnScript(p)
<1>1. n \in Nat /\ n <= 255
  OBVIOUS
<1>2. CASE n < 76
  <2>1. s = <<106, n>> \o p
    <3>1. s = <<106>> \o <<n>> \o p
      BY <1>2 DEF OpReturnScript
    <3> QED
      BY <3>1
  <2>2. /\ Len(s) = n + 2 /\ s[1] = 106 /\ s[2] = n
        /\ \A k \in 1 .. n : s[k + 2] = p[k]
    BY <2>1
  <2> HIDE DEF s
  <2>3. PushLength(s) = [pos |-> 2, len |-> n]
    BY <1>1, <1>2, <2>2 DEF PushLength
  <2>4. SubSeq(s, 3, 2 + n) = p
    BY <1>1, <2>2
  <2>5. ~(Len(s) < 2 \/ s[1] # 106)
    BY <1>1, <2>2
  <2>6. PushLength(s).pos = 2 /\ PushLength(s).len = n
    BY <2>3
  <2>7. /\ ~(PushLength(s).pos + PushLength(s).len > Len(s))
        /\ SubSeq(s, PushLength(s).pos + 1, PushLength(s).pos + PushLength(s).len) = p
    BY <1>1, <2>2, <2>4, <2>6
  <2>8. ExtractOpReturnData(s) = Success(p)
    BY <2>5, <2>7, Zenon DEF ExtractOpReturnData
  <2> QED
    BY <2>8 DEF s
<1>3. CASE ~(n < 76)
  <2>1. s = <<106, 76, n>> \o p
    <3>1. n < 256
      BY <1>1
    <3>2. s = <<106>> \o <<76, n>> \o p
      BY <1>3, <3>1 DEF OpReturnScript
    <3> QED
      BY <3>2
  <2>2. /\ Len(s) = n + 3 /\ s[1] = 106 /\ s[2] = 76 /\ s[3] = n
        /\ \A k \in 1 .. n : s[k + 3] = p[k]
    BY <2>1
  <2> HIDE DEF s
  <2>3. PushLength(s) = [pos |-> 3, len |-> n]
    BY <1>1, <1>3, <2>2 DEF PushLength
  <2>4. SubSeq(s, 4, 3 + n) = p
    BY <1>1, <2>2
  <2>5. ~(Len(s) < 2 \/ s[1] # 106)
    BY <1>1, <2>2
  <2>6. PushLength(s).pos = 3 /\ PushLength(s).len = n
    BY <2>3
  <2>7. /\ ~(PushLength(s).pos + PushLength(s).len > Len(s))
        /\ SubSeq(s, PushLength(s).pos + 1, PushLength(s).pos + PushLength(s).len) = p
    BY <1>1, <2>2, <2>4, <2>6
  <2>8. ExtractOpReturnData(s) = Success(p)
    BY <2>5, <2>7, Zenon DEF ExtractOpReturnData
  <2> QED
    BY <2>8 DEF s
<1> QED
  BY <1>2, <1>3

LEMMA SizeBack ==
  ASSUME NEW size \in Nat, size < 65536
  PROVE  /\ size % 256 \in Bytes /\ size \div 256 \in Bytes
         /\ (size % 256) + 256 * (size \div 256) = size
<1>1. /\ (size \div 256) \in Nat /\ size % 256 \in 0 .. 255
      /\ size = 256 * (size \div 256) + (size % 256)
  OBVIOUS
<1>2. \A q, r \in Nat : 256 * q + r < 65536 => q <= 255
  OBVIOUS
<1> QED
  BY <1>1, <1>2 DEF Bytes

LEMMA Joined ==
  ASSUME NEW head \in Seq(Bytes), NEW d \in Seq(Bytes)
  PROVE  /\ head \o d \in Seq(Bytes)
         /\ Len(head \o d) = Len(head) + Len(d)
         /\ \A k \in 1 .. Len(head) : (head \o d)[k] = head[k]
         /\ SubSeq(head \o d, Len(head) + 1, Len(head) + Len(d)) = d
<1>1. /\ head \o d \in Seq(Bytes)
      /\ Len(head \o d) = Len(head) + Len(d)
      /\ \A k \in 1 .. Len(head) : (head \o d)[k] = head[k]
      /\ \A k \in 1 .. Len(d) : (head \o d)[k + Len(head)] = d[k]
  OBVIOUS
<1> DEFINE p == head \o d
<1> HIDE DEF p
<1>2. SubSeq(p, Len(head) + 1, Len(head) + Len(d)) = d
  BY <1>1 DEF p
<1> QED
  BY <1>1, <1>2 DEF p

LEMMA FirstThree ==
  ASSUME NEW p \in Seq(Bytes), Len(p) >= 3, p[1] = 52, p[2] = 52, p[3] = 52
  PROVE  SubSeq(p, 1, 3) = ORDIKNOT_PREFIX
<1>1. /\ SubSeq(p, 1, 3) \in Seq(Bytes) /\ Len(SubSeq(p, 1, 3)) = 3
      /\ \A k \in 1 .. 3 : SubSeq(p, 1, 3)[k] = p[k]
  OBVIOUS
<1>2. /\ ORDIKNOT_PREFIX \in Seq(Bytes) /\ Len(ORDIKNOT_PREFIX) = 3
      /\ \A k \in 1 .. 3 : ORDIKNOT_PREFIX[k] = 52
  BY DEF ORDIKNOT_PREFIX, Bytes
<1>3. \A k \in 1 .. 3 : p[k] = 52
  OBVIOUS
<1> QED
  BY <1>1, <1>2, <1>3, SeqEqual

(* A chunk that a payload has room for, and its payload. *)
Encodable(c) ==
  /\ c = [index |-> c.index, total_chunks |-> c.total_chunks,
          file_size |-> c.file_size, data |-> c.data]
  /\ c.index \in 0 .. 254 /\ c.total_chunks \in Bytes /\ c.data \in Seq(Bytes)
  /\ IF c.index = 0
     THEN /\ c.file_size \in Nat /\ c.file_size < 65536
          /\ Len(c.data) <= FIRST_CHUNK_MAX_DATA
     ELSE /\ c.file_size = NoSize
          /\ Len(c.data) <= MAX_DATA_PER_CHUNK

HeaderSize(c) == IF c.index = 0 THEN 7 ELSE 5

Frames(c, p) ==
  /\ p \in Seq(Bytes) /\ Len(p) <= 255 /\ Len(p) >= HeaderSize(c)
  /\ SubSeq(p, 1, 3) = ORDIKNOT_PREFIX
  /\ p[4] = c.index /\ p[5] = c.total_chunks
  /\ c.index = 0 => p[6] + 256 * p[7] = c.file_size
  /\ SubSeq(p, HeaderSize(c) + 1, Len(p)) = c.data

LEMMA Payload ==
  ASSUME NEW c, Encodable(c)
  PROVE  Frames(c, EncodeChunk(c))
<1> DEFINE idx  == c.index
           tot  == c.total_chunks
           size == c.file_size
           d    == c.data
           mid  == IF size = NoSize THEN <<>> ELSE LittleEndian16(size)
           p    == EncodeChunk(c)
<1>1. p = <<52, 52, 52>> \o <<idx, tot>> \o mid \o d
  BY Zenon DEF EncodeChunk, ORDIKNOT_PREFIX
<1> HIDE DEF p
<1>2. idx \in Bytes /\ {52} \subseteq Bytes /\ tot \in Bytes /\ d \in Seq(Bytes)
  <2>1. idx \in 0 .. 254 /\ tot \in Bytes /\ d \in Seq(Bytes)
    BY DEF Encodable
  <2>2. {52} \subseteq Bytes /\ 0 .. 254 \subseteq Bytes
    BY DEF Bytes
  <2> HIDE DEF idx, tot, d
  <2> QED
    BY <2>1, <2>2
<1>3. CASE idx = 0
  <2> DEFINE lo == size % 256
             hi == size \div 256
             head == <<52, 52, 52, idx, tot, lo, hi>>
  <2>1. size \in Nat /\ size < 65536 /\ Len(d) <= FIRST_CHUNK_MAX_DATA
    BY <1>3 DEF Encodable
  <2>2. lo \in Bytes /\ hi \in Bytes /\ lo + 256 * hi = size
    BY <2>1, SizeBack
  <2>3. mid = <<lo, hi>>
    BY <2>1 DEF NoSize, LittleEndian16
  <2> HIDE DEF mid, lo, hi, idx, tot, size, d
  <2>4. head = <<52, 52, 52>> \o <<idx, tot>> \o <<lo, hi>>
    OBVIOUS
  <2>5. head \in Seq(Bytes) /\ Len(head) = 7
    BY <1>2, <2>2
  <2>6. p = head \o d
    BY <1>1, <2>3, <2>4
  <2>7. head[1] = 52 /\ head[2] = 52 /\ head[3] = 52 /\ head[4] = idx /\ head[5] = tot
        /\ head[6] = lo /\ head[7] = hi
    OBVIOUS
  <2> HIDE DEF head
  <2>8. /\ p \in Seq(Bytes) /\ Len(p) = 7 + Len(d)
        /\ \A k \in 1 .. 7 : p[k] = head[k]
        /\ SubSeq(p, 7 + 1, 7 + Len(d)) = d
    <3>1. /\ head \o d \in Seq(Bytes)
          /\ Len(head \o d) = Len(head) + Len(d)
          /\ \A k \in 1 .. Len(head) : (head \o d)[k] = head[k]
          /\ SubSeq(head \o d, Len(head) + 1, Len(head) + Len(d)) = d
      BY <1>2, <2>5, Joined
    <3> QED
      BY <2>5, <2>6, <3>1, Zenon
  <2>9. Len(d) \in Nat /\ Len(p) <= 255 /\ Len(p) >= 7
    BY <1>2, <2>1, <2>8, Sizes
  <2>10. SubSeq(p, 1, 3) = ORDIKNOT_PREFIX
    BY <2>7, <2>8, <2>9, FirstThree
  <2>11. p[4] = idx /\ p[5] = tot /\ p[6] + 256 * p[7] = size
    BY <2>2, <2>7, <2>8
  <2> QED
    BY <1>3, <2>8, <2>9, <2>10, <2>11 DEF Frames, HeaderSize, idx, tot, size, d, p
<1>4. CASE idx # 0
  <2> DEFINE head == <<52, 52, 52, idx, tot>>
  <2>1. size = NoSize /\ Len(d) <= MAX_DATA_PER_CHUNK
    BY <1>4 DEF Encodable
  <2>2. mid = <<>>
    BY <2>1
  <2> HIDE DEF mid, idx, tot, size, d
  <2>3. head = <<52, 52, 52>> \o <<idx, tot>> \o <<>>
    OBVIOUS
  <2>4. head \in Seq(Bytes) /\ Len(head) = 5
    BY <1>2
  <2>5. p = head \o d
    BY <1>1, <2>2, <2>3
  <2>6. head[1] = 52 /\ head[2] = 52 /\ head[3] = 52 /\ head[4] = idx /\ head[5] = tot
    OBVIOUS
  <2> HIDE DEF head
  <2>7. /\ p \in Seq(Bytes) /\ Len(p) = 5 + Len(d)
        /\ \A k \in 1 .. 5 : p[k] = head[k]
        /\ SubSeq(p, 5 + 1, 5 + Len(d)) = d
    <3>1. /\ head \o d \in Seq(Bytes)
          /\ Len(head \o d) = Len(head) + Len(d)
          /\ \A k \in 1 .. Len(head) : (head \o d)[k] = head[k]
          /\ SubSeq(head \o d, Len(head) + 1, Len(head) + Len(d)) = d
      BY <1>2, <2>4, Joined
    <3> QED
      BY <2>4, <2>5, <3>1, Zenon
  <2>8. Len(d) \in Nat /\ Len(p) <= 255 /\ Len(p) >= 5
    BY <1>2, <2>1, <2>7, Sizes
  <2>9. SubSeq(p, 1, 3) = ORDIKNOT_PREFIX
    BY <2>6, <2>7, <2>8, FirstThree, SMTT(60)
  <2>10. p[4] = idx /\ p[5] = tot
    BY <2>6, <2>7
  <2> QED
    BY <1>4, <2>7, <2>8, <2>9, <2>10 DEF Frames, HeaderSize, idx, tot, size, d, p
<1> QED
  BY <1>3, <1>4

(* A chunk comes back from its script as it was, and the script is         *)
(* detected if the chunk is the first.                                     *)
LEMMA ChunkBack ==
  ASSUME NEW c, Encodable(c)
  PROVE  /\ ExtractChunk(OpReturnScript(EncodeChunk(c))) = c
         /\ Detect(OpReturnScript(EncodeChunk(c))) <=> c.index = 0
<1> DEFINE p == EncodeChunk(c)
           s == OpReturnScript(p)
           header == IF p[4] = 0 THEN DECODER_FIRST_CHUNK_METADATA_SIZE
                                 ELSE DECODER_METADATA_SIZE
<1>1. Frames(c, p)
  BY Payload
<1> HIDE DEF p
<1>2. ExtractOpReturnData(s) = Success(p)
  BY <1>1, PayloadBack DEF Frames
<1> HIDE DEF s
<1>3. ExtractOpReturnData(s).ok = TRUE /\ ExtractOpReturnData(s).data = p
  BY <1>2 DEF Success
<1>4. header = HeaderSize(c)
  BY <1>1 DEF Frames, HeaderSize, DECODER_FIRST_CHUNK_METADATA_SIZE, DECODER_METADATA_SIZE
<1>5. Len(p) >= 5 /\ Len(p) \in Nat
  BY <1>1 DEF Frames, HeaderSize
<1>6. ~(Len(p) < DECODER_METADATA_SIZE) /\ ~(Len(p) < header)
  BY <1>1, <1>4, <1>5 DEF DECODER_METADATA_SIZE, Frames, HeaderSize
<1>7. /\ SubSeq(p, 1, 3) = ORDIKNOT_PREFIX /\ p[4] = c.index /\ p[5] = c.total_chunks
      /\ c.index = 0 => p[6] + 256 * p[7] = c.file_size
      /\ SubSeq(p, header + 1, Len(p)) = c.data
  BY <1>1, <1>4, Zenon DEF Frames
<1>8. ExtractChunk(s) = [index |-> p[4], total_chunks |-> p[5],
                         file_size |-> IF p[4] = 0 THEN p[6] + 256 * p[7] ELSE NoSize,
                         data |-> SubSeq(p, header + 1, Len(p))]
  BY <1>3, <1>6, <1>7, Zenon DEF ExtractChunk
<1> HIDE DEF header
<1>9. (IF p[4] = 0 THEN p[6] + 256 * p[7] ELSE NoSize) = c.file_size
  BY <1>7 DEF Encodable
<1>10. ExtractChunk(s) = c
  BY <1>7, <1>8, <1>9 DEF Encodable
<1>11. Detect(s) <=> c.index = 0
  BY <1>3, <1>5, <1>7 DEF Detect
<1> QED
  BY <1>10, <1>11 DEF s, p

(* The chunks of a file that encode takes all come back. *)
LEMMA FileChunks ==
  ASSUME NEW file, Fits(file), NEW i \in 1 .. Count(file), NEW c, c = ChunkData(file)[i]
  PROVE  /\ Encodable(c)
         /\ ExtractChunk(OpReturnScript(EncodeChunk(c))) = c
         /\ Detect(OpReturnScript(EncodeChunk(c))) <=> i = 1
         /\ c.index = i - 1 /\ c.total_chunks = Count(file)
         /\ c.file_size = IF i = 1 THEN Len(file) ELSE NoSize
<1>1. Count(file) \in 1 .. 255 /\ Len(file) \in Nat /\ Len(file) < 65536
  BY CountBounds DEF Fits, TooLarge
<1>2. PICK zeros \in Seq(Bytes) :
        /\ c = ChunkOf(file, i, Slice(file, i) \o zeros)
        /\ Slice(file, i) \o zeros \in Seq(Bytes)
        /\ Len(Slice(file, i) \o zeros)
             <= IF i = 1 THEN FIRST_CHUNK_MAX_DATA ELSE MAX_DATA_PER_CHUNK
  BY Chunks
<1> DEFINE d == Slice(file, i) \o zeros
<1> HIDE DEF d
<1>3. /\ c = [index |-> i - 1, total_chunks |-> Count(file),
              file_size |-> IF i = 1 THEN Len(file) ELSE NoSize, data |-> d]
      /\ d \in Seq(Bytes)
      /\ Len(d) <= IF i = 1 THEN FIRST_CHUNK_MAX_DATA ELSE MAX_DATA_PER_CHUNK
  BY <1>2 DEF ChunkOf, d
<1>4. /\ c.index = i - 1 /\ c.total_chunks = Count(file) /\ c.data = d
      /\ c.file_size = IF i = 1 THEN Len(file) ELSE NoSize
  BY <1>3
<1>5. /\ c.index \in 0 .. 254 /\ c.total_chunks \in Bytes
      /\ c.index = 0 <=> i = 1
  <2> DEFINE n == Count(file)
  <2>1. n \in 1 .. 255 /\ i \in 1 .. n
    BY <1>1
  <2> HIDE DEF n
  <2>2. i - 1 \in 0 .. 254 /\ (i - 1 = 0 <=> i = 1) /\ n \in Bytes
    BY <2>1 DEF Bytes
  <2> QED
    BY <1>4, <2>2 DEF n
<1>6. c = [index |-> c.index, total_chunks |-> c.total_chunks,
           file_size |-> c.file_size, data |-> c.data]
  BY <1>3, <1>4
<1>7. Encodable(c)
  <2>1. CASE i = 1
    BY <1>1, <1>3, <1>4, <1>5, <1>6, <2>1 DEF Encodable
  <2>2. CASE i # 1
    BY <1>3, <1>4, <1>5, <1>6, <2>2 DEF Encodable
  <2> QED
    BY <2>1, <2>2
<1> QED
  BY <1>4, <1>5, <1>7, ChunkBack

-----------------------------------------------------------------------------
(* decode puts the chunks together *)

LEMMA PrefixBack ==
  ASSUME NEW s \in Seq(Bytes), NEW t \in Seq(Bytes)
  PROVE  Len(s \o t) >= Len(s) /\ SubSeq(s \o t, 1, Len(s)) = s
<1> DEFINE u == s \o t
<1>1. /\ u \in Seq(Bytes) /\ Len(u) = Len(s) + Len(t)
      /\ \A k \in 1 .. Len(s) : u[k] = s[k]
  OBVIOUS
<1> HIDE DEF u
<1>2. Len(u) >= Len(s) /\ SubSeq(u, 1, Len(s)) = s
  BY <1>1
<1> QED
  BY <1>2 DEF u

(* The data of the chunks, one after the other: the file, and perhaps      *)
(* zeros.                                                                  *)
LEMMA DataBack ==
  ASSUME NEW file, Fits(file),
         NEW seqs, seqs = [i \in 1 .. Count(file) |-> ChunkData(file)[i].data]
  PROVE  \E zeros \in Seq(Bytes) : FlattenSeq(seqs) = file \o zeros
<1> DEFINE n == Count(file)
<1>1. n \in 1 .. 255 /\ file \in Seq(Bytes)
  BY CountBounds DEF Fits
<1> HIDE DEF n
<1>4. /\ Len(seqs) = n /\ n \in Nat /\ n \in 1 .. n /\ 1 \in 1 .. n
      /\ \A i \in 1 .. n : seqs[i] = ChunkData(file)[i].data
  <2>1. seqs = [i \in 1 .. n |-> ChunkData(file)[i].data]
    BY DEF n
  <2> DEFINE e == [i \in 1 .. n |-> ChunkData(file)[i].data]
  <2>2. \A i \in 1 .. n : e[i] = ChunkData(file)[i].data
    OBVIOUS
  <2>3. n \in Nat /\ n \in 1 .. n /\ 1 \in 1 .. n /\ Len(e) = n
    BY <1>1
  <2> HIDE DEF e
  <2>4. seqs = e
    BY <2>1 DEF e
  <2> QED
    BY <2>2, <2>3, <2>4
<1>2. PICK zeros \in Seq(Bytes) : seqs[n] = Slice(file, n) \o zeros
  <2>1. PICK zeros \in Seq(Bytes) :
          ChunkData(file)[n] = ChunkOf(file, n, Slice(file, n) \o zeros)
    BY <1>4, Chunks DEF n
  <2>2. ChunkData(file)[n].data = Slice(file, n) \o zeros
    <3>1. ChunkOf(file, n, Slice(file, n) \o zeros).data = Slice(file, n) \o zeros
      BY DataOf
    <3> QED
      BY <2>1, <3>1, Zenon
  <2> QED
    BY <1>4, <2>2
<1>3. \A i \in 1 .. n : i < n => seqs[i] = Slice(file, i)
  <2> SUFFICES ASSUME NEW i \in 1 .. n, i < n
               PROVE  seqs[i] = Slice(file, i)
    OBVIOUS
  <2>1. ChunkData(file)[i] = ChunkOf(file, i, Slice(file, i) \o <<>>)
    BY Chunks DEF n
  <2>2. Slice(file, i) \o <<>> = Slice(file, i)
    BY Slices DEF n
  <2>3. ChunkData(file)[i].data = Slice(file, i) \o <<>>
    BY <2>1, DataOf
  <2> QED
    BY <1>4, <2>2, <2>3
<1> DEFINE up == [i \in 0 .. n |-> IF i = 0 THEN 0 ELSE UpTo(file, i)]
<1>5. \A i \in 1 .. n :
        /\ Slice(file, i) = SubSeq(file, IF i = 1 THEN 1 ELSE UpTo(file, i - 1) + 1,
                                   UpTo(file, i))
        /\ UpTo(file, i) \in 0 .. Len(file)
        /\ i > 1 => UpTo(file, i - 1) \in 0 .. UpTo(file, i)
        /\ i = n => UpTo(file, i) = Len(file)
  BY Slices DEF n
<1> HIDE DEF n
<1>6. /\ up \in [0 .. n -> 0 .. Len(file)] /\ up[0] = 0 /\ up[n] = Len(file)
      /\ \A i \in 1 .. n : up[i] = UpTo(file, i)
  <2>1. Len(file) \in Nat /\ 0 \in 0 .. Len(file)
    BY <1>1
  <2> QED
    BY <1>4, <1>5, <2>1
<1>7. \A i \in 1 .. n : up[i - 1] <= up[i] /\ Slice(file, i) = SubSeq(file, up[i - 1] + 1, up[i])
  <2> HIDE DEF up
  <2> SUFFICES ASSUME NEW i \in 1 .. n
               PROVE  up[i - 1] <= up[i] /\ Slice(file, i) = SubSeq(file, up[i - 1] + 1, up[i])
    OBVIOUS
  <2>1. CASE i = 1
    BY <1>4, <1>5, <1>6, <2>1
  <2>2. CASE i # 1
    <3>1. i > 1 /\ i - 1 \in 1 .. n
      BY <1>4, <2>2
    <3>2. up[i - 1] = UpTo(file, i - 1) /\ up[i] = UpTo(file, i)
      BY <1>6, <3>1
    <3> QED
      BY <1>5, <2>2, <3>1, <3>2
  <2> QED
    BY <2>1, <2>2
<1> HIDE DEF up
<1>8. FlattenSeq(seqs) = file \o zeros
  <2>1. n \in Nat /\ n >= 1
    BY <1>1
  <2>2. \A i \in 1 .. n : i < n => seqs[i] = SubSeq(file, up[i - 1] + 1, up[i])
    BY <1>3, <1>7
  <2>3. seqs[n] = SubSeq(file, up[n - 1] + 1, up[n]) \o zeros
    BY <1>2, <1>4, <1>7
  <2>4. \A i \in 1 .. n : up[i - 1] <= up[i]
    BY <1>7
  <2>5. file \in Seq(Bytes) /\ zeros \in Seq(Bytes)
    BY <1>1
  <2>6. up \in [0 .. n -> 0 .. Len(file)] /\ up[0] = 0 /\ up[n] = Len(file)
    BY <1>6
  <2>7. Len(seqs) = n
    BY <1>4
  <2> QED
    BY ONLY <2>1, <2>2, <2>3, <2>4, <2>5, <2>6, <2>7, JoinPieces
<1> QED
  BY <1>8

LEMMA AssembleWhole ==
  ASSUME NEW file, Fits(file),
         NEW chs, Len(chs) = Count(file),
         \A i \in 1 .. Count(file) : chs[i] = ChunkData(file)[i]
  PROVE  Assemble(chs) = Success(file)
<1> DEFINE n == Len(chs)
           at(i) == CHOOSE k \in 1 .. n : chs[k].index = i - 1
           seqs == [i \in 1 .. n |-> chs[at(i)].data]
           data == FlattenSeq(seqs)
<1>1. n \in 1 .. 255 /\ Count(file) = n /\ Len(file) \in Nat
  BY CountBounds
<1>2. \A i \in 1 .. n :
        /\ chs[i].index = i - 1 /\ chs[i].total_chunks = n
        /\ chs[i].file_size = IF i = 1 THEN Len(file) ELSE NoSize
  <2> SUFFICES ASSUME NEW i \in 1 .. n
               PROVE  /\ chs[i].index = i - 1 /\ chs[i].total_chunks = n
                      /\ chs[i].file_size = IF i = 1 THEN Len(file) ELSE NoSize
    OBVIOUS
  <2>1. chs[i] = ChunkData(file)[i] /\ i \in 1 .. Count(file)
    BY <1>1
  <2> QED
    BY <1>1, <2>1, FileChunks
<1> HIDE DEF n
<1>3. \A i \in 1 .. n : at(i) = i
  <2> SUFFICES ASSUME NEW i \in 1 .. n PROVE at(i) = i
    OBVIOUS
  <2>1. \A k \in 1 .. n : chs[k].index = i - 1 <=> k = i
    <3>1. \A k \in 1 .. n : k - 1 = i - 1 <=> k = i
      BY <1>1
    <3> QED
      BY <1>2, <3>1
  <2> QED
    BY <2>1
<1>4. seqs = [i \in 1 .. Count(file) |-> ChunkData(file)[i].data]
  <2> DEFINE e == [i \in 1 .. n |-> ChunkData(file)[i].data]
  <2>1. ASSUME NEW i \in 1 .. n PROVE seqs[i] = e[i]
    <3>1. seqs[i] = chs[at(i)].data /\ e[i] = ChunkData(file)[i].data
      BY Zenon
    <3>2. chs[i] = ChunkData(file)[i] /\ at(i) = i
      BY <1>1, <1>3
    <3> HIDE DEF at, seqs, e
    <3> QED
      BY <3>1, <3>2
  <2>2. seqs = [i \in 1 .. n |-> seqs[i]] /\ e = [i \in 1 .. n |-> e[i]]
    OBVIOUS
  <2> HIDE DEF seqs, e
  <2>3. seqs = e
    BY <2>1, <2>2
  <2> QED
    BY <1>1, <2>3 DEF e
<1>5. PICK zeros \in Seq(Bytes) : data = file \o zeros
  BY <1>4, DataBack
<1>6. Len(data) >= Len(file) /\ SubSeq(data, 1, Len(file)) = file
  BY <1>5, PrefixBack DEF Fits
<1>7. /\ chs[1].total_chunks = n /\ chs[1].file_size = Len(file) /\ n # 0
      /\ Len(file) # NoSize
  BY <1>1, <1>2 DEF NoSize
<1>8. \A i \in 1 .. n : \E k \in 1 .. n : chs[k].index = i - 1
  BY <1>2
<1>9. \A k \in 1 .. n : chs[k].total_chunks = n
  BY <1>2
<1>10. Assemble(chs) =
         IF \/ n = 0
            \/ n # chs[1].total_chunks
            \/ chs[1].file_size = NoSize
            \/ \E i \in 1 .. n : ~\E k \in 1 .. n : chs[k].index = i - 1
            \/ \E k \in 1 .. n : chs[k].total_chunks # chs[1].total_chunks
            \/ Len(data) < chs[1].file_size
         THEN Refused
         ELSE Success(SubSeq(data, 1, chs[1].file_size))
  BY Zenon DEF Assemble, n
<1> HIDE DEF data
<1>11. ~(Len(data) < Len(file))
  <2>1. Len(data) \in Nat
    BY <1>5, ConcatProperties DEF Fits
  <2> QED
    BY <1>1, <1>6, <2>1
<1> QED
  BY <1>6, <1>7, <1>8, <1>9, <1>10, <1>11, Zenon

(* A chain that ends early is refused. *)
LEMMA AssemblePart ==
  ASSUME NEW chs, Len(chs) = 0 \/ Len(chs) # chs[1].total_chunks
  PROVE  Assemble(chs) = Refused
  BY Zenon DEF Assemble

LEMMA OneAndAnother ==
  ASSUME NEW n \in Nat, NEW j \in 2 .. n
  PROVE  1 \in 1 .. n /\ j \in 1 .. n /\ j # 1
  OBVIOUS

(* So is one in which two chunks claim to be the first: some number is     *)
(* missing then.                                                           *)
LEMMA AssembleTwoHeads ==
  ASSUME NEW chs, Len(chs) \in Nat, NEW j \in 2 .. Len(chs),
         chs[1].index = 0, chs[j].index = 0
  PROVE  Assemble(chs) = Refused
<1> DEFINE n == Len(chs)
<1> SUFFICES ASSUME \A i \in 1 .. n : \E k \in 1 .. n : chs[k].index = i - 1
             PROVE  FALSE
  BY Zenon DEF Assemble
<1> DEFINE at == [i \in 1 .. n |-> CHOOSE k \in 1 .. n : chs[k].index = i - 1]
<1>1. \A i \in 1 .. n : at[i] \in 1 .. n /\ chs[at[i]].index = i - 1
  OBVIOUS
<1> HIDE DEF at
<1>n. n \in Nat /\ j \in 2 .. n
  OBVIOUS
<1> HIDE DEF n
<1>j. n \in Nat /\ 1 \in 1 .. n /\ j \in 1 .. n /\ j # 1
  BY <1>n, OneAndAnother
<1>2. PICK x \in {1, j} : x # at[1]
  BY <1>j
<1>3. x \in 1 .. n /\ chs[x].index = 0
  BY <1>j, <1>2
<1>4. \A i \in 1 .. n : at[i] # x
  <2> SUFFICES ASSUME NEW i \in 1 .. n, at[i] = x PROVE FALSE
    OBVIOUS
  <2>1. i - 1 = 0
    BY <1>1, <1>3
  <2>2. i = 1
    BY <1>j, <2>1
  <2> QED
    BY <1>2, <2>2
<1> DEFINE others == (1 .. n) \ {x}
<1>5. at \in [1 .. n -> others]
  BY <1>1, <1>4 DEF at
<1>6. /\ IsFiniteSet(1 .. n) /\ Cardinality(1 .. n) = n
      /\ IsFiniteSet(others) /\ Cardinality(others) = n - 1
  <2>1. IsFiniteSet(1 .. n) /\ Cardinality(1 .. n) = n
    <3>1. 1 \in Int /\ n \in Int /\ ~(1 > n) /\ n - 1 + 1 = n
      BY <1>n
    <3> QED
      BY <3>1, FS_Interval, Zenon
  <2> QED
    BY <1>3, <2>1, FS_RemoveElement
<1>7. Cardinality(others) < Cardinality(1 .. n)
  BY <1>j, <1>6
<1> HIDE DEF others
<1>8. PICK a \in 1 .. n : \E b \in 1 .. n : a # b /\ at[a] = at[b]
  <2> DEFINE all == 1 .. n
  <2>1. IsFiniteSet(all) /\ IsFiniteSet(others) /\ Cardinality(others) < Cardinality(all)
    BY <1>6, <1>7
  <2> HIDE DEF all
  <2>2. at \in [all -> others]
    BY <1>5 DEF all
  <2>3. \E x1, y1 \in all : x1 # y1 /\ at[x1] = at[y1]
    BY <2>1, <2>2, FS_PigeonHole
  <2> QED
    BY <2>3 DEF all
<1>9. PICK b \in 1 .. n : a # b /\ at[a] = at[b]
  BY <1>8
<1>10. a - 1 = b - 1
  BY <1>1, <1>9
<1> QED
  BY <1>9, <1>10

-----------------------------------------------------------------------------
(* Which technique a transaction is detected as *)

(* The technique of a transaction: Chained comes first. *)
LEMMA DetectedTechnique ==
  ASSUME NEW tx
  PROVE  DetectTechnique(tx) =
           IF DetectWith(Chained, tx) THEN Chained
           ELSE IF DetectWith(P2wsh, tx) THEN P2wsh ELSE NoTechnique
<1> DEFINE detected == {i \in DOMAIN TechniqueIter : DetectWith(TechniqueIter[i], tx)}
<1>1. DOMAIN TechniqueIter = {1, 2} /\ TechniqueIter[1] = Chained /\ TechniqueIter[2] = P2wsh
  BY DEF TechniqueIter
<1> HIDE DEF detected
<1>2. DetectTechnique(tx) = IF detected = {} THEN NoTechnique ELSE TechniqueIter[Min(detected)]
  BY Zenon DEF DetectTechnique, detected
<1>3. 1 \in detected <=> DetectWith(Chained, tx)
  BY <1>1 DEF detected
<1>4. 2 \in detected <=> DetectWith(P2wsh, tx)
  BY <1>1 DEF detected
<1>5. detected \subseteq {1, 2}
  BY <1>1 DEF detected
<1>6. detected # {} => Min(detected) \in detected /\ \A n \in detected : Min(detected) <= n
  <2>1. detected \subseteq 1 .. 2 /\ detected \in SUBSET Int
    BY <1>5
  <2>2. IsFiniteSet(detected)
    <3>1. IsFiniteSet(1 .. 2)
      <4>1. 1 \in Int /\ 2 \in Int
        OBVIOUS
      <4> QED
        BY <4>1, FS_Interval, Zenon
    <3> QED
      BY <2>1, <3>1, FS_Subset
  <2> QED
    BY <2>1, <2>2, MinIsLeast
<1> DEFINE first == Min(detected)
<1>0. detected # {} => first \in {1, 2} /\ first \in detected /\ \A n \in detected : first <= n
  BY <1>5, <1>6
<1> HIDE DEF first
<1>7. CASE 1 \in detected
  <2>1. first = 1 /\ detected # {}
    BY <1>0, <1>7
  <2>2. DetectTechnique(tx) = Chained
    BY <1>1, <1>2, <2>1, Zenon DEF first
  <2> QED
    BY <1>3, <1>7, <2>2, Zenon
<1>8. CASE 1 \notin detected /\ 2 \in detected
  <2>1. first = 2 /\ detected # {}
    BY <1>0, <1>8
  <2>2. DetectTechnique(tx) = P2wsh
    BY <1>1, <1>2, <2>1, Zenon DEF first
  <2> QED
    BY <1>3, <1>4, <1>8, <2>2, Zenon
<1>9. CASE 1 \notin detected /\ 2 \notin detected
  <2>1. detected = {}
    BY <1>5, <1>9
  <2> QED
    BY <1>2, <1>3, <1>4, <1>9, <2>1
<1> QED
  BY <1>7, <1>8, <1>9

LEMMA TechniquesDiffer == Chained # P2wsh /\ Chained # NoTechnique /\ P2wsh # NoTechnique
  BY DEF Chained, P2wsh, NoTechnique

(* A script that does not begin with OP_RETURN is no head. *)
LEMMA NoOpReturn ==
  ASSUME NEW s, s[1] # 106
  PROVE  ~Detect(s)
<1>1. ExtractOpReturnData(s) = Refused
  BY Zenon DEF ExtractOpReturnData
<1>2. ExtractOpReturnData(s).ok = FALSE
  BY <1>1 DEF Refused
<1> QED
  BY <1>2, Zenon DEF Detect

LEMMA WalletScripts ==
  /\ Len(WalletScript) = 2 /\ WalletScript[1] # 106
  /\ Len(P2wshScript) = 2 /\ P2wshScript[1] # 106
  BY DEF WalletScript, P2wshScript

(* The transactions of a file in the chained format. *)
LEMMA ChainedTxs ==
  ASSUME NEW file, Fits(file), NEW txs, txs = EncodeChained(file)[1]
  PROVE  /\ \E T : txs \in Seq(T)
         /\ Len(txs) = Count(file) /\ DOMAIN txs = 1 .. Count(file)
         /\ EncodeChained(file)[2] = 1
         /\ \A i \in 1 .. Count(file) :
              /\ txs[i].outs[1] = OpReturnScript(EncodeChunk(ChunkData(file)[i]))
              /\ 1 \in DOMAIN txs[i].outs
              /\ \A k \in DOMAIN txs[i].outs : k # 1 => txs[i].outs[k] = WalletScript
              /\ txs[i].witnesses = <<WalletWitness>>
<1> DEFINE n == Count(file)
           chunks == ChunkData(file)
           script(i) == OpReturnScript(EncodeChunk(chunks[i]))
           outs(i) == <<script(i), WalletScript>>
                        \o (IF i = 1 /\ Len(chunks) > 1 THEN <<WalletScript>> ELSE <<>>)
           tx(i) == Transaction(outs(i), <<WalletWitness>>)
           all == [i \in DOMAIN chunks |-> tx(i)]
<1>1. EncodeChained(file) = <<all, 1>>
  BY Zenon DEF EncodeChained
<1>2. DOMAIN chunks = 1 .. n /\ n \in Nat
  <2>1. \A k \in 1 .. 255 : k \in Nat
    OBVIOUS
  <2> QED
    BY <2>1, Chunks, CountBounds
<1> HIDE DEF chunks, n
<1>3. \A i : /\ outs(i)[1] = script(i) /\ 1 \in DOMAIN outs(i)
             /\ \A k \in DOMAIN outs(i) : k # 1 => outs(i)[k] = WalletScript
  <2> SUFFICES ASSUME NEW i
               PROVE  /\ outs(i)[1] = script(i) /\ 1 \in DOMAIN outs(i)
                      /\ \A k \in DOMAIN outs(i) : k # 1 => outs(i)[k] = WalletScript
    OBVIOUS
  <2> HIDE DEF script
  <2>1. CASE i = 1 /\ Len(chunks) > 1
    <3>1. outs(i) = <<script(i), WalletScript>> \o <<WalletScript>>
      BY <2>1, Zenon
    <3> HIDE DEF outs
    <3> QED
      BY <3>1
  <2>2. CASE ~(i = 1 /\ Len(chunks) > 1)
    <3>1. outs(i) = <<script(i), WalletScript>> \o <<>>
      BY <2>2, Zenon
    <3> HIDE DEF outs
    <3> QED
      BY <3>1
  <2> QED
    BY <2>1, <2>2
<1> HIDE DEF outs
<1>4. \A i : tx(i).outs = outs(i) /\ tx(i).witnesses = <<WalletWitness>>
  BY DEF Transaction
<1> HIDE DEF tx, script
<1>5. txs = all /\ EncodeChained(file)[2] = 1
  BY <1>1
<1>6. txs = [i \in 1 .. n |-> tx(i)]
  BY <1>2, <1>5
<1> HIDE DEF all
<1>7. Len(txs) = n /\ DOMAIN txs = 1 .. n /\ \A i \in 1 .. n : txs[i] = tx(i)
  BY <1>2, <1>6
<1>8. \E T : txs \in Seq(T)
  <2> DEFINE T == {txs[i] : i \in 1 .. n}
  <2>1. \A i \in 1 .. n : tx(i) \in T
    BY <1>7
  <2> HIDE DEF T
  <2>2. [i \in 1 .. n |-> tx(i)] \in Seq(T)
    BY <1>2, <2>1
  <2> QED
    BY <1>6, <2>2, Zenon
<1>9. \A i \in 1 .. n :
        /\ txs[i].outs[1] = script(i)
        /\ 1 \in DOMAIN txs[i].outs
        /\ \A k \in DOMAIN txs[i].outs : k # 1 => txs[i].outs[k] = WalletScript
        /\ txs[i].witnesses = <<WalletWitness>>
  <2> SUFFICES ASSUME NEW i \in 1 .. n
               PROVE  /\ txs[i].outs[1] = script(i)
                      /\ 1 \in DOMAIN txs[i].outs
                      /\ \A k \in DOMAIN txs[i].outs : k # 1 => txs[i].outs[k] = WalletScript
                      /\ txs[i].witnesses = <<WalletWitness>>
    OBVIOUS
  <2>1. txs[i].outs = outs(i) /\ txs[i].witnesses = <<WalletWitness>>
    BY <1>4, <1>7
  <2> QED
    BY <1>3, <2>1
<1> QED
  BY <1>5, <1>7, <1>8, <1>9, Zenon DEF n, script, chunks

(* Only the head of a chain is detected, as what it is. *)
LEMMA ChainedDetected ==
  ASSUME NEW file, Fits(file), NEW i \in 1 .. Count(file)
  PROVE  DetectTechnique(EncodeChained(file)[1][i]) = IF i = 1 THEN Chained ELSE NoTechnique
<1> DEFINE tx == EncodeChained(file)[1][i]
<1>1. /\ tx.outs[1] = OpReturnScript(EncodeChunk(ChunkData(file)[i]))
      /\ 1 \in DOMAIN tx.outs
      /\ \A k \in DOMAIN tx.outs : k # 1 => tx.outs[k] = WalletScript
      /\ tx.witnesses = <<WalletWitness>>
  BY ChainedTxs
<1> HIDE DEF tx
<1>2. Detect(tx.outs[1]) <=> i = 1
  BY <1>1, FileChunks
<1>3. DetectWith(Chained, tx) <=> i = 1
  <2>1. \A k \in DOMAIN tx.outs : k # 1 => ~Detect(tx.outs[k])
    BY <1>1, WalletScripts, NoOpReturn
  <2> QED
    BY <1>1, <1>2, <2>1, TechniquesDiffer, Zenon DEF DetectWith
<1>4. ~DetectWith(P2wsh, tx)
  <2>1. Len(tx.witnesses[1]) = 2
    BY <1>1 DEF WalletWitness
  <2> QED
    BY <2>1, TechniquesDiffer DEF DetectWith
<1> QED
  BY <1>3, <1>4, DetectedTechnique DEF tx

(* A chunk between the first and the last is full. *)
LEMMA FullLaterSlice ==
  ASSUME NEW file, Fits(file), NEW i \in 2 .. Count(file), i < Count(file)
  PROVE  Len(Slice(file, i)) = MAX_DATA_PER_CHUNK
<1> DEFINE L == Len(file)
           F == FIRST_CHUNK_MAX_DATA
           D == MAX_DATA_PER_CHUNK
           n == Count(file)
           offset == F + (i - 2) * D
<1>1. L \in Nat /\ F \in Nat /\ D \in Nat /\ D > 0 /\ n \in 1 .. 255 /\ i \in 2 .. n /\ i < n
      /\ (n > 1 => F + (n - 2) * D < L)
  BY CountBounds, Sizes
<1>2. Slice(file, i) = SubSeq(file, offset + 1, Least(offset + D, L))
  <2>1. i # 1
    OBVIOUS
  <2> QED
    BY <2>1, Zenon DEF Slice
<1>3. file \in Seq(Bytes)
  BY DEF Fits
<1> HIDE DEF F, D, n
<1>4. offset \in Nat /\ offset + D < L
  <2>1. \A a, b, c \in Nat : a <= b => a * c <= b * c /\ a * c \in Nat /\ b * c \in Nat
    OBVIOUS
  <2>2. (i - 1) * D <= (n - 2) * D /\ (n - 2) * D \in Nat
    BY <1>1, <2>1
  <2>3. (i - 1) * D = (i - 2) * D + D /\ (i - 2) * D \in Nat
    <3>1. \A a, d \in Nat : (a + 1) * d = a * d + d /\ a * d \in Nat
      OBVIOUS
    <3>2. i - 2 \in Nat /\ i - 1 = (i - 2) + 1
      BY <1>1
    <3> QED
      BY <1>1, <3>1, <3>2
  <2>4. n > 1 /\ F + (n - 2) * D < L
    BY <1>1
  <2> DEFINE x == (i - 2) * D
             y == (i - 1) * D
             z == (n - 2) * D
  <2> HIDE DEF x, y, z, L
  <2>5. x \in Nat /\ y = x + D /\ y <= z /\ z \in Nat /\ F + z < L
    BY <2>2, <2>3, <2>4 DEF x, y, z
  <2>6. F + x \in Nat /\ F + x + D < L
    BY <1>1, <2>5
  <2> QED
    BY <2>6 DEF x
<1> HIDE DEF offset
<1>5. Least(offset + D, L) = offset + D
  BY <1>1, <1>4 DEF Least
<1>6. Len(SubSeq(file, offset + 1, offset + D)) = D
  BY <1>1, <1>3, <1>4
<1> QED
  BY <1>2, <1>5, <1>6 DEF D

(* Every chunk before the last is full. *)
LEMMA FullSlice ==
  ASSUME NEW file, Fits(file), NEW i \in 1 .. Count(file), i < Count(file)
  PROVE  Len(Slice(file, i)) = IF i = 1 THEN FIRST_CHUNK_MAX_DATA ELSE MAX_DATA_PER_CHUNK
<1> DEFINE L == Len(file)
           F == FIRST_CHUNK_MAX_DATA
           D == MAX_DATA_PER_CHUNK
           n == Count(file)
<1>1. /\ L \in Nat /\ F \in Nat /\ D \in Nat /\ D > 0 /\ n \in 1 .. 255
      /\ i \in 1 .. n /\ i < n
      /\ (n > 1 => F + (n - 2) * D < L)
  BY CountBounds, Sizes
<1>2. CASE i = 1
  <2> HIDE DEF L, F, D, n
  <2>1. F < L
    <3> DEFINE x == (n - 2) * D
    <3>1. n > 1 /\ n - 2 \in Nat
      BY <1>1, <1>2
    <3>2. x \in Nat
      BY <1>1, <3>1
    <3>3. F + x < L
      BY <1>1, <3>1
    <3> HIDE DEF x
    <3> QED
      BY <1>1, <3>2, <3>3
  <2>2. Least(F, L) = F
    BY <1>1, <2>1 DEF Least
  <2>3. Slice(file, 1) = SubSeq(file, 1, F)
    BY <2>2 DEF Slice, F, L
  <2>4. Len(SubSeq(file, 1, F)) = F
    BY <1>1
  <2> QED
    BY <1>2, <2>3, <2>4 DEF F
<1>3. CASE i # 1
  <2>1. i \in 2 .. n
    BY <1>1, <1>3
  <2> QED
    BY <1>1, <1>3, <2>1, FullLaterSlice
<1> QED
  BY <1>2, <1>3

(* The payload of a chunk is its header and its data. *)
LEMMA PayloadSize ==
  ASSUME NEW c, Encodable(c)
  PROVE  /\ c.data \in Seq(Bytes)
         /\ EncodeChunk(c) \in Seq(Bytes)
         /\ Len(EncodeChunk(c)) = Len(c.data) + IF c.index = 0 THEN 7 ELSE 5
<1> DEFINE p == EncodeChunk(c)
           h == HeaderSize(c)
<1>1. Frames(c, p)
  BY Payload
<1> HIDE DEF p
<1>2. /\ p \in Seq(Bytes) /\ Len(p) >= h /\ h \in {5, 7}
      /\ SubSeq(p, h + 1, Len(p)) = c.data
  BY <1>1 DEF Frames, HeaderSize
<1>3. h = IF c.index = 0 THEN 7 ELSE 5
  BY DEF HeaderSize
<1> HIDE DEF h
<1>4. c.data \in Seq(Bytes) /\ Len(c.data) = Len(p) - h
  <2>1. Len(p) \in Nat /\ h \in Nat /\ h <= Len(p)
    BY <1>2
  <2>2. SubSeq(p, h + 1, Len(p)) \in Seq(Bytes)
    BY <1>2, <2>1
  <2>3. Len(SubSeq(p, h + 1, Len(p))) = Len(p) - h
    BY <1>2, <2>1
  <2> QED
    BY <1>2, <2>2, <2>3
<1>5. Len(p) = Len(c.data) + h
  BY <1>2, <1>4
<1> QED
  BY <1>2, <1>3, <1>4, <1>5 DEF p

(* What the script has besides a payload of up to 255 bytes. *)
LEMMA ScriptSize ==
  ASSUME NEW p \in Seq(Bytes), Len(p) <= 255
  PROVE  Len(OpReturnScript(p)) = Len(p) + IF Len(p) < 76 THEN 2 ELSE 3
<1> DEFINE n == Len(p)
<1>1. n \in Nat /\ n < 256
  OBVIOUS
<1>2. CASE n < 76
  <2>1. OpReturnScript(p) = <<106>> \o <<n>> \o p
    BY <1>2 DEF OpReturnScript
  <2> QED
    BY <1>2, <2>1
<1>3. CASE ~(n < 76)
  <2>1. OpReturnScript(p) = <<106>> \o <<76, n>> \o p
    BY <1>1, <1>3 DEF OpReturnScript
  <2> QED
    BY <1>3, <2>1
<1> QED
  BY <1>2, <1>3

(* How full the payloads of a file are: every one but the last is.         *)
LEMMA PayloadsOfAFile ==
  ASSUME NEW file, Fits(file), NEW i \in 1 .. Count(file), NEW c, c = ChunkData(file)[i]
  PROVE  /\ EncodeChunk(c) \in Seq(Bytes)
         /\ Len(EncodeChunk(c)) <= MAX_OP_RETURN_SIZE
         /\ i < Count(file) => Len(EncodeChunk(c)) = MAX_OP_RETURN_SIZE
<1> DEFINE M == MAX_OP_RETURN_SIZE
           h == IF i = 1 THEN 7 ELSE 5
<1>1. Encodable(c) /\ c.index = i - 1
  BY FileChunks
<1>2. /\ c.data \in Seq(Bytes) /\ EncodeChunk(c) \in Seq(Bytes)
      /\ Len(EncodeChunk(c)) = Len(c.data) + h
  <2>1. i \in Nat
    BY CountBounds
  <2>2. c.index = 0 <=> i = 1
    BY <1>1, <2>1
  <2> QED
    BY <1>1, <2>2, PayloadSize
<1>3. M \in Nat /\ h \in Nat
  BY CodecAssumption DEF FIRST_CHUNK_METADATA_SIZE
<1>4. (IF i = 1 THEN FIRST_CHUNK_MAX_DATA ELSE MAX_DATA_PER_CHUNK) = M - h
  BY DEF FIRST_CHUNK_MAX_DATA, FIRST_CHUNK_METADATA_SIZE, MAX_DATA_PER_CHUNK, METADATA_SIZE
<1>5. PICK zeros \in Seq(Bytes) :
        /\ c = ChunkOf(file, i, Slice(file, i) \o zeros)
        /\ Len(Slice(file, i) \o zeros)
             <= IF i = 1 THEN FIRST_CHUNK_MAX_DATA ELSE MAX_DATA_PER_CHUNK
        /\ i < Count(file) => zeros = <<>>
  BY Chunks
<1>6. c.data = Slice(file, i) \o zeros
  <2>1. ChunkOf(file, i, Slice(file, i) \o zeros).data = Slice(file, i) \o zeros
    BY DataOf
  <2> QED
    BY <1>5, <2>1, Zenon
<1>7. Len(c.data) <= M - h
  BY <1>4, <1>5, <1>6
<1>8. ASSUME i < Count(file)
      PROVE  Len(c.data) = M - h
  <2>1. Len(Slice(file, i)) = IF i = 1 THEN FIRST_CHUNK_MAX_DATA ELSE MAX_DATA_PER_CHUNK
    BY <1>8, FullSlice
  <2>2. c.data = Slice(file, i)
    <3>1. zeros = <<>>
      BY <1>5, <1>8
    <3>2. Slice(file, i) \o <<>> = Slice(file, i)
      BY Slices
    <3> QED
      BY <1>6, <3>1, <3>2
  <2> QED
    BY <1>4, <2>1, <2>2
<1> HIDE DEF h
<1>9. Len(c.data) \in Nat
  BY <1>2
<1> QED
  BY <1>2, <1>3, <1>7, <1>8, <1>9

(* The chunks of every file that encode takes are relayed. *)
LEMMA ChunksRelayed ==
  ASSUME NEW file, Fits(file), NEW i \in DOMAIN ChunkData(file), NEW c, c = ChunkData(file)[i],
         NEW s, s = OpReturnScript(EncodeChunk(c))
  PROVE  /\ Len(s) <= MAX_OP_RETURN_SIZE + PushOverhead
         /\ i < Len(ChunkData(file)) => Len(s) = MAX_OP_RETURN_SIZE + PushOverhead
         /\ i > 1 => Len(c.data) >= MIN_LAST_CHUNK_SIZE
<1>1. /\ i \in 1 .. Count(file) /\ Count(file) \in 1 .. 255
      /\ Len(ChunkData(file)) = Count(file)
  BY Chunks, CountBounds
<1>2. /\ Len(s) <= MAX_OP_RETURN_SIZE + PushOverhead
      /\ i < Len(ChunkData(file)) => Len(s) = MAX_OP_RETURN_SIZE + PushOverhead
  <2> DEFINE p == EncodeChunk(c)
             M == MAX_OP_RETURN_SIZE
  <2>1. /\ p \in Seq(Bytes) /\ Len(p) <= M
        /\ i < Len(ChunkData(file)) => Len(p) = M
    BY <1>1, PayloadsOfAFile
  <2> HIDE DEF p
  <2>2. Len(p) \in Nat /\ M \in Nat /\ M <= 255
    BY <2>1, CodecAssumption DEF FIRST_CHUNK_METADATA_SIZE
  <2>3. Len(s) = Len(p) + IF Len(p) < 76 THEN 2 ELSE 3
    BY <2>1, <2>2, ScriptSize DEF p
  <2> QED
    BY <2>1, <2>2, <2>3 DEF PushOverhead
<1>3. ASSUME i > 1
      PROVE  Len(c.data) >= MIN_LAST_CHUNK_SIZE
  <2>1. PICK zeros \in Seq(Bytes) :
          /\ c = ChunkOf(file, i, Slice(file, i) \o zeros)
          /\ i < Count(file) => zeros = <<>>
          /\ i > 1 /\ i = Count(file) => Len(Slice(file, i) \o zeros) >= MIN_LAST_CHUNK_SIZE
    BY <1>1, Chunks
  <2>2. c.data = Slice(file, i) \o zeros
    <3>1. ChunkOf(file, i, Slice(file, i) \o zeros).data = Slice(file, i) \o zeros
      BY DataOf
    <3> QED
      BY <2>1, <3>1, Zenon
  <2>3. CASE i = Count(file)
    BY <1>3, <2>1, <2>2, <2>3
  <2>4. CASE i # Count(file)
    <3> DEFINE n == Count(file)
    <3>1. i < n /\ i # 1
      <4>1. i \in 1 .. n /\ i # n /\ n \in 1 .. 255
        BY <1>1, <2>4
      <4> HIDE DEF n
      <4> QED
        BY <1>3, <4>1
    <3>2. Len(Slice(file, i)) = MAX_DATA_PER_CHUNK
      BY <1>1, <3>1, FullSlice
    <3>3. c.data = Slice(file, i)
      <4>1. zeros = <<>>
        BY <2>1, <3>1
      <4>2. Slice(file, i) \o <<>> = Slice(file, i)
        BY <1>1, Slices
      <4> QED
        BY <2>2, <4>1, <4>2
    <3> QED
      BY <3>2, <3>3, Sizes
  <2> QED
    BY <2>3, <2>4
<1> QED
  BY <1>2, <1>3

-----------------------------------------------------------------------------
(* The chained format *)

LEMMA ChainedDecodes ==
  ASSUME NEW txs, NEW named, DetectTechnique(txs[named]) = Chained
  PROVE  DecodeCommand(txs, named) = DecodeChained(SubSeq(txs, named, Len(txs)))
  BY TechniquesDiffer DEF DecodeCommand

LEMMA P2wshDecodes ==
  ASSUME NEW txs, NEW named, DetectTechnique(txs[named]) = P2wsh
  PROVE  DecodeCommand(txs, named) = DecodeP2wsh(txs[named])
  BY TechniquesDiffer DEF DecodeCommand

LEMMA CountIsNat ==
  ASSUME NEW file, Fits(file)
  PROVE  Count(file) \in Nat /\ 1 \in 1 .. Count(file)
<1> DEFINE n == Count(file)
<1>1. n \in 1 .. 255
  BY CountBounds
<1> HIDE DEF n
<1>2. n \in Nat /\ 1 \in 1 .. n
  BY <1>1
<1> QED
  BY <1>2 DEF n

(* The decode command puts the file together from the transactions of the  *)
(* chain, when it is given all of them from the head on.                   *)
LEMMA ChainedBack ==
  ASSUME NEW file, Fits(file)
  PROVE  DecodedAgain(EncodeChained(file)) = Success(file)
<1> DEFINE txs == EncodeChained(file)[1]
           n == Count(file)
           chs == [i \in DOMAIN txs |-> ExtractChunk(txs[i].outs[1])]
<1>1. n \in 1 .. 255
  BY CountBounds
<1>2. /\ \E T : txs \in Seq(T)
      /\ Len(txs) = n /\ DOMAIN txs = 1 .. n
      /\ \A i \in 1 .. n : txs[i].outs[1] = OpReturnScript(EncodeChunk(ChunkData(file)[i]))
      /\ EncodeChained(file)[2] = 1
  BY ChainedTxs
<1>3. DetectTechnique(txs[1]) = Chained
  <2>1. 1 \in 1 .. n
    BY <1>1
  <2> QED
    BY <2>1, ChainedDetected, Zenon
<1>4. DecodedAgain(EncodeChained(file)) = DecodeCommand(txs, 1)
  BY <1>2, Zenon DEF DecodedAgain
<1> HIDE DEF txs
<1>5. DecodeCommand(txs, 1) = DecodeChained(SubSeq(txs, 1, Len(txs)))
  BY <1>3, ChainedDecodes, Zenon
<1>6. SubSeq(txs, 1, Len(txs)) = txs
  BY <1>2, SubSeqFull, Zenon
<1>7. DecodeChained(txs) = Assemble(chs)
  BY Zenon DEF DecodeChained
<1>8. \A i \in 1 .. n : chs[i] = ChunkData(file)[i]
  <2> SUFFICES ASSUME NEW i \in 1 .. n PROVE chs[i] = ChunkData(file)[i]
    OBVIOUS
  <2>1. chs[i] = ExtractChunk(OpReturnScript(EncodeChunk(ChunkData(file)[i])))
    BY <1>2
  <2> QED
    BY <2>1, FileChunks
<1>9. Len(chs) = n
  <2> HIDE DEF n
  <2>1. n \in Nat
    BY <1>1
  <2> QED
    BY <1>2, <2>1
<1> HIDE DEF chs
<1>10. Assemble(chs) = Success(file)
  BY <1>8, <1>9, AssembleWhole
<1> QED
  BY <1>4, <1>5, <1>6, <1>7, <1>10, Zenon

(* Given fewer transactions than the chain has, it refuses. *)
LEMMA ChainedPartRefused ==
  ASSUME NEW file, Fits(file),
         NEW T, NEW part \in Seq(T), part # <<>>, Len(part) # Count(file),
         part[1] = EncodeChained(file)[1][1]
  PROVE  ~DecodeCommand(part, 1).ok
<1> DEFINE chs == [i \in DOMAIN part |-> ExtractChunk(part[i].outs[1])]
           head == EncodeChained(file)[1][1]
<1>1. 1 \in 1 .. Count(file)
  BY CountIsNat
<1>2. DetectTechnique(head) = Chained
  BY <1>1, ChainedDetected, Zenon
<1>3. /\ head.outs[1] = OpReturnScript(EncodeChunk(ChunkData(file)[1]))
      /\ ExtractChunk(head.outs[1]).total_chunks = Count(file)
  <2>1. head.outs[1] = OpReturnScript(EncodeChunk(ChunkData(file)[1]))
    BY <1>1, ChainedTxs
  <2> QED
    BY <1>1, <2>1, FileChunks
<1> HIDE DEF head
<1>4. DecodeCommand(part, 1) = DecodeChained(part)
  <2>1. SubSeq(part, 1, Len(part)) = part
    BY SubSeqFull
  <2> QED
    BY <1>2, <2>1, ChainedDecodes, Zenon DEF head
<1>5. DecodeChained(part) = Assemble(chs)
  BY Zenon DEF DecodeChained
<1>6. Len(chs) = Len(part) /\ chs[1] = ExtractChunk(head.outs[1])
  <2>1. DOMAIN part = 1 .. Len(part) /\ Len(part) \in Nat /\ 1 \in DOMAIN part
    BY DEF head
  <2> QED
    BY <2>1 DEF head
<1> HIDE DEF chs
<1>7. Assemble(chs) = Refused
  BY <1>3, <1>6, AssemblePart
<1> QED
  BY <1>4, <1>5, <1>7 DEF Refused

(* The chain without one of its transactions, or cut off before one. *)
LEMMA ChainedLossRefused ==
  ASSUME NEW file, Fits(file), NEW txs, txs = EncodeChained(file)[1],
         NEW i \in DOMAIN txs, i > 1
  PROVE  /\ ~DecodeCommand(RemoveAt(txs, i), 1).ok
         /\ ~DecodeCommand(SubSeq(txs, 1, i - 1), 1).ok
<1> DEFINE n == Count(file)
           front == SubSeq(txs, 1, i - 1)
           back == SubSeq(txs, i + 1, Len(txs))
<1>1. n \in Nat
  BY CountIsNat
<1>2. (\E T : txs \in Seq(T)) /\ Len(txs) = n /\ i \in 2 .. n
  <2>1. (\E T : txs \in Seq(T)) /\ Len(txs) = n /\ DOMAIN txs = 1 .. n
    BY ChainedTxs, Zenon
  <2> HIDE DEF n
  <2>2. i \in 2 .. n
    BY <1>1, <2>1
  <2> QED
    BY <2>1, <2>2, Zenon
<1> HIDE DEF n
<1>t. PICK T : txs \in Seq(T)
  BY <1>2, Zenon
<1>3. front \in Seq(T) /\ Len(front) = i - 1 /\ front[1] = txs[1]
  <2>1. Len(txs) = n /\ n \in Nat /\ i \in 2 .. n
    BY <1>1, <1>2
  <2>2. front \in Seq(T) /\ Len(front) = i - 1
    BY <1>t, <2>1
  <2>3. front[1] = txs[1]
    BY <1>t, <2>1
  <2> QED
    BY <2>2, <2>3
<1>4. back \in Seq(T) /\ Len(back) = n - i
  BY <1>1, <1>2, <1>t
<1>5. RemoveAt(txs, i) = front \o back
  BY DEF RemoveAt
<1> HIDE DEF front, back
<1>6. front \o back \in Seq(T) /\ Len(front \o back) = n - 1 /\ (front \o back)[1] = txs[1]
  <2>1. /\ front \o back \in Seq(T) /\ Len(front \o back) = Len(front) + Len(back)
        /\ \A k \in 1 .. Len(front) + Len(back) :
             (front \o back)[k] = IF k <= Len(front) THEN front[k] ELSE back[k - Len(front)]
    BY <1>3, <1>4, ConcatProperties, Zenon
  <2>2. Len(front) + Len(back) = n - 1 /\ 1 \in 1 .. n - 1 /\ 1 <= Len(front)
    BY <1>1, <1>2, <1>3, <1>4
  <2> QED
    BY <1>3, <2>1, <2>2
<1>7. ~DecodeCommand(front, 1).ok
  <2>1. front # <<>> /\ Len(front) # n
    BY <1>1, <1>2, <1>3
  <2> QED
    BY <1>3, <2>1, ChainedPartRefused DEF n
<1>8. ~DecodeCommand(front \o back, 1).ok
  <2> DEFINE part == front \o back
  <2>1. part \in Seq(T) /\ Len(part) = n - 1 /\ part[1] = txs[1]
    BY <1>6
  <2> HIDE DEF part
  <2>2. part # <<>> /\ Len(part) # n
    BY <1>1, <1>2, <2>1
  <2>3. ~DecodeCommand(part, 1).ok
    BY <2>1, <2>2, ChainedPartRefused DEF n
  <2> QED
    BY <2>3 DEF part
<1> QED
  BY <1>5, <1>7, <1>8 DEF front

(* The limit in the message is that of chunk_data, as long as it is below  *)
(* what the byte for the number of chunks can say.                         *)
LEMMA LimitIsExact ==
  ASSUME NEW size \in Nat
  PROVE  ~TooLarge(size) <=>
           size <= FIRST_CHUNK_MAX_DATA + (MAX_CHAINED_TRANSACTIONS - 1) * MAX_DATA_PER_CHUNK
<1> DEFINE F == FIRST_CHUNK_MAX_DATA
           D == MAX_DATA_PER_CHUNK
           M == MAX_CHAINED_TRANSACTIONS
           rest == size - Least(F, size)
           q == DivCeil(rest, D)
<1>1. /\ F \in 1 .. 248 /\ D \in 1 .. 250 /\ M \in 1 .. 255
  BY Sizes, CodecAssumption, FormatsAssumption
<1> HIDE DEF F, D, M
<1>2. rest \in Nat /\ (rest = 0 <=> size <= F) /\ (size > F => rest = size - F)
  BY <1>1 DEF Least
<1> HIDE DEF rest
<1>3. /\ q \in Nat /\ rest <= q * D /\ (rest = 0 => q = 0)
      /\ rest > 0 => q > 0 /\ (q - 1) * D < rest
  BY <1>1, <1>2, DivCeilBounds
<1> HIDE DEF q
<1>4. ChunksNeeded(size) = 1 + q
  BY DEF ChunksNeeded, q, rest, F, D
<1>5. TooLarge(size) <=> size > 65535 \/ 1 + q > M
  <2>1. 1 + q > 255 => 1 + q > M
    BY <1>1, <1>3
  <2> QED
    BY <1>4, <2>1 DEF TooLarge, M
<1>6. \A a, b, d \in Nat : a <= b => a * d <= b * d /\ a * d \in Nat /\ b * d \in Nat
  OBVIOUS
<1>7. M - 1 \in Nat /\ (M - 1) * D \in Nat /\ (M - 1) * D <= 254 * 250
  <2>1. M - 1 \in Nat /\ M - 1 <= 254 /\ D \in Nat /\ D <= 250
    BY <1>1
  <2>2. (M - 1) * D <= 254 * D /\ (M - 1) * D \in Nat
    BY <1>6, <2>1
  <2>3. 254 * D <= 254 * 250
    BY <2>1
  <2> QED
    BY <2>1, <2>2, <2>3
<1>8. ASSUME q <= M - 1
      PROVE  size <= F + (M - 1) * D
  <2>1. q * D <= (M - 1) * D /\ q * D \in Nat
    BY <1>1, <1>3, <1>6, <1>7, <1>8
  <2> DEFINE x == q * D
             y == (M - 1) * D
  <2>2. x \in Nat /\ y \in Nat /\ x <= y /\ rest <= x
    BY <1>3, <1>7, <2>1
  <2> HIDE DEF x, y
  <2>3. size <= F + y
    BY <1>1, <1>2, <2>2
  <2> QED
    BY <2>3 DEF y
<1>9. ASSUME ~(q <= M - 1)
      PROVE  ~(size <= F + (M - 1) * D)
  <2>1. rest > 0 /\ M - 1 <= q - 1 /\ q - 1 \in Nat
    BY <1>1, <1>2, <1>3, <1>9
  <2>2. (M - 1) * D <= (q - 1) * D /\ (q - 1) * D \in Nat
    BY <1>1, <1>6, <1>7, <2>1
  <2> DEFINE x == (q - 1) * D
             y == (M - 1) * D
  <2>3. x \in Nat /\ y \in Nat /\ y <= x /\ x < rest
    BY <1>3, <1>7, <2>1, <2>2
  <2> HIDE DEF x, y
  <2>4. ~(size <= F + y)
    BY <1>1, <1>2, <2>1, <2>3
  <2> QED
    BY <2>4 DEF y
<1>10. q <= M - 1 <=> ~(1 + q > M)
  BY <1>1, <1>3
<1>11. size <= F + (M - 1) * D => ~(size > 65535)
  <2> DEFINE y == (M - 1) * D
  <2>1. y \in Nat /\ y <= 63500
    BY <1>7
  <2> HIDE DEF y
  <2>2. size <= F + y => ~(size > 65535)
    BY <1>1, <2>1
  <2> QED
    BY <2>2 DEF y
<1>12. ~TooLarge(size) <=> size <= F + (M - 1) * D
  <2> DEFINE within == size <= F + (M - 1) * D
             short == q <= M - 1
             huge == size > 65535
             long == 1 + q > M
  <2>1. (TooLarge(size) <=> huge \/ long) /\ (short <=> ~long) /\ (within => ~huge)
    <3>1. TooLarge(size) <=> huge \/ long
      BY <1>5
    <3>2. short <=> ~long
      BY <1>10
    <3>3. within => ~huge
      BY <1>11
    <3> QED
      BY <3>1, <3>2, <3>3
  <2>2. (short => within) /\ (~short => ~within)
    BY <1>8, <1>9, Zenon
  <2> HIDE DEF within, short, huge, long
  <2>3. ~TooLarge(size) <=> within
    BY <2>1, <2>2
  <2> QED
    BY <2>3, Zenon DEF within
<1> QED
  BY <1>12, Zenon DEF F, D, M

-----------------------------------------------------------------------------
(* The pieces of the P2WSH format *)

LEMMA Multiples ==
  /\ \A a, w \in Nat : a * w \in Nat /\ (a + 1) * w = a * w + w
  /\ \A a, b, w \in Nat : a <= b => a * w <= b * w
  OBVIOUS

LEMMA P2wshSizes ==
  /\ DATA_BYTES_PER_PUBKEY \in 3 .. 74 /\ MAX_PUBKEYS_PER_MULTISIG \in 2 .. 20
  /\ MAX_PUBKEYS_PER_MULTISIG - 1 \in 1 .. 19
  /\ Len(ORDIKNOT_PREFIX) = 3 /\ ORDIKNOT_PREFIX \in Seq(Bytes)
  /\ BYTES_PER_ADDITIONAL_INPUT
       = (MAX_PUBKEYS_PER_MULTISIG - 1) * DATA_BYTES_PER_PUBKEY
  /\ BYTES_PER_ADDITIONAL_INPUT \in Nat /\ BYTES_PER_ADDITIONAL_INPUT >= 3
  /\ MAX_DATA_PER_INPUT = BYTES_PER_ADDITIONAL_INPUT - 3 /\ MAX_DATA_PER_INPUT \in Nat
<1> DEFINE K == MAX_PUBKEYS_PER_MULTISIG - 1
           D == DATA_BYTES_PER_PUBKEY
<1>1. /\ D \in 3 .. 74 /\ MAX_PUBKEYS_PER_MULTISIG \in 2 .. 20 /\ K \in 1 .. 19
  BY P2wshAssumption
<1>2. Len(ORDIKNOT_PREFIX) = 3 /\ ORDIKNOT_PREFIX \in Seq(Bytes)
  BY DEF ORDIKNOT_PREFIX, Bytes
<1> HIDE DEF K, D
<1>3. K * D \in Nat /\ K * D >= 3
  <2>1. K \in Nat /\ 1 <= K /\ D \in Nat /\ D >= 3
    BY <1>1
  <2>2. 1 * D <= K * D /\ K * D \in Nat /\ 1 * D = D
    BY <2>1, Multiples
  <2> QED
    BY <2>1, <2>2
<1>4. MAX_DATA_PER_INPUT = K * D - 3
  BY <1>2 DEF MAX_DATA_PER_INPUT, K, D
<1>5. BYTES_PER_ADDITIONAL_INPUT = K * D
  BY <1>2, <1>3, <1>4 DEF BYTES_PER_ADDITIONAL_INPUT
<1>6. MAX_DATA_PER_INPUT = BYTES_PER_ADDITIONAL_INPUT - 3 /\ MAX_DATA_PER_INPUT \in Nat
  BY <1>3, <1>4, <1>5
<1> QED
  BY <1>1, <1>2, <1>3, <1>5, <1>6 DEF K, D

(* Where the i-th of the pieces of s, of length n each, ends. *)
CutAt(s, n, i) == Least(i * n, Len(s))

LEMMA PiecesAre ==
  ASSUME NEW s \in Seq(Bytes), NEW n \in Nat, n > 0
  PROVE  LET m == DivCeil(Len(s), n)
         IN /\ m \in Nat /\ (m = 0 <=> s = <<>>)
            /\ DOMAIN Pieces(s, n) = 1 .. m /\ Len(Pieces(s, n)) = m
            /\ CutAt(s, n, 0) = 0 /\ CutAt(s, n, m) = Len(s)
            /\ \A i \in 1 .. m :
                 /\ CutAt(s, n, i) \in 0 .. Len(s) /\ CutAt(s, n, i - 1) \in 0 .. Len(s)
                 /\ CutAt(s, n, i - 1) <= CutAt(s, n, i)
                 /\ Pieces(s, n)[i] = SubSeq(s, CutAt(s, n, i - 1) + 1, CutAt(s, n, i))
                 /\ Pieces(s, n)[i] \in Seq(Bytes)
                 /\ Len(Pieces(s, n)[i]) \in 1 .. n
                 /\ i < m => Len(Pieces(s, n)[i]) = n
                 /\ Len(s) = m * n => Len(Pieces(s, n)[i]) = n
<1> DEFINE m == DivCeil(Len(s), n)
           L == Len(s)
<1>1. /\ L \in Nat /\ m \in Nat /\ L <= m * n /\ (L = 0 => m = 0)
      /\ L > 0 => m > 0 /\ (m - 1) * n < L
  <2>1. L \in Nat
    OBVIOUS
  <2> QED
    BY <2>1, DivCeilBounds, Zenon
<1>2. m = 0 <=> s = <<>>
  <2>1. s = <<>> <=> L = 0
    OBVIOUS
  <2> QED
    BY <1>1, <2>1
<1>3. Pieces(s, n) = [i \in 1 .. m |-> SubSeq(s, (i - 1) * n + 1, Least(i * n, L))]
  BY DEF Pieces
<1> HIDE DEF m
<1>4. DOMAIN Pieces(s, n) = 1 .. m /\ Len(Pieces(s, n)) = m
  BY <1>1, <1>3
<1>5. m * n \in Nat /\ 0 * n = 0
  BY <1>1, Multiples
<1>6. CutAt(s, n, 0) = 0 /\ CutAt(s, n, m) = L
  BY <1>1, <1>5 DEF CutAt, Least
<1>7. ASSUME NEW i \in 1 .. m
      PROVE  /\ CutAt(s, n, i) \in 0 .. L /\ CutAt(s, n, i - 1) \in 0 .. L
             /\ CutAt(s, n, i - 1) <= CutAt(s, n, i)
             /\ Pieces(s, n)[i] = SubSeq(s, CutAt(s, n, i - 1) + 1, CutAt(s, n, i))
             /\ Pieces(s, n)[i] \in Seq(Bytes)
             /\ Len(Pieces(s, n)[i]) \in 1 .. n
             /\ i < m => Len(Pieces(s, n)[i]) = n
             /\ L = m * n => Len(Pieces(s, n)[i]) = n
  <2> DEFINE a == (i - 1) * n
             b == i * n
             c == (m - 1) * n
             e == m * n
  <2>1. a \in Nat /\ b = a + n
    <3>1. i - 1 \in Nat /\ (i - 1) + 1 = i
      BY <1>1
    <3> QED
      BY <3>1, Multiples
  <2>2. c \in Nat /\ a <= c /\ b <= e /\ c < L /\ e \in Nat /\ (i < m => b <= c)
    <3>1. i - 1 \in Nat /\ m - 1 \in Nat /\ i - 1 <= m - 1 /\ i \in Nat /\ i <= m /\ m > 0
          /\ (i < m => i <= m - 1)
      BY <1>1
    <3> HIDE DEF L
    <3>2. c \in Nat /\ a <= c
      BY <3>1, Multiples
    <3>3. b <= e /\ e \in Nat
      BY <1>1, <3>1, Multiples
    <3>4. i < m => b <= c
      BY <3>1, Multiples
    <3>5. c < L
      BY <1>1, <3>1
    <3> QED
      BY <3>2, <3>3, <3>4, <3>5
  <2>3. Pieces(s, n)[i] = SubSeq(s, a + 1, Least(b, L))
    BY <1>3
  <2>4. CutAt(s, n, i) = Least(b, L) /\ CutAt(s, n, i - 1) = Least(a, L)
    BY DEF CutAt
  <2>5. L = m * n <=> L = e
    OBVIOUS
  <2> HIDE DEF a, b, c, e
  <2>6. Least(a, L) = a
    BY <1>1, <2>1, <2>2 DEF Least
  <2> DEFINE to == Least(b, L)
  <2>7. to \in a + 1 .. L /\ to - a <= n /\ (i < m => to = b) /\ (L = e => to = b)
    BY <1>1, <2>1, <2>2 DEF Least
  <2> HIDE DEF to
  <2>8. SubSeq(s, a + 1, to) \in Seq(Bytes) /\ Len(SubSeq(s, a + 1, to)) = to - a
    BY <1>1, <2>1, <2>7
  <2> DEFINE p == Pieces(s, n)[i]
             x == CutAt(s, n, i)
             y == CutAt(s, n, i - 1)
  <2>9. x = to /\ y = a /\ p = SubSeq(s, y + 1, x) /\ p \in Seq(Bytes) /\ Len(p) = to - a
    BY <2>3, <2>4, <2>6, <2>8 DEF to
  <2> HIDE DEF p, x, y, L
  <2>10. /\ x \in 0 .. L /\ y \in 0 .. L /\ y <= x
         /\ Len(p) \in 1 .. n
         /\ i < m => Len(p) = n
         /\ L = e => Len(p) = n
    BY <1>1, <2>1, <2>7, <2>9
  <2> QED
    BY <2>5, <2>9, <2>10, Zenon DEF p, x, y
<1> QED
  BY <1>1, <1>2, <1>4, <1>6, <1>7 DEF m, L

(* The pieces, with something more after the last one, joined. *)
LEMMA PiecesJoined ==
  ASSUME NEW s \in Seq(Bytes), s # <<>>, NEW n \in Nat, n > 0,
         NEW pad \in Seq(Bytes), NEW parts, Len(parts) = Len(Pieces(s, n)),
         \A i \in 1 .. Len(parts) :
           parts[i] = IF i = Len(parts) THEN Pieces(s, n)[i] \o pad ELSE Pieces(s, n)[i]
  PROVE  FlattenSeq(parts) = s \o pad
<1> DEFINE m == DivCeil(Len(s), n)
           up == [i \in 0 .. m |-> CutAt(s, n, i)]
<1>1. /\ m \in Nat /\ m # 0 /\ Len(parts) = m
      /\ CutAt(s, n, 0) = 0 /\ CutAt(s, n, m) = Len(s)
      /\ \A i \in 1 .. m :
           /\ CutAt(s, n, i) \in 0 .. Len(s) /\ CutAt(s, n, i - 1) <= CutAt(s, n, i)
           /\ Pieces(s, n)[i] = SubSeq(s, CutAt(s, n, i - 1) + 1, CutAt(s, n, i))
  BY PiecesAre
<1> HIDE DEF m
<1>2. m \in 1 .. m /\ m >= 1
  BY <1>1
<1>3. up \in [0 .. m -> 0 .. Len(s)] /\ up[0] = 0 /\ up[m] = Len(s)
  <2>1. \A i \in 0 .. m : i = 0 \/ i \in 1 .. m
    BY <1>1
  <2>2. 0 \in 0 .. Len(s)
    OBVIOUS
  <2>3. \A i \in 0 .. m : CutAt(s, n, i) \in 0 .. Len(s)
    BY <1>1, <2>1, <2>2
  <2>4. 0 \in 0 .. m /\ m \in 0 .. m
    BY <1>1
  <2> QED
    BY <1>1, <2>3, <2>4
<1>4. \A i \in 1 .. m : i - 1 \in 0 .. m /\ i \in 0 .. m
  BY <1>1
<1>5. \A i \in 1 .. m : up[i - 1] = CutAt(s, n, i - 1) /\ up[i] = CutAt(s, n, i)
  BY <1>4
<1> HIDE DEF up
<1>6. \A i \in 1 .. m : up[i - 1] <= up[i]
  BY <1>1, <1>5
<1>7. \A i \in 1 .. m : Pieces(s, n)[i] = SubSeq(s, up[i - 1] + 1, up[i])
  BY <1>1, <1>5
<1>8. \A i \in 1 .. m : i < m => parts[i] = SubSeq(s, up[i - 1] + 1, up[i])
  <2>1. \A i \in 1 .. m : i < m => i # m
    BY <1>1
  <2> QED
    BY <1>1, <1>7, <2>1, Zenon
<1>9. parts[m] = SubSeq(s, up[m - 1] + 1, up[m]) \o pad
  BY <1>1, <1>2, <1>7, Zenon
<1>10. s \in Seq(Bytes) /\ pad \in Seq(Bytes) /\ m \in Nat /\ Len(parts) = m
  BY <1>1
<1> QED
  BY ONLY <1>2, <1>3, <1>6, <1>8, <1>9, <1>10, JoinPieces, ZenonT(60)

LEMMA DivCeilUnique ==
  ASSUME NEW a \in Nat, NEW d \in Nat, d > 0, NEW q \in Nat,
         a <= q * d, q > 0, (q - 1) * d < a
  PROVE  DivCeil(a, d) = q
<1> DEFINE r == DivCeil(a, d)
<1>1. q - 1 \in Nat /\ (q - 1) * d \in Nat /\ q * d \in Nat
  <2>1. q - 1 \in Nat
    OBVIOUS
  <2> QED
    BY <2>1, Multiples
<1>2. a > 0
  BY <1>1
<1>3. r \in Nat /\ a <= r * d /\ r > 0 /\ (r - 1) * d < a
  BY <1>2, DivCeilBounds, Zenon
<1> HIDE DEF r
<1>4. r - 1 \in Nat /\ (r - 1) * d \in Nat /\ r * d \in Nat
  <2>1. r - 1 \in Nat
    BY <1>3
  <2> QED
    BY <1>3, <2>1, Multiples
<1>5. ~(r < q)
  <2> SUFFICES ASSUME r <= q - 1 PROVE FALSE
    BY <1>3
  <2>1. r * d <= (q - 1) * d
    BY <1>1, <1>3, Multiples
  <2> QED
    BY <1>1, <1>3, <1>4, <2>1
<1>6. ~(q < r)
  <2> SUFFICES ASSUME q <= r - 1 PROVE FALSE
    BY <1>3
  <2>1. q * d <= (r - 1) * d
    BY <1>1, <1>4, Multiples
  <2> QED
    BY <1>1, <1>3, <1>4, <2>1
<1> QED
  BY <1>3, <1>5, <1>6 DEF r

(* What is hidden in the public keys: the prefix and the file.             *)
Hidden(file) == ORDIKNOT_PREFIX \o file

LEMMA HiddenIs ==
  ASSUME NEW file \in Seq(Bytes)
  PROVE  /\ Hidden(file) \in Seq(Bytes) /\ Len(Hidden(file)) = 3 + Len(file)
         /\ Hidden(file) # <<>>
         /\ \A k \in 1 .. 3 : Hidden(file)[k] = ORDIKNOT_PREFIX[k]
         /\ \A k \in 1 .. Len(file) : Hidden(file)[3 + k] = file[k]
<1> DEFINE s == Hidden(file)
<1>1. /\ s \in Seq(Bytes) /\ Len(s) = 3 + Len(file)
      /\ \A k \in 1 .. 3 + Len(file) :
           s[k] = IF k <= 3 THEN ORDIKNOT_PREFIX[k] ELSE file[k - 3]
  <2>1. ORDIKNOT_PREFIX \in Seq(Bytes) /\ Len(ORDIKNOT_PREFIX) = 3
    BY P2wshSizes
  <2>2. file \in Seq(Bytes)
    OBVIOUS
  <2>3. /\ s \in Seq(Bytes) /\ Len(s) = Len(ORDIKNOT_PREFIX) + Len(file)
        /\ \A k \in 1 .. Len(ORDIKNOT_PREFIX) + Len(file) :
             s[k] = IF k <= Len(ORDIKNOT_PREFIX) THEN ORDIKNOT_PREFIX[k]
                    ELSE file[k - Len(ORDIKNOT_PREFIX)]
    BY <2>1, <2>2, ConcatProperties, Zenon DEF Hidden
  <2> HIDE DEF s
  <2> QED
    BY <2>1, <2>3
<1> HIDE DEF s
<1>2. \A k \in 1 .. 3 : s[k] = ORDIKNOT_PREFIX[k]
  BY <1>1
<1>3. \A k \in 1 .. Len(file) : s[3 + k] = file[k]
  BY <1>1
<1>4. s # <<>>
  BY <1>1
<1> QED
  BY <1>1, <1>2, <1>3, <1>4 DEF s

(* The number of inputs is that of the pieces of what is hidden.           *)
LEMMA InputCount ==
  ASSUME NEW size \in Nat
  PROVE  /\ DivCeil(3 + size, BYTES_PER_ADDITIONAL_INPUT) = CalculateInputsNeeded(size)
         /\ CalculateInputsNeeded(size)
              = 1 + DivCeil(size - Least(MAX_DATA_PER_INPUT, size), BYTES_PER_ADDITIONAL_INPUT)
<1> DEFINE B == BYTES_PER_ADDITIONAL_INPUT
           M == MAX_DATA_PER_INPUT
           rest == size - Least(M, size)
           q == DivCeil(rest, B)
<1>1. B \in Nat /\ B >= 3 /\ M = B - 3 /\ M \in Nat
  BY P2wshSizes
<1> HIDE DEF B, M
<1>2. /\ rest \in Nat /\ (size <= M <=> rest = 0)
      /\ size > M => rest = size - M
  BY <1>1 DEF Least
<1> HIDE DEF rest
<1>3. /\ q \in Nat /\ rest <= q * B /\ (rest = 0 => q = 0)
      /\ rest > 0 => q > 0 /\ (q - 1) * B < rest
  <2>1. B > 0
    BY <1>1
  <2> QED
    BY <1>1, <1>2, <2>1, DivCeilBounds, Zenon
<1>4. CalculateInputsNeeded(size) = 1 + q
  <2>1. CASE size <= M
    BY <1>2, <1>3, <2>1 DEF CalculateInputsNeeded, M, B
  <2>2. CASE ~(size <= M)
    <3>1. rest = size - M
      BY <1>1, <1>2, <2>2
    <3> QED
      BY <2>2, <3>1 DEF CalculateInputsNeeded, M, B
  <2> QED
    BY <2>1, <2>2
<1>5. DivCeil(3 + size, B) = 1 + q
  <2> HIDE DEF q
  <2>1. q * B \in Nat /\ (q + 1) * B = q * B + B
    BY <1>1, <1>3, Multiples
  <2>2. 3 + size <= q * B + B /\ q * B < 3 + size
    <3>1. CASE rest = 0
      <4>1. q = 0 /\ 0 * B = 0
        BY <1>1, <1>3, <3>1
      <4>2. size <= M
        BY <1>2, <3>1
      <4> QED
        BY <1>1, <4>1, <4>2
    <3>2. CASE rest # 0
      <4> DEFINE x == q * B
                 y == (q - 1) * B
      <4>1. q - 1 \in Nat /\ y \in Nat /\ x = y + B
        <5>1. q - 1 \in Nat /\ (q - 1) + 1 = q
          BY <1>2, <1>3, <3>2
        <5> QED
          BY <1>1, <5>1, Multiples
      <4>2. x \in Nat /\ rest <= x /\ y < rest /\ rest = size - M
        BY <1>1, <1>2, <1>3, <2>1, <3>2
      <4> HIDE DEF x, y
      <4>3. 3 + size <= x + B /\ x < 3 + size
        BY <1>1, <4>1, <4>2
      <4> QED
        BY <4>3 DEF x
    <3> QED
      BY <3>1, <3>2
  <2>3. q + 1 \in Nat /\ q + 1 > 0 /\ (q + 1) - 1 = q /\ 1 + q = q + 1
    BY <1>3
  <2>4. 3 + size \in Nat /\ B > 0 /\ 3 + size <= (q + 1) * B /\ ((q + 1) - 1) * B < 3 + size
    BY <1>1, <2>1, <2>2, <2>3
  <2>5. DivCeil(3 + size, B) = q + 1
    BY <1>1, <2>3, <2>4, DivCeilUnique
  <2> QED
    BY <2>3, <2>5
<1> QED
  BY <1>4, <1>5 DEF B, M, q, rest

(* The chunks of the inputs are the pieces of what is hidden.              *)
LEMMA InputsArePieces ==
  ASSUME NEW file \in Seq(Bytes)
  PROVE  SplitDataForInputs(file) = Pieces(Hidden(file), BYTES_PER_ADDITIONAL_INPUT)
<1> DEFINE B == BYTES_PER_ADDITIONAL_INPUT
           M == MAX_DATA_PER_INPUT
           S == Hidden(file)
           L == Len(file)
           first == Least(M, L)
           head == ORDIKNOT_PREFIX \o SubSeq(file, 1, first)
           tail == SubSeq(file, first + 1, L)
           rest == Pieces(tail, B)
           all == Pieces(S, B)
           q == DivCeil(L - first, B)
<1>1. B \in Nat /\ B >= 3 /\ M = B - 3 /\ M \in Nat
  BY P2wshSizes
<1>2. /\ S \in Seq(Bytes) /\ Len(S) = 3 + L /\ L \in Nat
      /\ \A k \in 1 .. 3 : S[k] = ORDIKNOT_PREFIX[k]
      /\ \A k \in 1 .. L : S[3 + k] = file[k]
  BY HiddenIs
<1>3. DivCeil(3 + L, B) = 1 + q
  BY <1>2, InputCount
<1>4. SplitDataForInputs(file) = <<head>> \o rest
  BY Zenon DEF SplitDataForInputs
<1> HIDE DEF B, M, S
<1>5. first \in 0 .. L /\ (L <= M => first = L) /\ (L > M => first = M) /\ first <= M
  BY <1>1, <1>2 DEF Least
<1> HIDE DEF first
<1>6. tail \in Seq(Bytes) /\ Len(tail) = L - first /\ \A k \in 1 .. L - first : tail[k] = file[first + k]
  <2>1. file \in Seq(Bytes) /\ L \in Nat /\ L = Len(file) /\ first \in 0 .. L
    BY <1>2, <1>5
  <2> HIDE DEF L
  <2> QED
    BY <2>1
<1> HIDE DEF tail
<1>7. /\ q \in Nat
      /\ rest = [i \in 1 .. q |-> SubSeq(tail, (i - 1) * B + 1, Least(i * B, L - first))]
      /\ \A i \in 1 .. q : rest[i] \in Seq(Bytes)
      /\ q > 0 => L > M
  <2>1. /\ DivCeil(Len(tail), B) \in Nat /\ (DivCeil(Len(tail), B) = 0 <=> tail = <<>>)
        /\ \A i \in 1 .. DivCeil(Len(tail), B) : Pieces(tail, B)[i] \in Seq(Bytes)
    <3>1. B > 0
      BY <1>1
    <3> QED
      BY <1>1, <1>6, <3>1, PiecesAre
  <2>2. rest = [i \in 1 .. DivCeil(Len(tail), B) |->
                  SubSeq(tail, (i - 1) * B + 1, Least(i * B, Len(tail)))]
    BY Zenon DEF Pieces
  <2>3. DivCeil(Len(tail), B) = q
    BY <1>6
  <2>4. q > 0 => L > M
    <3>1. ASSUME q > 0, L <= M PROVE FALSE
      <4>1. tail = <<>>
        BY <1>2, <1>5, <1>6, <3>1
      <4> QED
        BY <2>1, <2>3, <3>1, <4>1
    <3> QED
      BY <1>1, <1>2, <3>1
  <2> QED
    BY <1>6, <2>1, <2>2, <2>3, <2>4
<1> HIDE DEF q
<1>8. all = [i \in 1 .. 1 + q |-> SubSeq(S, (i - 1) * B + 1, Least(i * B, 3 + L))]
  BY <1>2, <1>3 DEF Pieces
<1>9. head = all[1] /\ head \in Seq(Bytes)
  <2>1. 1 \in 1 .. 1 + q /\ (1 - 1) * B + 1 = 1 /\ 1 * B = B
    BY <1>1, <1>7
  <2>2. all[1] = SubSeq(S, 1, Least(B, 3 + L))
    BY <1>8, <2>1
  <2>3. Least(B, 3 + L) = 3 + first
    BY <1>1, <1>2, <1>5 DEF Least
  <2>4. SubSeq(file, 1, first) \in Seq(Bytes) /\ Len(SubSeq(file, 1, first)) = first
        /\ \A k \in 1 .. first : SubSeq(file, 1, first)[k] = file[k]
    BY <1>2, <1>5
  <2>5. /\ head \in Seq(Bytes) /\ Len(head) = 3 + first
        /\ \A k \in 1 .. 3 + first :
             head[k] = IF k <= 3 THEN ORDIKNOT_PREFIX[k] ELSE SubSeq(file, 1, first)[k - 3]
    <3> DEFINE part == SubSeq(file, 1, first)
    <3>1. ORDIKNOT_PREFIX \in Seq(Bytes) /\ Len(ORDIKNOT_PREFIX) = 3
      BY P2wshSizes
    <3>2. part \in Seq(Bytes) /\ Len(part) = first
      BY <2>4
    <3> HIDE DEF part
    <3>3. /\ ORDIKNOT_PREFIX \o part \in Seq(Bytes)
          /\ Len(ORDIKNOT_PREFIX \o part) = Len(ORDIKNOT_PREFIX) + Len(part)
          /\ \A k \in 1 .. Len(ORDIKNOT_PREFIX) + Len(part) :
               (ORDIKNOT_PREFIX \o part)[k]
                 = IF k <= Len(ORDIKNOT_PREFIX) THEN ORDIKNOT_PREFIX[k]
                   ELSE part[k - Len(ORDIKNOT_PREFIX)]
      BY <3>1, <3>2, ConcatProperties, Zenon
    <3>4. head = ORDIKNOT_PREFIX \o part
      BY DEF part
    <3> HIDE DEF head
    <3>5. /\ head \in Seq(Bytes) /\ Len(head) = 3 + first
          /\ \A k \in 1 .. 3 + first :
               head[k] = IF k <= 3 THEN ORDIKNOT_PREFIX[k] ELSE part[k - 3]
      BY <3>1, <3>2, <3>3, <3>4
    <3> QED
      BY <3>5 DEF part
  <2>6. SubSeq(S, 1, 3 + first) \in Seq(Bytes) /\ Len(SubSeq(S, 1, 3 + first)) = 3 + first
        /\ \A k \in 1 .. 3 + first : SubSeq(S, 1, 3 + first)[k] = S[k]
    BY <1>2, <1>5
  <2> HIDE DEF head
  <2>7. \A k \in 1 .. 3 + first : head[k] = S[k]
    <3> SUFFICES ASSUME NEW k \in 1 .. 3 + first PROVE head[k] = S[k]
      OBVIOUS
    <3>1. CASE k <= 3
      BY <1>2, <1>5, <2>5, <3>1
    <3>2. CASE ~(k <= 3)
      <4>1. k - 3 \in 1 .. first /\ k - 3 \in 1 .. L /\ 3 + (k - 3) = k
        BY <1>2, <1>5, <3>2
      <4> QED
        BY <1>2, <2>4, <2>5, <3>2, <4>1, ZenonT(60)
    <3> QED
      BY <3>1, <3>2
  <2>8. head = SubSeq(S, 1, 3 + first)
    BY <2>5, <2>6, <2>7, SeqEqual
  <2> QED
    BY <2>2, <2>3, <2>5, <2>8
<1> HIDE DEF head
<1>10. ASSUME NEW i \in 1 .. q
       PROVE  rest[i] = all[i + 1]
  <2> DEFINE x == (i - 1) * B
             y == i * B
             z == (i + 1) * B
  <2>1. x \in Nat /\ y = x + B /\ z = y + B
    <3>1. i - 1 \in Nat /\ (i - 1) + 1 = i /\ i \in Nat
      BY <1>7
    <3> QED
      BY <1>1, <3>1, Multiples
  <2>2. rest[i] = SubSeq(tail, x + 1, Least(y, L - first))
    BY <1>7
  <2>3. all[i + 1] = SubSeq(S, y + 1, Least(z, 3 + L))
    <3>1. i + 1 \in 1 .. 1 + q /\ (i + 1) - 1 = i
      BY <1>7
    <3> QED
      BY <1>8, <3>1
  <2> HIDE DEF x, y, z
  <2>4. first = B - 3 /\ L > B - 3
    <3>1. q > 0
      <4> HIDE DEF rest
      <4> QED
        BY <1>7
    <3>2. L > M
      BY <1>7, <3>1, Zenon
    <3> QED
      BY <1>1, <1>5, <3>2
  <2> DEFINE to == Least(y, L - first)
  <2>5. Least(z, 3 + L) = to + B
    BY <1>1, <1>2, <2>1, <2>4 DEF Least
  <2>6. to \in Int /\ to <= L - first
    BY <1>1, <1>2, <2>1, <2>4 DEF Least
  <2> HIDE DEF to
  <2>7. /\ SubSeq(tail, x + 1, to) \in Seq(Bytes)
        /\ Len(SubSeq(tail, x + 1, to)) = IF x + 1 <= to THEN to - x ELSE 0
        /\ \A k \in 1 .. to - x : SubSeq(tail, x + 1, to)[k] = tail[x + k]
    BY <1>6, <2>1, <2>6
  <2>8. /\ SubSeq(S, y + 1, to + B) \in Seq(Bytes)
        /\ Len(SubSeq(S, y + 1, to + B)) = IF x + 1 <= to THEN to - x ELSE 0
        /\ \A k \in 1 .. to - x : SubSeq(S, y + 1, to + B)[k] = S[y + k]
    BY <1>1, <1>2, <2>1, <2>4, <2>6
  <2>9. \A k \in 1 .. to - x : tail[x + k] = S[y + k]
    <3> SUFFICES ASSUME NEW k \in 1 .. to - x PROVE tail[x + k] = S[y + k]
      OBVIOUS
    <3>1. x + k \in 1 .. L - first /\ first + (x + k) \in 1 .. L /\ 3 + (first + (x + k)) = y + k
      BY <1>1, <1>2, <2>1, <2>4, <2>6
    <3> QED
      BY <1>2, <1>6, <3>1
  <2>10. SubSeq(tail, x + 1, to) = SubSeq(S, y + 1, to + B)
    <3> DEFINE u == SubSeq(tail, x + 1, to)
               v == SubSeq(S, y + 1, to + B)
    <3>1. u \in Seq(Bytes) /\ v \in Seq(Bytes) /\ Len(u) = Len(v)
          /\ \A k \in 1 .. Len(u) : k \in 1 .. to - x
      BY <2>1, <2>6, <2>7, <2>8, SMTT(60)
    <3>2. \A k \in 1 .. to - x : u[k] = v[k]
      BY <2>7, <2>8, <2>9
    <3> HIDE DEF u, v
    <3>3. u = v
      BY <3>1, <3>2, SeqEqual
    <3> QED
      BY <3>3 DEF u, v
  <2> QED
    BY <2>2, <2>3, <2>5, <2>10 DEF to
<1>11. <<head>> \o rest = all
  <2>1. <<head>> \o rest = [i \in 1 .. 1 + q |-> IF i = 1 THEN head ELSE rest[i - 1]]
    <3>1. rest \in Seq(Seq(Bytes)) /\ Len(rest) = q /\ <<head>> \in Seq(Seq(Bytes))
          /\ Len(<<head>>) = 1 /\ <<head>>[1] = head
      BY <1>7, <1>9
    <3> HIDE DEF rest
    <3>2. /\ <<head>> \o rest \in Seq(Seq(Bytes)) /\ Len(<<head>> \o rest) = 1 + q
          /\ \A i \in 1 .. 1 + q :
               (<<head>> \o rest)[i] = IF i <= 1 THEN <<head>>[i] ELSE rest[i - 1]
      BY <3>1, ConcatProperties
    <3> DEFINE j == <<head>> \o rest
               e == [i \in 1 .. 1 + q |-> IF i = 1 THEN head ELSE rest[i - 1]]
    <3>3. j = [i \in 1 .. 1 + q |-> j[i]]
      <4>1. j \in Seq(Seq(Bytes)) /\ Len(j) = 1 + q
        BY <3>2
      <4> HIDE DEF j
      <4> QED
        BY ONLY <4>1
    <3>4. \A i \in 1 .. 1 + q : j[i] = IF i = 1 THEN head ELSE rest[i - 1]
      BY <1>7, <3>1, <3>2
    <3> HIDE DEF j
    <3> QED
      BY <3>3, <3>4 DEF j
  <2>2. \A i \in 1 .. 1 + q : (IF i = 1 THEN head ELSE rest[i - 1]) = all[i]
    <3> SUFFICES ASSUME NEW i \in 1 .. 1 + q, i # 1 PROVE rest[i - 1] = all[i]
      BY <1>9
    <3>1. i - 1 \in 1 .. q /\ (i - 1) + 1 = i
      BY <1>7
    <3> QED
      BY <1>10, <3>1
  <2>3. all = [i \in 1 .. 1 + q |-> all[i]]
    BY <1>8
  <2> HIDE DEF all, rest
  <2> QED
    BY <2>1, <2>2, <2>3
<1> QED
  BY <1>4, <1>11 DEF B, S

-----------------------------------------------------------------------------
(* The scripts of the P2WSH format *)

(* The loop over a script only looks at positions further on. *)
LEMMA ScanLocal ==
  ASSUME NEW script, Len(script) \in Nat, NEW pos \in Nat,
         pos <= Len(script) => script[pos] \in Nat,
         NEW g, NEW h, \A q \in pos + 1 .. Len(script) + 1 : g[q] = h[q]
  PROVE  ScanStep(script, g, pos) = ScanStep(script, h, pos)
<1> DEFINE op == script[pos]
           end == pos + op
<1>1. CASE pos > Len(script)
  BY <1>1, Zenon DEF ScanStep
<1>2. CASE ~(pos > Len(script)) /\ op \in 1 .. 75 /\ ~(end > Len(script))
  <2>1. g[end + 1] = h[end + 1]
    <3> HIDE DEF op
    <3>1. end + 1 \in pos + 1 .. Len(script) + 1
      BY <1>2
    <3> QED
      BY <3>1, Zenon
  <2> QED
    BY <1>2, <2>1 DEF ScanStep
<1>3. CASE ~(pos > Len(script)) /\ ~(op \in 1 .. 75 /\ ~(end > Len(script)))
  BY <1>3 DEF ScanStep
<1> QED
  BY <1>1, <1>2, <1>3

(* So it can be run from the end of the script to its beginning. *)
LEMMA ScanExists ==
  ASSUME NEW script, Len(script) \in Nat,
         \A pos \in 2 .. Len(script) : script[pos] \in Nat
  PROVE  \E scan : scan = [pos \in 2 .. Len(script) + 1 |-> ScanStep(script, scan, pos)]
<1> DEFINE M == Len(script) + 1
           Runs(g, n) == \A pos \in 2 .. M : pos >= M - n => g[pos] = ScanStep(script, g, pos)
           T == {n \in Nat : \E g : Runs(g, n)}
<1>1. M \in Nat
  OBVIOUS
<1>2. ASSUME NEW g, NEW n \in Int,
             \A pos \in 2 .. M : pos > M - n => g[pos] = ScanStep(script, g, pos)
      PROVE  \E h : Runs(h, n)
  <2> DEFINE h == [pos \in 2 .. M |-> IF pos = M - n THEN ScanStep(script, g, pos) ELSE g[pos]]
  <2>1. ASSUME NEW pos \in 2 .. M, pos >= M - n
        PROVE  h[pos] = ScanStep(script, h, pos)
    <3>1. \A q \in pos + 1 .. M : g[q] = h[q]
      BY <1>1, <2>1
    <3>2. ScanStep(script, g, pos) = ScanStep(script, h, pos)
      <4>1. pos \in Nat /\ (pos <= Len(script) => script[pos] \in Nat)
        OBVIOUS
      <4> HIDE DEF h
      <4> QED
        BY <3>1, <4>1, ScanLocal
    <3>3. h[pos] = ScanStep(script, g, pos)
      <4>1. CASE pos = M - n
        BY <4>1
      <4>2. CASE pos # M - n
        <5>1. pos > M - n
          BY <1>1, <2>1, <4>2
        <5> QED
          BY <1>2, <4>2, <5>1
      <4> QED
        BY <4>1, <4>2
    <3> QED
      BY <3>2, <3>3
  <2> HIDE DEF h
  <2>2. Runs(h, n)
    BY <2>1
  <2> HIDE DEF Runs
  <2> QED
    BY <2>2
<1>3. 0 \in T
  <2> DEFINE g == [pos \in {} |-> 0]
  <2>1. \A pos \in 2 .. M : pos > M - 0 => g[pos] = ScanStep(script, g, pos)
    BY <1>1
  <2> HIDE DEF g, Runs
  <2>2. \E h : Runs(h, 0)
    BY <1>2, <2>1
  <2> QED
    BY <2>2
<1>4. ASSUME NEW n \in Nat, n \in T
      PROVE  n + 1 \in T
  <2>1. PICK g : Runs(g, n)
    BY <1>4
  <2>2. \A pos \in 2 .. M : pos > M - (n + 1) => g[pos] = ScanStep(script, g, pos)
    BY <1>1, <2>1
  <2> HIDE DEF Runs
  <2>3. \E h : Runs(h, n + 1)
    <3>1. n + 1 \in Int
      OBVIOUS
    <3> QED
      BY <1>2, <2>2, <3>1
  <2> QED
    BY <2>3
<1>5. M \in T
  <2> HIDE DEF T
  <2>1. Nat \subseteq T
    BY <1>3, <1>4, NatSetInduction
  <2> QED
    BY <1>1, <2>1
<1>6. PICK g : \A pos \in 2 .. M : g[pos] = ScanStep(script, g, pos)
  <2>1. PICK g : Runs(g, M)
    BY <1>5
  <2>2. \A pos \in 2 .. M : pos >= M - M
    BY <1>1
  <2> QED
    BY <2>1, <2>2
<1> DEFINE h == [pos \in 2 .. M |-> g[pos]]
<1>7. \A pos \in 2 .. M : ScanStep(script, g, pos) = ScanStep(script, h, pos)
  <2> SUFFICES ASSUME NEW pos \in 2 .. M
               PROVE  ScanStep(script, g, pos) = ScanStep(script, h, pos)
    OBVIOUS
  <2>1. pos \in Nat /\ (pos <= Len(script) => script[pos] \in Nat)
        /\ \A q \in pos + 1 .. M : g[q] = h[q]
    BY <1>1
  <2> HIDE DEF h
  <2> QED
    BY <2>1, ScanLocal
<1>8. \A pos \in 2 .. M : h[pos] = ScanStep(script, h, pos)
  BY <1>6, <1>7
<1>9. h = [pos \in 2 .. M |-> h[pos]]
  OBVIOUS
<1> HIDE DEF h
<1>10. h = [pos \in 2 .. M |-> ScanStep(script, h, pos)]
  BY <1>8, <1>9
<1> QED
  BY <1>10, Zenon

LEMMA Scans ==
  ASSUME NEW script \in Seq(Bytes), script # <<>>
  PROVE  \E scan : /\ \A pos \in 2 .. Len(script) + 1 : scan[pos] = ScanStep(script, scan, pos)
                   /\ PubkeysFrom(script) = scan[2]
<1> DEFINE Is(scan) == scan = [pos \in 2 .. Len(script) + 1 |-> ScanStep(script, scan, pos)]
           scan == CHOOSE s : Is(s)
<1>1. \E s : Is(s)
  <2>1. Len(script) \in Nat /\ \A pos \in 2 .. Len(script) : script[pos] \in Nat
    BY DEF Bytes
  <2> QED
    BY <2>1, ScanExists, Zenon
<1>2. PubkeysFrom(script) = scan[2]
  BY Zenon DEF PubkeysFrom
<1>3. Is(scan)
  BY <1>1, Zenon
<1> HIDE DEF scan
<1> QED
  BY <1>2, <1>3

(* The keys of the script that hides the fake ones. *)
KeysOf(fakes) == <<RealPubkey>> \o fakes
FakesOk(fakes) ==
  /\ fakes \in Seq(Seq(Bytes)) /\ Len(fakes) \in 1 .. 19
  /\ \A i \in 1 .. Len(fakes) : Len(fakes[i]) = DATA_BYTES_PER_PUBKEY + 1

(* Where in the script the push of key j begins. *)
PushAt(j) == 2 + (j - 1) * (DATA_BYTES_PER_PUBKEY + 2)

LEMMA At ==
  ASSUME NEW a \in Seq(Bytes), NEW b \in Seq(Bytes)
  PROVE  /\ a \o b \in Seq(Bytes) /\ Len(a \o b) = Len(a) + Len(b)
         /\ \A k \in 1 .. Len(a) : (a \o b)[k] = a[k]
         /\ \A k \in 1 .. Len(b) : (a \o b)[Len(a) + k] = b[k]
<1>1. /\ a \o b \in Seq(Bytes) /\ Len(a \o b) = Len(a) + Len(b)
      /\ \A k \in 1 .. Len(a) + Len(b) :
           (a \o b)[k] = IF k <= Len(a) THEN a[k] ELSE b[k - Len(a)]
  BY ConcatProperties, Zenon
<1> DEFINE s == a \o b
<1> HIDE DEF s
<1>2. \A k \in 1 .. Len(a) : s[k] = a[k]
  BY <1>1 DEF s
<1>3. \A k \in 1 .. Len(b) : s[Len(a) + k] = b[k]
  <2>1. \A k \in 1 .. Len(b) : Len(a) + k \in 1 .. Len(a) + Len(b) /\ ~(Len(a) + k <= Len(a))
          /\ (Len(a) + k) - Len(a) = k
    OBVIOUS
  <2> QED
    BY <1>1, <2>1 DEF s
<1> QED
  BY <1>1, <1>2, <1>3 DEF s

LEMMA Pushed ==
  ASSUME NEW b \in Seq(Bytes)
  PROVE  /\ Push(b) \in Seq(Bytes) /\ Len(Push(b)) = Len(b) + 1
         /\ Push(b)[1] = Len(b) /\ \A k \in 1 .. Len(b) : Push(b)[k + 1] = b[k]
<1>1. <<Len(b)>> \in Seq(Bytes) /\ Len(<<Len(b)>>) = 1 /\ <<Len(b)>>[1] = Len(b)
  BY DEF Bytes
<1> DEFINE a == <<Len(b)>>
<1> HIDE DEF a
<1>2. /\ a \o b \in Seq(Bytes) /\ Len(a \o b) = Len(a) + Len(b)
      /\ \A k \in 1 .. Len(a) : (a \o b)[k] = a[k]
      /\ \A k \in 1 .. Len(b) : (a \o b)[Len(a) + k] = b[k]
  BY <1>1, At, Zenon DEF a
<1>3. Push(b) = a \o b
  BY DEF Push, a
<1>4. Len(a) = 1 /\ a[1] = Len(b)
  BY <1>1 DEF a
<1> HIDE DEF Push
<1> QED
  BY <1>2, <1>3, <1>4

LEMMA RealKey ==
  /\ RealPubkey \in Seq(Bytes) /\ Len(RealPubkey) = DATA_BYTES_PER_PUBKEY + 1
  /\ DATA_BYTES_PER_PUBKEY \in 3 .. 74
<1>1. /\ RealPubkey \in Seq(0 .. 255) /\ Len(RealPubkey) = DATA_BYTES_PER_PUBKEY + 1
      /\ DATA_BYTES_PER_PUBKEY \in 3 .. 74
  BY P2wshAssumption
<1>2. RealPubkey \in Seq(Nat)
  <2> DEFINE L == Len(RealPubkey)
  <2>1. L \in Nat /\ RealPubkey = [i \in 1 .. L |-> RealPubkey[i]]
    BY <1>1
  <2>2. \A i \in 1 .. L : RealPubkey[i] \in Nat
    <3>1. \A i \in 1 .. L : RealPubkey[i] \in 0 .. 255
      BY <1>1, ElementOfSeq
    <3>2. \A x \in 0 .. 255 : x \in Nat
      OBVIOUS
    <3> QED
      BY <3>1, <3>2, Zenon
  <2> HIDE DEF L
  <2>3. [i \in 1 .. L |-> RealPubkey[i]] \in Seq(Nat)
    BY <2>1, <2>2
  <2> QED
    BY <2>1, <2>3, Zenon
<1> QED
  BY <1>1, <1>2 DEF Bytes

(* A script begins with OP_1, then has the pushes of the keys one after    *)
(* the other, and ends with their number and OP_CHECKMULTISIG.             *)
LEMMA ScriptLayout ==
  ASSUME NEW fakes, FakesOk(fakes)
  PROVE  LET s == WitnessScript(fakes)
             n == 1 + Len(fakes)
             D == DATA_BYTES_PER_PUBKEY
         IN /\ s \in Seq(Bytes)
            /\ \A j \in 1 .. n :
                 /\ PushAt(j) \in Nat /\ PushAt(j) >= 2 /\ PushAt(j + 1) = PushAt(j) + (D + 2)
                 /\ PushAt(j + 1) <= Len(s)
                 /\ s[PushAt(j)] = D + 1
                 /\ \A k \in 1 .. D + 1 : s[PushAt(j) + k] = KeysOf(fakes)[j][k]
            /\ n <= 16 => s[PushAt(n + 1)] = 80 + n
            /\ n > 16 => /\ s[PushAt(n + 1)] = 1 /\ Len(s) >= PushAt(n + 1) + 2
                         /\ s[PushAt(n + 1) + 2] = 174
<1> DEFINE s == WitnessScript(fakes)
           n == 1 + Len(fakes)
           D == DATA_BYTES_PER_PUBKEY
           W == D + 2
           pushes == [i \in DOMAIN fakes |-> Push(fakes[i])]
           a == <<81>>
           b == Push(RealPubkey)
           c == FlattenSeq(pushes)
           e == IF n <= 16 THEN <<80 + n>> ELSE Push(<<n>>)
           f == <<174>>
           m == Len(fakes)
<1>1. s = ((((a \o b) \o c) \o e) \o f)
  BY DEF WitnessScript
<1>2. m \in 1 .. 19 /\ n = m + 1 /\ D \in 3 .. 74 /\ W \in Nat
  BY RealKey DEF FakesOk
<1>3. a \in Seq(Bytes) /\ Len(a) = 1 /\ a[1] = 81 /\ f \in Seq(Bytes) /\ Len(f) = 1 /\ f[1] = 174
  BY DEF Bytes
<1>4. b \in Seq(Bytes) /\ Len(b) = W /\ b[1] = D + 1 /\ \A k \in 1 .. D + 1 : b[k + 1] = RealPubkey[k]
  <2>1. RealPubkey \in Seq(Bytes) /\ Len(RealPubkey) = D + 1
    BY RealKey
  <2> QED
    <3> HIDE DEF b
    <3>1. /\ Push(RealPubkey) \in Seq(Bytes) /\ Len(Push(RealPubkey)) = Len(RealPubkey) + 1
          /\ Push(RealPubkey)[1] = Len(RealPubkey)
          /\ \A k \in 1 .. Len(RealPubkey) : Push(RealPubkey)[k + 1] = RealPubkey[k]
      BY <2>1, Pushed, Zenon
    <3>2. b = Push(RealPubkey)
      BY DEF b
    <3>3. Len(b) = (D + 1) + 1
      BY <2>1, <3>1, <3>2
    <3> QED
      BY <1>2, <2>1, <3>1, <3>2, <3>3
<1>5. /\ pushes \in Seq(Seq(Bytes)) /\ Len(pushes) = m
      /\ \A i \in 1 .. m : /\ Len(pushes[i]) = W /\ pushes[i][1] = D + 1
                           /\ \A k \in 1 .. D + 1 : pushes[i][k + 1] = fakes[i][k]
  <2>1. fakes \in Seq(Seq(Bytes)) /\ DOMAIN fakes = 1 .. m /\ m \in Nat
    BY DEF FakesOk
  <2>2. \A i \in 1 .. m : fakes[i] \in Seq(Bytes) /\ Len(fakes[i]) = D + 1
    BY <2>1 DEF FakesOk
  <2>3. \A i \in 1 .. m : /\ Push(fakes[i]) \in Seq(Bytes) /\ Len(Push(fakes[i])) = W
                          /\ Push(fakes[i])[1] = D + 1
                          /\ \A k \in 1 .. D + 1 : Push(fakes[i])[k + 1] = fakes[i][k]
    <3> SUFFICES ASSUME NEW i \in 1 .. m
                 PROVE  /\ Push(fakes[i]) \in Seq(Bytes) /\ Len(Push(fakes[i])) = W
                        /\ Push(fakes[i])[1] = D + 1
                        /\ \A k \in 1 .. D + 1 : Push(fakes[i])[k + 1] = fakes[i][k]
      OBVIOUS
    <3> DEFINE key == fakes[i]
    <3>1. key \in Seq(Bytes) /\ Len(key) = D + 1
      BY <2>2
    <3> HIDE DEF key
    <3>2. /\ Push(key) \in Seq(Bytes) /\ Len(Push(key)) = Len(key) + 1
          /\ Push(key)[1] = Len(key) /\ \A k \in 1 .. Len(key) : Push(key)[k + 1] = key[k]
      BY <3>1, Pushed
    <3> QED
      BY <1>2, <3>1, <3>2 DEF key
  <2>4. pushes = [i \in 1 .. m |-> Push(fakes[i])]
    BY <2>1
  <2> QED
    BY <2>1, <2>3, <2>4
<1> HIDE DEF a, b, pushes, f, s, m, n, W, D
<1>6. /\ c \in Seq(Bytes) /\ Len(c) = m * W
      /\ \A i \in 1 .. m : \A k \in 1 .. W : c[(i - 1) * W + k] = pushes[i][k]
  <2>1. \A i \in 1 .. Len(pushes) : Len(pushes[i]) = W
    BY <1>5
  <2>2. /\ c \in Seq(Bytes) /\ Len(c) = Len(pushes) * W
        /\ \A i \in 1 .. Len(pushes) : \A k \in 1 .. W : c[(i - 1) * W + k] = pushes[i][k]
    <3>1. W \in Nat /\ pushes \in Seq(Seq(Bytes))
      BY <1>2, <1>5
    <3> HIDE DEF c
    <3>2. /\ FlattenSeq(pushes) \in Seq(Bytes) /\ Len(FlattenSeq(pushes)) = Len(pushes) * W
          /\ \A i \in 1 .. Len(pushes) : \A k \in 1 .. W :
               FlattenSeq(pushes)[(i - 1) * W + k] = pushes[i][k]
      BY ONLY <2>1, <3>1, FlattenUniform
    <3> QED
      BY <3>2, Zenon DEF c
  <2> QED
    BY <1>5, <2>2, Zenon
<1>7. /\ e \in Seq(Bytes)
      /\ n <= 16 => Len(e) = 1 /\ e[1] = 80 + n
      /\ n > 16 => Len(e) = 2 /\ e[1] = 1
  <2>1. <<n>> \in Seq(Bytes) /\ Len(<<n>>) = 1 /\ <<80 + n>> \in Seq(Bytes) /\ n \in Nat
    BY <1>2 DEF Bytes
  <2>2. Push(<<n>>) \in Seq(Bytes) /\ Len(Push(<<n>>)) = 2 /\ Push(<<n>>)[1] = 1
    <3> DEFINE one == <<n>>
    <3>1. one \in Seq(Bytes) /\ Len(one) = 1
      BY <2>1
    <3> HIDE DEF one
    <3>2. /\ Push(one) \in Seq(Bytes) /\ Len(Push(one)) = Len(one) + 1
          /\ Push(one)[1] = Len(one)
      BY <3>1, Pushed
    <3>3. Push(one) \in Seq(Bytes) /\ Len(Push(one)) = 2 /\ Push(one)[1] = 1
      BY <3>1, <3>2
    <3> QED
      BY <3>3 DEF one
  <2>3. CASE n <= 16
    BY <2>1, <2>3
  <2>4. CASE ~(n <= 16)
    BY <2>1, <2>2, <2>4
  <2> QED
    BY <2>3, <2>4
<1> HIDE DEF c, e
<1> DEFINE ab == a \o b
           abc == ab \o c
           abce == abc \o e
<1>8. /\ ab \in Seq(Bytes) /\ Len(ab) = 1 + W
      /\ \A k \in 1 .. W : ab[1 + k] = b[k]
  <2>1. /\ ab \in Seq(Bytes) /\ Len(ab) = Len(a) + Len(b)
        /\ \A k \in 1 .. Len(a) : ab[k] = a[k]
        /\ \A k \in 1 .. Len(b) : ab[Len(a) + k] = b[k]
    <3>1. a \in Seq(Bytes) /\ b \in Seq(Bytes)
      BY <1>3, <1>4
    <3> QED
      BY ONLY <3>1, At
  <2>2. Len(a) = 1 /\ Len(b) = W
    BY <1>3, <1>4
  <2> HIDE DEF ab
  <2> QED
    BY <2>1, <2>2
<1> HIDE DEF ab
<1>9. /\ abc \in Seq(Bytes) /\ Len(abc) = Len(ab) + Len(c)
      /\ \A k \in 1 .. Len(ab) : abc[k] = ab[k]
      /\ \A k \in 1 .. Len(c) : abc[Len(ab) + k] = c[k]
  BY <1>6, <1>8, At, Zenon
<1> HIDE DEF abc
<1>10. /\ abce \in Seq(Bytes) /\ Len(abce) = Len(abc) + Len(e)
       /\ \A k \in 1 .. Len(abc) : abce[k] = abc[k]
       /\ \A k \in 1 .. Len(e) : abce[Len(abc) + k] = e[k]
  BY <1>7, <1>9, At, Zenon
<1> HIDE DEF abce
<1>11. /\ s \in Seq(Bytes) /\ Len(s) = Len(abce) + Len(f)
       /\ \A k \in 1 .. Len(abce) : s[k] = abce[k]
       /\ \A k \in 1 .. Len(f) : s[Len(abce) + k] = f[k]
  <2>1. s = abce \o f
    BY <1>1 DEF abce, abc, ab
  <2>2. f \in Seq(Bytes) /\ abce \in Seq(Bytes)
    BY <1>3, <1>10
  <2>3. /\ abce \o f \in Seq(Bytes) /\ Len(abce \o f) = Len(abce) + Len(f)
        /\ \A k \in 1 .. Len(abce) : (abce \o f)[k] = abce[k]
        /\ \A k \in 1 .. Len(f) : (abce \o f)[Len(abce) + k] = f[k]
    BY ONLY <2>2, At
  <2> QED
    BY <2>1, <2>3, Zenon
<1> DEFINE mW == m * W
<1>12. mW \in Nat /\ PushAt(n + 1) = 2 + mW + W
  <2>1. m \in Nat /\ W \in Nat /\ (n + 1) - 1 = m + 1
    BY <1>2
  <2>2. mW \in Nat /\ (m + 1) * W = mW + W
    BY <2>1, Multiples
  <2> QED
    BY <1>2, <2>1, <2>2 DEF PushAt, W, D
<1> HIDE DEF mW
<1>13. Len(abc) = 1 + W + mW /\ Len(c) = mW /\ Len(ab) = 1 + W /\ Len(f) = 1
  BY <1>2, <1>3, <1>6, <1>8, <1>9, <1>12 DEF mW
<1>14. /\ n <= 16 => Len(s) = 3 + W + mW /\ s[2 + W + mW] = 80 + n
       /\ n > 16 => Len(s) = 4 + W + mW /\ s[2 + W + mW] = 1 /\ s[4 + W + mW] = 174
  <2>w. W \in Nat /\ mW \in Nat /\ n \in Nat
    BY <1>2, <1>12
  <2>l. Len(abc) = 1 + W + mW /\ Len(f) = 1
    BY <1>13
  <2>x. Len(abce) = Len(abc) + Len(e) /\ Len(s) = Len(abce) + Len(f)
    BY <1>10, <1>11
  <2>0. Len(abce) \in Nat /\ Len(e) \in {1, 2} /\ Len(abc) + 1 = 2 + W + mW
    <3>1. Len(abce) \in Nat
      BY <1>10
    <3>2. Len(e) \in {1, 2}
      BY <1>2, <1>7
    <3> QED
      BY <1>2, <1>12, <1>13, <3>1, <3>2
  <2> DEFINE le == Len(e)
             lc == Len(abc)
             lt == Len(abce)
             ls == Len(s)
  <2>i. /\ le \in {1, 2} /\ lc = 1 + W + mW /\ lt = lc + le /\ ls = lt + 1 /\ lc \in Nat
        /\ (n <= 16 => le = 1) /\ (n > 16 => le = 2)
    <3>1. lc \in Nat
      BY <2>l, <2>w
    <3>2. ls = lt + 1
      BY <2>l, <2>x
    <3> QED
      BY <1>7, <2>0, <2>l, <2>x, <3>1, <3>2
  <2> HIDE DEF le, lc, lt, ls
  <2>1. /\ 1 \in 1 .. le /\ lc + 1 \in 1 .. lt /\ 1 \in 1 .. 1 /\ lc + 1 = 2 + W + mW
        /\ n > 16 => lt + 1 = 4 + W + mW
        /\ n <= 16 => lt + 1 = 3 + W + mW
    BY <2>w, <2>i
  <2>2. s[lc + 1] = e[1]
    BY <1>10, <1>11, <2>1 DEF le, lc, lt
  <2>3. s[lt + 1] = 174
    BY <1>3, <1>11, <2>1, <2>l DEF lt
  <2> QED
    BY <1>7, <2>i, <2>1, <2>2, <2>3 DEF ls
<1>15. ASSUME NEW j \in 1 .. n
       PROVE  /\ PushAt(j) \in Nat /\ PushAt(j) >= 2 /\ PushAt(j + 1) = PushAt(j) + W
              /\ PushAt(j + 1) <= Len(s)
              /\ s[PushAt(j)] = D + 1
              /\ \A k \in 1 .. D + 1 : s[PushAt(j) + k] = KeysOf(fakes)[j][k]
  <2> DEFINE base == (j - 1) * W
             p == PushAt(j)
  <2>1. base \in Nat /\ PushAt(j + 1) = 2 + base + W /\ p = 2 + base
    <3>1. j - 1 \in Nat /\ W \in Nat /\ (j + 1) - 1 = (j - 1) + 1
      BY <1>2
    <3>2. base \in Nat /\ ((j - 1) + 1) * W = base + W
      BY <3>1, Multiples
    <3> QED
      BY <1>2, <3>1, <3>2 DEF PushAt, W, D
  <2>2. base <= mW
    <3>1. j - 1 \in Nat /\ W \in Nat /\ m \in Nat /\ j - 1 <= m
      BY <1>2
    <3> QED
      BY <3>1, Multiples DEF mW
  <2>3. j > 1 => base = (j - 2) * W + W /\ (j - 2) * W \in Nat
    <3> SUFFICES ASSUME j > 1 PROVE base = (j - 2) * W + W /\ (j - 2) * W \in Nat
      OBVIOUS
    <3>1. j - 2 \in Nat /\ W \in Nat /\ (j - 2) + 1 = j - 1
      BY <1>2
    <3> QED
      BY <3>1, Multiples
  <2> HIDE DEF base, p
  <2>4. p \in Nat /\ p >= 2 /\ PushAt(j + 1) = p + W /\ PushAt(j + 1) <= Len(s)
    BY <1>2, <1>12, <1>14, <2>1, <2>2
  <2>5. \A k \in 0 .. D + 1 : s[p + k] = abc[p + k]
    <3> SUFFICES ASSUME NEW k \in 0 .. D + 1 PROVE s[p + k] = abc[p + k]
      OBVIOUS
    <3>1. p + k \in 1 .. Len(abc) /\ p + k \in 1 .. Len(abce)
      BY <1>2, <1>7, <1>10, <1>12, <1>13, <2>1, <2>2 DEF W
    <3> QED
      BY <1>10, <1>11, <3>1
  <2>6. CASE j = 1
    <3>1. base = 0
      BY <1>2, <2>6 DEF base
    <3>2. \A k \in 0 .. D + 1 : s[p + k] = b[k + 1]
      <4> SUFFICES ASSUME NEW k \in 0 .. D + 1 PROVE s[p + k] = b[k + 1]
        OBVIOUS
      <4>1. p + k \in 1 .. Len(ab) /\ k + 1 \in 1 .. W /\ p + k = 1 + (k + 1)
        BY <1>2, <1>13, <2>1, <3>1 DEF W
      <4>2. ab[p + k] = b[k + 1]
        BY <1>8, <4>1
      <4> QED
        BY <1>9, <2>5, <4>1, <4>2
    <3>3. KeysOf(fakes)[j] = RealPubkey
      BY <2>6 DEF KeysOf, FakesOk
    <3>4. s[p] = D + 1
      <4>1. 0 \in 0 .. D + 1 /\ p + 0 = p /\ 0 + 1 = 1
        BY <1>2, <2>4
      <4> QED
        BY <1>4, <3>2, <4>1
    <3>5. \A k \in 1 .. D + 1 : s[p + k] = RealPubkey[k]
      <4>1. \A k \in 1 .. D + 1 : k \in 0 .. D + 1
        BY <1>2
      <4> QED
        BY <1>4, <3>2, <4>1
    <3> QED
      BY <2>4, <3>3, <3>4, <3>5 DEF p
  <2>7. CASE j > 1
    <3> DEFINE i == j - 1
               lo == (i - 1) * W
    <3>1. i \in 1 .. m /\ lo \in Nat /\ base = lo + W
      <4>1. i \in 1 .. m /\ i - 1 = j - 2
        BY <1>2, <2>7
      <4> QED
        BY <2>3, <2>7, <4>1
    <3>2. lo + W <= mW
      BY <1>2, <2>2, <3>1
    <3> HIDE DEF i, lo
    <3>3. \A k \in 0 .. D + 1 : s[p + k] = pushes[i][k + 1]
      <4> SUFFICES ASSUME NEW k \in 0 .. D + 1 PROVE s[p + k] = pushes[i][k + 1]
        OBVIOUS
      <4>1. /\ lo + (k + 1) \in 1 .. Len(c) /\ k + 1 \in 1 .. W
            /\ p + k = Len(ab) + (lo + (k + 1))
        BY <1>2, <1>12, <1>13, <2>1, <3>1, <3>2 DEF W
      <4>2. c[lo + (k + 1)] = pushes[i][k + 1]
        BY <1>6, <3>1, <4>1 DEF lo
      <4>3. abc[Len(ab) + (lo + (k + 1))] = c[lo + (k + 1)]
        BY <1>9, <4>1
      <4> QED
        BY <2>5, <4>1, <4>2, <4>3
    <3>4. KeysOf(fakes)[j] = fakes[i]
      <4>1. fakes \in Seq(Seq(Bytes)) /\ j \in 2 .. Len(fakes) + 1 /\ i = j - 1
        BY <1>2, <2>7 DEF FakesOk, m, i
      <4> QED
        BY <4>1 DEF KeysOf
    <3>5. s[p] = D + 1
      <4>1. 0 \in 0 .. D + 1 /\ p + 0 = p /\ 0 + 1 = 1
        BY <1>2, <2>4
      <4> QED
        BY <1>5, <3>1, <3>3, <4>1
    <3>6. \A k \in 1 .. D + 1 : s[p + k] = fakes[i][k]
      <4>1. \A k \in 1 .. D + 1 : k \in 0 .. D + 1
        BY <1>2
      <4> QED
        BY <1>5, <3>1, <3>3, <4>1
    <3> QED
      BY <2>4, <3>4, <3>5, <3>6 DEF p
  <2> QED
    BY <1>2, <2>6, <2>7
<1>16. /\ n <= 16 => s[PushAt(n + 1)] = 80 + n
       /\ n > 16 => /\ s[PushAt(n + 1)] = 1 /\ Len(s) >= PushAt(n + 1) + 2
                    /\ s[PushAt(n + 1) + 2] = 174
  <2>1. PushAt(n + 1) = 2 + W + mW /\ PushAt(n + 1) + 2 = 4 + W + mW
    BY <1>2, <1>12
  <2> QED
    BY <1>2, <1>12, <1>14, <2>1
<1> QED
  BY <1>11, <1>15, <1>16 DEF s, n, W, D, m

LEMMA Keys ==
  ASSUME NEW fakes, FakesOk(fakes)
  PROVE  /\ KeysOf(fakes) \in Seq(Seq(Bytes)) /\ Len(KeysOf(fakes)) = 1 + Len(fakes)
         /\ \A j \in 1 .. 1 + Len(fakes) : KeysOf(fakes)[j] \in Seq(Bytes)
                                           /\ Len(KeysOf(fakes)[j]) = DATA_BYTES_PER_PUBKEY + 1
         /\ Tail(KeysOf(fakes)) = fakes
<1>1. fakes \in Seq(Seq(Bytes)) /\ Len(fakes) \in Nat /\ RealPubkey \in Seq(Bytes)
  BY RealKey DEF FakesOk
<1> DEFINE keys == KeysOf(fakes)
<1>2. /\ keys \in Seq(Seq(Bytes)) /\ Len(keys) = 1 + Len(fakes) /\ keys[1] = RealPubkey
      /\ \A i \in 1 .. Len(fakes) : keys[i + 1] = fakes[i]
      /\ Tail(keys) = fakes
  BY <1>1 DEF KeysOf
<1> HIDE DEF keys
<1>3. ASSUME NEW j \in 1 .. 1 + Len(fakes)
      PROVE  keys[j] \in Seq(Bytes) /\ Len(keys[j]) = DATA_BYTES_PER_PUBKEY + 1
  <2>1. CASE j = 1
    BY <1>2, <2>1, RealKey
  <2>2. CASE j # 1
    <3>1. j - 1 \in 1 .. Len(fakes) /\ (j - 1) + 1 = j
      BY <1>1, <2>2
    <3>2. keys[j] = fakes[j - 1]
      BY <1>2, <3>1
    <3> QED
      BY <3>1, <3>2 DEF FakesOk
  <2> QED
    BY <2>1, <2>2
<1> QED
  BY <1>2, <1>3 DEF keys

(* What a step makes of the opcodes the encoder writes: the end of the     *)
(* keys, a push that is no key, and a key.                                 *)
LEMMA ScanStops ==
  ASSUME NEW script, NEW scan, NEW pos, ~(pos > Len(script)),
         script[pos] = 174 \/ script[pos] \in 81 .. 96
  PROVE  ScanStep(script, scan, pos) = Success(<<>>)
<1>1. \A x : x = 174 \/ x \in 81 .. 96 => ~(x \in 1 .. 75)
  BY ONLY TRUE
<1> QED
  BY <1>1 DEF ScanStep

LEMMA ScanReads ==
  ASSUME NEW script, NEW scan, NEW pos, ~(pos > Len(script)),
         NEW op, op = script[pos], op \in 1 .. 75, ~(pos + op > Len(script)),
         NEW rest, rest = scan[(pos + op) + 1]
  PROVE  ScanStep(script, scan, pos)
           = IF rest.ok /\ op = DATA_BYTES_PER_PUBKEY + 1
             THEN Success(<<SubSeq(script, pos + 1, pos + op)>> \o rest.data) ELSE rest
<1>1. \A x \in 1 .. 75 : ~(x = 174 \/ x \in 81 .. 96)
  BY ONLY TRUE
<1> QED
  BY <1>1 DEF ScanStep

LEMMA ScanTakes ==
  ASSUME NEW script, NEW scan, NEW pos, NEW op, NEW data, ~(pos > Len(script)),
         op = DATA_BYTES_PER_PUBKEY + 1, op \in 1 .. 75,
         script[pos] = op, ~(pos + op > Len(script)),
         scan[(pos + op) + 1] = Success(data)
  PROVE  ScanStep(script, scan, pos)
           = Success(<<SubSeq(script, pos + 1, pos + op)>> \o data)
<1> DEFINE rest == scan[(pos + op) + 1]
<1>1. ScanStep(script, scan, pos)
        = IF rest.ok /\ op = DATA_BYTES_PER_PUBKEY + 1
          THEN Success(<<SubSeq(script, pos + 1, pos + op)>> \o rest.data) ELSE rest
  <2>1. \A x \in 1 .. 75 : ~(x = 174 \/ x \in 81 .. 96)
    BY ONLY TRUE
  <2> QED
    BY <2>1 DEF ScanStep
<1>2. rest.ok /\ rest.data = data
  BY DEF Success
<1> HIDE DEF rest
<1> QED
  BY <1>1, <1>2, Zenon

(* The decoder reads the fake keys out of the script they were put in. *)
LEMMA ScriptBack ==
  ASSUME NEW fakes, FakesOk(fakes)
  PROVE  ExtractFakePubkeys(WitnessScript(fakes)) = Success(fakes)
<1> DEFINE s == WitnessScript(fakes)
           n == 1 + Len(fakes)
           D == DATA_BYTES_PER_PUBKEY
           L == Len(s)
           keys == KeysOf(fakes)
<1>1. /\ s \in Seq(Bytes)
      /\ \A j \in 1 .. n :
           /\ PushAt(j) \in Nat /\ PushAt(j) >= 2 /\ PushAt(j + 1) = PushAt(j) + (D + 2)
           /\ PushAt(j + 1) <= L
           /\ s[PushAt(j)] = D + 1
           /\ \A k \in 1 .. D + 1 : s[PushAt(j) + k] = keys[j][k]
      /\ n <= 16 => s[PushAt(n + 1)] = 80 + n
      /\ n > 16 => /\ s[PushAt(n + 1)] = 1 /\ L >= PushAt(n + 1) + 2
                   /\ s[PushAt(n + 1) + 2] = 174
  BY ScriptLayout, Zenon
<1>2. n \in 2 .. 20 /\ D \in 3 .. 74
  <2>1. n \in 2 .. 20
    <3>1. Len(fakes) \in 1 .. 19
      BY DEF FakesOk
    <3>2. \A x \in 1 .. 19 : 1 + x \in 2 .. 20
      OBVIOUS
    <3> QED
      BY <3>1, <3>2, Zenon
  <2> QED
    BY <2>1, RealKey
<1>3. /\ keys \in Seq(Seq(Bytes)) /\ Len(keys) = n
      /\ \A j \in 1 .. n : keys[j] \in Seq(Bytes) /\ Len(keys[j]) = D + 1
      /\ Tail(keys) = fakes
  BY Keys, Zenon
<1> HIDE DEF s, n, D, L, keys
<1>4. L \in Nat
  BY <1>1 DEF L
<1>5. PushAt(1) = 2 /\ PushAt(n + 1) \in Nat /\ PushAt(n + 1) >= 2 /\ PushAt(n + 1) <= L /\ L > 2
  <2>1. (1 - 1) * (DATA_BYTES_PER_PUBKEY + 2) = 0
    BY <1>2 DEF D
  <2>2. PushAt(1) = 2
    BY <2>1 DEF PushAt
  <2>3. 1 \in 1 .. n /\ n \in 1 .. n
    BY <1>2
  <2>4. PushAt(n + 1) = PushAt(n) + (D + 2) /\ PushAt(n) \in Nat /\ PushAt(n) >= 2 /\ PushAt(n + 1) <= L
    BY <1>1, <2>3
  <2> HIDE DEF PushAt
  <2> QED
    BY <1>2, <1>4, <2>2, <2>4
<1>6. s # <<>>
  BY <1>1, <1>5 DEF L
<1>7. PICK scan : /\ \A pos \in 2 .. L + 1 : scan[pos] = ScanStep(s, scan, pos)
                  /\ PubkeysFrom(s) = scan[2]
  BY <1>1, <1>6, Scans, Zenon DEF L
<1>8. scan[PushAt(n + 1)] = Success(<<>>)
  <2> DEFINE p == PushAt(n + 1)
             op == s[p]
  <2>1. p \in 2 .. L + 1 /\ ~(p > L)
    BY <1>4, <1>5
  <2>2. scan[p] = ScanStep(s, scan, p)
    BY <1>7, <2>1
  <2>3. CASE n <= 16
    <3>0. op = 80 + n
      BY <1>1, <2>3
    <3> HIDE DEF op, p
    <3>1. op \in 81 .. 96
      BY <1>2, <2>3, <3>0
    <3>2. ScanStep(s, scan, p) = Success(<<>>)
      BY <2>1, <3>1, ScanStops DEF L, op
    <3> QED
      BY <2>2, <3>2 DEF p
  <2>4. CASE ~(n <= 16)
    <3>1. op = 1 /\ L >= p + 2 /\ s[p + 2] = 174 /\ n > 16
      BY <1>1, <1>2, <2>4
    <3> HIDE DEF op, p
    <3>2. p + 2 \in 2 .. L + 1 /\ ~(p + 2 > L) /\ p + 1 + 1 = p + 2 /\ ~(p + 1 > L)
      BY <1>4, <2>1, <3>1
    <3>3. scan[p + 2] = Success(<<>>)
      <4>1. ScanStep(s, scan, p + 2) = Success(<<>>)
        BY <3>1, <3>2, ScanStops DEF L
      <4> QED
        BY <1>7, <3>2, <4>1
    <3>4. ScanStep(s, scan, p) = scan[p + 2]
      <4>1. op \in 1 .. 75 /\ p + op = p + 1 /\ ~(op = DATA_BYTES_PER_PUBKEY + 1)
        BY <1>2, <3>1 DEF D
      <4>2. ~(p + op > L) /\ (p + op) + 1 = p + 2
        BY <2>1, <3>2, <4>1
      <4>3. op = s[p]
        BY DEF op
      <4>4. ScanStep(s, scan, p) = scan[(p + op) + 1]
        BY <2>1, <4>1, <4>2, <4>3, ScanReads DEF L
      <4> QED
        BY <4>2, <4>4
    <3> QED
      BY <2>2, <3>3, <3>4 DEF p
  <2> QED
    BY <2>3, <2>4
<1> DEFINE From(j) == SubSeq(keys, j, n)
<1>9. ASSUME NEW j \in 1 .. n, scan[PushAt(j + 1)] = Success(From(j + 1))
      PROVE  scan[PushAt(j)] = Success(From(j))
  <2> DEFINE p == PushAt(j)
             op == s[p]
             rest == scan[p + (D + 1) + 1]
             push == SubSeq(s, p + 1, p + (D + 1))
  <2>1. /\ p \in Nat /\ p >= 2 /\ PushAt(j + 1) = p + (D + 2) /\ p + (D + 2) <= L /\ op = D + 1
        /\ \A k \in 1 .. D + 1 : s[p + k] = keys[j][k]
    BY <1>1
  <2> HIDE DEF p, op
  <2>2. p \in 2 .. L + 1 /\ ~(p > L) /\ p + (D + 1) + 1 = p + (D + 2) /\ ~(p + (D + 1) > L)
    BY <1>2, <1>4, <2>1
  <2>3. rest = Success(From(j + 1))
    BY <1>9, <2>1, <2>2
  <2>4. push = keys[j]
    <3>1. /\ push \in Seq(Bytes) /\ Len(push) = D + 1
          /\ \A k \in 1 .. D + 1 : push[k] = s[p + k]
      <4>1. s \in Seq(Bytes) /\ L = Len(s) /\ L \in Nat
        BY <1>1, <1>4 DEF L
      <4> HIDE DEF L
      <4>2. p + 1 \in Nat /\ p + (D + 1) \in Nat /\ p + 1 >= 1 /\ p + (D + 1) <= L /\ D + 1 \in Nat
        BY <1>2, <2>1, <4>1
      <4>3. \A k \in 1 .. D + 1 : (p + 1) + k - 1 = p + k
        BY <2>1
      <4>4. Len(push) = D + 1 /\ push \in Seq(Bytes)
        BY <1>2, <2>1, <4>1, <4>2
      <4>5. \A k \in 1 .. D + 1 : push[k] = s[p + k]
        BY <1>2, <2>1, <4>1, <4>2, <4>3
      <4> QED
        BY <4>4, <4>5
    <3> HIDE DEF push
    <3>2. keys[j] \in Seq(Bytes) /\ Len(keys[j]) = D + 1
      BY <1>3
    <3> DEFINE key == keys[j]
    <3>3. key \in Seq(Bytes) /\ Len(key) = D + 1 /\ \A k \in 1 .. D + 1 : push[k] = key[k]
      BY <2>1, <3>1, <3>2
    <3> HIDE DEF key
    <3>4. push = key
      BY <3>1, <3>3, SeqEqual
    <3> QED
      BY <3>4 DEF key
  <2> HIDE DEF push, rest
  <2>5. ScanStep(s, scan, p) = Success(<<push>> \o rest.data)
    <3> DEFINE w == D + 1
               more == From(j + 1)
    <3>1. w \in 1 .. 75 /\ w = DATA_BYTES_PER_PUBKEY + 1
      BY <1>2 DEF D
    <3>2. s[p] = w /\ ~(p > Len(s)) /\ ~(p + w > Len(s))
      BY <2>1, <2>2 DEF op, L
    <3>3. scan[(p + w) + 1] = Success(more)
      BY <2>3 DEF rest
    <3>4. push = SubSeq(s, p + 1, p + w)
      BY DEF push
    <3>5. rest.data = more
      BY <2>3 DEF Success
    <3> HIDE DEF w, more
    <3>6. ScanStep(s, scan, p) = Success(<<SubSeq(s, p + 1, p + w)>> \o more)
      BY ONLY <3>1, <3>2, <3>3, ScanTakes
    <3> QED
      BY <3>4, <3>5, <3>6, Zenon
  <2>6. <<keys[j]>> \o From(j + 1) = From(j)
    <3>1. keys[j] \in Seq(Bytes)
      BY <1>3
    <3> DEFINE a == <<keys[j]>> \o From(j + 1)
               b == From(j)
    <3>2. j \in 1 .. n /\ n \in Nat /\ j + 1 \in Nat
      BY <1>2
    <3>3. /\ From(j + 1) \in Seq(Seq(Bytes)) /\ Len(From(j + 1)) = n - j
          /\ \A k \in 1 .. n - j : From(j + 1)[k] = keys[j + k]
      BY <1>3, <3>2, SMTT(60)
    <3>4. /\ b \in Seq(Seq(Bytes)) /\ Len(b) = n - j + 1
          /\ \A k \in 1 .. n - j + 1 : b[k] = keys[j + k - 1]
      BY <1>3, <3>2
    <3> HIDE DEF From
    <3>5. /\ a \in Seq(Seq(Bytes)) /\ Len(a) = n - j + 1
          /\ a[1] = keys[j] /\ \A k \in 2 .. n - j + 1 : a[k] = From(j + 1)[k - 1]
      <4> DEFINE one == <<keys[j]>>
                 more == From(j + 1)
                 m == n - j
      <4>1. one \in Seq(Seq(Bytes)) /\ Len(one) = 1 /\ one[1] = keys[j]
        BY <3>1
      <4>2. more \in Seq(Seq(Bytes)) /\ Len(more) = m /\ m \in Nat
        BY <3>2, <3>3
      <4> HIDE DEF one, more, m
      <4>3. /\ one \o more \in Seq(Seq(Bytes)) /\ Len(one \o more) = Len(one) + Len(more)
            /\ \A k \in 1 .. Len(one) + Len(more) :
                 (one \o more)[k] = IF k <= Len(one) THEN one[k] ELSE more[k - Len(one)]
        BY ONLY <4>1, <4>2, ConcatProperties
      <4>4. a = one \o more
        BY DEF one, more
      <4> HIDE DEF a
      <4>5. /\ a \in Seq(Seq(Bytes)) /\ Len(a) = m + 1
            /\ a[1] = keys[j] /\ \A k \in 2 .. m + 1 : a[k] = more[k - 1]
        BY <4>1, <4>2, <4>3, <4>4
      <4> QED
        BY <4>5 DEF more, m
    <3>6. \A k \in 1 .. n - j + 1 : a[k] = b[k]
      <4> SUFFICES ASSUME NEW k \in 1 .. n - j + 1 PROVE a[k] = b[k]
        OBVIOUS
      <4>1. CASE k = 1
        <5>1. j + 1 - 1 = j /\ 1 \in 1 .. n - j + 1
          BY <3>2
        <5> HIDE DEF a, b
        <5> QED
          BY <3>4, <3>5, <4>1, <5>1
      <4>2. CASE k # 1
        <5>1. k \in 2 .. n - j + 1 /\ k - 1 \in 1 .. n - j /\ j + (k - 1) = j + k - 1
          BY <3>2, <4>2
        <5> HIDE DEF a, b
        <5> QED
          BY <3>3, <3>4, <3>5, <5>1
      <4> QED
        BY <4>1, <4>2
    <3> HIDE DEF a, b
    <3>7. a = b
      BY <3>4, <3>5, <3>6, SeqEqual
    <3> QED
      BY <3>7 DEF a, b
  <2>7. rest.data = From(j + 1)
    BY <2>3 DEF Success
  <2>8. scan[p] = ScanStep(s, scan, p)
    BY <1>7, <2>2
  <2> HIDE DEF From
  <2> QED
    BY <2>4, <2>5, <2>6, <2>7, <2>8, Zenon DEF p
<1>10. From(n + 1) = <<>>
  BY <1>2, <1>3
<1>11. From(1) = keys
  BY <1>3, SubSeqFull
<1> HIDE DEF From
<1> DEFINE T == {i \in Nat : i <= n => scan[PushAt((n + 1) - i)] = Success(From((n + 1) - i))}
<1>12. 0 \in T
  <2>1. (n + 1) - 0 = n + 1
    BY <1>2
  <2> QED
    BY <1>8, <1>10, <2>1
<1>13. ASSUME NEW i \in Nat, i \in T
       PROVE  i + 1 \in T
  <2> SUFFICES ASSUME i + 1 <= n
               PROVE  scan[PushAt((n + 1) - (i + 1))] = Success(From((n + 1) - (i + 1)))
    OBVIOUS
  <2> DEFINE j == (n + 1) - (i + 1)
  <2>1. j \in 1 .. n /\ j + 1 = (n + 1) - i /\ i <= n
    BY <1>2
  <2> HIDE DEF j
  <2>2. scan[PushAt(j + 1)] = Success(From(j + 1))
    BY <1>13, <2>1
  <2>3. scan[PushAt(j)] = Success(From(j))
    BY <1>9, <2>1, <2>2
  <2> QED
    BY <2>3 DEF j
<1> HIDE DEF T
<1>14. Nat \subseteq T
  BY <1>12, <1>13, NatSetInduction
<1>15. PubkeysFrom(s) = Success(keys)
  <2>1. n \in T /\ (n + 1) - n = 1 /\ n <= n
    BY <1>2, <1>14
  <2>2. scan[PushAt(1)] = Success(From(1))
    BY <2>1 DEF T
  <2> QED
    BY <1>5, <1>7, <1>11, <2>2
<1>16. ExtractFakePubkeys(s) = Success(Tail(keys))
  <2>1. keys # <<>>
    BY <1>2, <1>3
  <2>2. PubkeysFrom(s).ok /\ PubkeysFrom(s).data = keys
    BY <1>15 DEF Success
  <2> QED
    BY <1>6, <2>1, <2>2 DEF ExtractFakePubkeys
<1> QED
  BY <1>3, <1>16 DEF s

(* A fake key has the piece it hides after its first byte, and zeros after *)
(* a short one.                                                            *)
IsZeros(z) == z \in Seq(Bytes) /\ \A k \in 1 .. Len(z) : z[k] = 0

LEMMA FakeIs ==
  ASSUME NEW piece \in Seq(Bytes), Len(piece) \in 1 .. DATA_BYTES_PER_PUBKEY
  PROVE  /\ FakePubkey(piece) \in Seq(Bytes)
         /\ Len(FakePubkey(piece)) = DATA_BYTES_PER_PUBKEY + 1
         /\ FakePubkey(piece)[1] \in {2, 3}
         /\ \A k \in 1 .. Len(piece) : FakePubkey(piece)[1 + k] = piece[k]
         /\ \E zeros \in Seq(Bytes) :
              /\ IsZeros(zeros) /\ Tail(FakePubkey(piece)) = piece \o zeros
              /\ Len(piece) = DATA_BYTES_PER_PUBKEY => zeros = <<>>
<1> DEFINE D == DATA_BYTES_PER_PUBKEY
           h == IF HighBit(piece[1]) THEN 3 ELSE 2
           zeros == [i \in 1 .. D - Len(piece) |-> 0]
           a == <<h>>
           L == Len(piece)
           f == FakePubkey(piece)
<1>1. D \in Nat /\ L \in Nat /\ L <= D /\ L >= 1
  BY RealKey
<1>2. a \in Seq(Bytes) /\ Len(a) = 1 /\ a[1] \in {2, 3}
  <2>1. h \in {2, 3}
    OBVIOUS
  <2> HIDE DEF h
  <2> QED
    BY <2>1 DEF Bytes
<1>3. zeros \in Seq(Bytes) /\ Len(zeros) = D - L /\ \A k \in 1 .. D - L : zeros[k] = 0
  <2> HIDE DEF L, D
  <2>1. D - L \in Nat
    BY <1>1
  <2> QED
    BY <2>1 DEF Bytes, L
<1>4. f = (a \o piece) \o zeros
  BY Zenon DEF FakePubkey
<1> HIDE DEF a, zeros, h, f, D
<1> DEFINE ap == a \o piece
<1>5. /\ ap \in Seq(Bytes) /\ Len(ap) = Len(a) + Len(piece)
      /\ \A k \in 1 .. Len(a) : ap[k] = a[k]
      /\ \A k \in 1 .. Len(piece) : ap[Len(a) + k] = piece[k]
  <2>1. a \in Seq(Bytes) /\ piece \in Seq(Bytes)
    BY <1>2
  <2> QED
    BY ONLY <2>1, At
<1> HIDE DEF ap
<1>6. /\ ap \o zeros \in Seq(Bytes) /\ Len(ap \o zeros) = Len(ap) + Len(zeros)
      /\ \A k \in 1 .. Len(ap) : (ap \o zeros)[k] = ap[k]
      /\ \A k \in 1 .. Len(zeros) : (ap \o zeros)[Len(ap) + k] = zeros[k]
  <2>1. ap \in Seq(Bytes) /\ zeros \in Seq(Bytes)
    BY <1>3, <1>5
  <2> QED
    BY ONLY <2>1, At
<1>7. f = ap \o zeros
  BY <1>4 DEF ap
<1>8. Len(ap) = 1 + L /\ Len(f) = D + 1 /\ f \in Seq(Bytes)
  <2>1. Len(ap) = 1 + L
    BY <1>2, <1>5
  <2>2. Len(f) = Len(ap) + Len(zeros) /\ f \in Seq(Bytes)
    BY <1>6, <1>7
  <2> HIDE DEF L
  <2> QED
    BY <1>1, <1>3, <2>1, <2>2
<1>9. f[1] \in {2, 3} /\ \A k \in 1 .. L : f[1 + k] = piece[k]
  <2>1. 1 \in 1 .. Len(ap) /\ 1 \in 1 .. Len(a) /\ \A k \in 1 .. L : 1 + k \in 1 .. Len(ap)
    BY <1>1, <1>2, <1>8
  <2>2. f[1] = a[1]
    BY <1>5, <1>6, <1>7, <2>1
  <2>3. \A k \in 1 .. L : f[1 + k] = piece[k]
    BY <1>2, <1>5, <1>6, <1>7, <2>1
  <2> QED
    BY <1>2, <2>2, <2>3
<1>10. Tail(f) = piece \o zeros
  <2> DEFINE b == piece \o zeros
             t == Tail(f)
  <2>1. /\ b \in Seq(Bytes) /\ Len(b) = Len(piece) + Len(zeros)
        /\ \A k \in 1 .. Len(piece) : b[k] = piece[k]
        /\ \A k \in 1 .. Len(zeros) : b[Len(piece) + k] = zeros[k]
    BY <1>3, At, Zenon
  <2>2. t \in Seq(Bytes) /\ Len(t) = D /\ \A k \in 1 .. D : t[k] = f[k + 1]
    BY <1>1, <1>8
  <2>3. Len(b) = D
    BY <1>1, <1>3, <2>1
  <2> HIDE DEF b, t
  <2>4. \A k \in 1 .. D : t[k] = b[k]
    <3> SUFFICES ASSUME NEW k \in 1 .. D PROVE t[k] = b[k]
      OBVIOUS
    <3>1. CASE k <= L
      <4>1. k \in 1 .. L /\ k + 1 = 1 + k
        BY <1>1, <3>1
      <4> QED
        BY <1>9, <2>1, <2>2, <4>1
    <3>2. CASE ~(k <= L)
      <4>1. k - L \in 1 .. Len(zeros) /\ L + (k - L) = k /\ Len(ap) + (k - L) = k + 1
        BY <1>1, <1>3, <1>8, <3>2
      <4>2. b[k] = zeros[k - L]
        BY <2>1, <4>1
      <4>3. f[k + 1] = zeros[k - L]
        BY <1>6, <1>7, <4>1
      <4> QED
        BY <2>2, <4>2, <4>3
    <3> QED
      BY <3>1, <3>2
  <2>5. t = b
    BY <2>1, <2>2, <2>3, <2>4, SeqEqual
  <2> QED
    BY <2>5 DEF t, b
<1>11. IsZeros(zeros) /\ (L = D => zeros = <<>>)
  <2>1. L = D => zeros = <<>>
    BY <1>1, <1>3
  <2> QED
    BY <1>3, <2>1 DEF IsZeros
<1> QED
  BY <1>3, <1>8, <1>9, <1>10, <1>11 DEF f, D, L

(* The number of fake keys of a chunk. *)
LEMMA FakesCount ==
  ASSUME NEW chunk \in Seq(Bytes), Len(chunk) \in 1 .. BYTES_PER_ADDITIONAL_INPUT
  PROVE  LET q == DivCeil(Len(chunk), DATA_BYTES_PER_PUBKEY)
         IN /\ q \in 1 .. 19 /\ q <= MAX_PUBKEYS_PER_MULTISIG - 1
            /\ DOMAIN Pieces(chunk, DATA_BYTES_PER_PUBKEY) = 1 .. q
            /\ Len(EncodeDataAsFakePubkeys(chunk)) = q
            /\ EncodeDataAsFakePubkeys(chunk)
                 = [i \in 1 .. q |-> FakePubkey(Pieces(chunk, DATA_BYTES_PER_PUBKEY)[i])]
            /\ Len(chunk) = BYTES_PER_ADDITIONAL_INPUT => Len(chunk) = q * DATA_BYTES_PER_PUBKEY
<1> DEFINE B == BYTES_PER_ADDITIONAL_INPUT
           D == DATA_BYTES_PER_PUBKEY
           q == DivCeil(Len(chunk), D)
           K == MAX_PUBKEYS_PER_MULTISIG - 1
<1>1. K \in 1 .. 19 /\ B = K * D
  BY P2wshSizes, Zenon
<1>2. D \in Nat /\ D > 0 /\ B \in Nat
  BY P2wshSizes
<1> HIDE DEF K, B, D
<1>3. K \in Nat /\ K > 0 /\ K <= 19 /\ Len(chunk) \in Nat /\ Len(chunk) > 0 /\ Len(chunk) <= B
  <2>1. Len(chunk) \in 1 .. B
    BY DEF B
  <2> QED
    BY <1>1, <1>2, <2>1
<1>4. q \in Nat /\ q > 0 /\ (q - 1) * D < Len(chunk)
  BY <1>2, <1>3, DivCeilBounds, Zenon
<1>5. /\ DOMAIN Pieces(chunk, D) = 1 .. q
      /\ EncodeDataAsFakePubkeys(chunk) = [i \in 1 .. q |-> FakePubkey(Pieces(chunk, D)[i])]
  <2>1. DOMAIN Pieces(chunk, D) = 1 .. q
    BY <1>2, PiecesAre
  <2> HIDE DEF q
  <2> QED
    BY <2>1 DEF EncodeDataAsFakePubkeys, D
<1>6. Len(chunk) = B => q = K
  <2> SUFFICES ASSUME Len(chunk) = B PROVE q = K
    OBVIOUS
  <2> HIDE DEF q
  <2>1. K - 1 \in Nat /\ (K - 1) * D \in Nat /\ B = (K - 1) * D + D
    <3>1. K - 1 \in Nat /\ (K - 1) + 1 = K
      BY <1>3
    <3> QED
      BY <1>1, <1>2, <3>1, Multiples
  <2>2. B <= K * D /\ (K - 1) * D < B
    <3>1. B <= K * D
      BY <1>1, <1>2
    <3> DEFINE y == (K - 1) * D
    <3>2. y \in Nat /\ B = y + D
      BY <2>1
    <3> HIDE DEF y
    <3>3. y < B
      BY <1>2, <3>2
    <3> QED
      BY <3>1, <3>3 DEF y
  <2>3. DivCeil(B, D) = K
    BY <1>2, <1>3, <2>2, DivCeilUnique
  <2> QED
    BY <2>3 DEF q
<1> HIDE DEF q
<1>7. Len(EncodeDataAsFakePubkeys(chunk)) = q
  BY <1>4, <1>5
<1>8. q <= K
  <2> SUFFICES ASSUME K <= q - 1 PROVE FALSE
    BY <1>3, <1>4
  <2>1. q - 1 \in Nat
    BY <1>4
  <2>2. K * D <= (q - 1) * D /\ K * D \in Nat /\ (q - 1) * D \in Nat
    BY <1>2, <1>3, <2>1, Multiples
  <2> QED
    BY <1>1, <1>2, <1>3, <1>4, <2>2
<1>9. q \in 1 .. 19
  BY <1>3, <1>4, <1>8
<1>10. Len(chunk) = B => Len(chunk) = q * D
  BY <1>1, <1>6
<1> QED
  BY <1>5, <1>7, <1>8, <1>9, <1>10 DEF q, K, B, D

(* A chunk comes out of the fake keys it was put in, with zeros after it   *)
(* if it did not fill the last one.                                        *)
LEMMA FakesBack ==
  ASSUME NEW chunk \in Seq(Bytes), Len(chunk) \in 1 .. BYTES_PER_ADDITIONAL_INPUT,
         NEW fakes, fakes = EncodeDataAsFakePubkeys(chunk)
  PROVE  /\ FakesOk(fakes)
         /\ \A k \in 1 .. 3 : k <= Len(chunk) => fakes[1][1 + k] = chunk[k]
         /\ \E pad \in Seq(Bytes) :
              /\ IsZeros(pad) /\ DecodeFakePubkeys(fakes) = Success(chunk \o pad)
              /\ Len(chunk) = BYTES_PER_ADDITIONAL_INPUT => pad = <<>>
<1> DEFINE B == BYTES_PER_ADDITIONAL_INPUT
           D == DATA_BYTES_PER_PUBKEY
           q == DivCeil(Len(chunk), D)
           P == Pieces(chunk, D)
<1>1. /\ q \in 1 .. 19 /\ DOMAIN P = 1 .. q /\ Len(fakes) = q
      /\ fakes = [i \in 1 .. q |-> FakePubkey(P[i])]
      /\ Len(chunk) = B => Len(chunk) = q * D
  BY FakesCount, Zenon
<1>2. D \in Nat /\ D >= 3
  BY RealKey
<1>3. /\ CutAt(chunk, D, 0) = 0 /\ CutAt(chunk, D, q) = Len(chunk) /\ Len(P) = q
      /\ \A i \in 1 .. q :
           /\ CutAt(chunk, D, i - 1) \in 0 .. Len(chunk) /\ CutAt(chunk, D, i) \in 0 .. Len(chunk)
           /\ P[i] = SubSeq(chunk, CutAt(chunk, D, i - 1) + 1, CutAt(chunk, D, i))
           /\ P[i] \in Seq(Bytes) /\ Len(P[i]) \in 1 .. D
           /\ i < q => Len(P[i]) = D
           /\ Len(chunk) = q * D => Len(P[i]) = D
  <2>1. D > 0
    BY <1>2
  <2> QED
    BY <1>2, <2>1, PiecesAre, ZenonT(60)
<1> HIDE DEF q, D, P, B
<1>4. ASSUME NEW i \in 1 .. q
      PROVE  /\ fakes[i] \in Seq(Bytes) /\ Len(fakes[i]) = D + 1 /\ fakes[i][1] \in {2, 3}
             /\ \A k \in 1 .. Len(P[i]) : fakes[i][1 + k] = P[i][k]
             /\ \E zeros \in Seq(Bytes) :
                  /\ IsZeros(zeros) /\ Tail(fakes[i]) = P[i] \o zeros
                  /\ Len(P[i]) = D => zeros = <<>>
  <2> DEFINE piece == P[i]
  <2>1. piece \in Seq(Bytes) /\ Len(piece) \in 1 .. D
    BY <1>3
  <2>2. fakes[i] = FakePubkey(piece)
    BY <1>1
  <2> HIDE DEF piece
  <2>3. /\ FakePubkey(piece) \in Seq(Bytes)
        /\ Len(FakePubkey(piece)) = D + 1
        /\ FakePubkey(piece)[1] \in {2, 3}
        /\ \A k \in 1 .. Len(piece) : FakePubkey(piece)[1 + k] = piece[k]
        /\ \E zeros \in Seq(Bytes) :
             /\ IsZeros(zeros) /\ Tail(FakePubkey(piece)) = piece \o zeros
             /\ Len(piece) = D => zeros = <<>>
    BY <2>1, FakeIs DEF D
  <2> QED
    BY <2>2, <2>3, Zenon DEF piece
<1>5. q \in 1 .. q /\ 1 \in 1 .. q /\ q \in Nat
  BY <1>1
<1>6. FakesOk(fakes)
  <2>1. fakes = [i \in 1 .. q |-> fakes[i]]
    BY <1>1
  <2>2. fakes \in Seq(Seq(Bytes))
    <3>1. \A i \in 1 .. q : fakes[i] \in Seq(Bytes)
      BY <1>4
    <3>2. [i \in 1 .. q |-> fakes[i]] \in Seq(Seq(Bytes))
      BY ONLY <1>5, <3>1
    <3> QED
      BY <2>1, <3>2, Zenon
  <2> QED
    BY <1>1, <1>4, <2>2 DEF FakesOk, D
<1>7. \A k \in 1 .. 3 : k <= Len(chunk) => fakes[1][1 + k] = chunk[k]
  <2> DEFINE to == CutAt(chunk, D, 1)
             p == P[1]
             L == Len(chunk)
  <2>1. L \in Nat /\ L >= 1
    BY <1>3
  <2>2. to = Least(D, L)
    <3>1. 1 * D = D
      BY <1>2
    <3> QED
      BY <3>1 DEF CutAt
  <2>3. to \in 0 .. L /\ (D <= L => to = D) /\ (~(D <= L) => to = L)
    <3> HIDE DEF L, to
    <3> QED
      BY <1>2, <2>1, <2>2 DEF Least
  <2>4. p = SubSeq(chunk, 1, to)
    <3>1. 1 - 1 = 0 /\ 0 + 1 = 1
      OBVIOUS
    <3>2. P[1] = SubSeq(chunk, CutAt(chunk, D, 1 - 1) + 1, CutAt(chunk, D, 1))
      BY <1>3, <1>5, Zenon
    <3> QED
      BY <1>3, <3>1, <3>2
  <2> HIDE DEF to, p
  <2>5. Len(p) = to /\ \A k \in 1 .. to : p[k] = chunk[k]
    BY <2>1, <2>3, <2>4
  <2> SUFFICES ASSUME NEW k \in 1 .. 3, k <= L PROVE fakes[1][1 + k] = chunk[k]
    OBVIOUS
  <2>6. k \in 1 .. to
    <3> HIDE DEF L
    <3> QED
      BY <1>2, <2>1, <2>3
  <2> QED
    BY <1>4, <1>5, <2>5, <2>6 DEF p
<1>8. PICK pad \in Seq(Bytes) :
        /\ IsZeros(pad) /\ Tail(fakes[q]) = P[q] \o pad
        /\ Len(P[q]) = D => pad = <<>>
  BY <1>4, <1>5
<1> DEFINE parts == [i \in DOMAIN fakes |-> Tail(fakes[i])]
<1>9. Len(parts) = Len(P)
      /\ \A i \in 1 .. Len(parts) :
           parts[i] = IF i = Len(parts) THEN P[i] \o pad ELSE P[i]
  <2>1. DOMAIN fakes = 1 .. q
    BY <1>1
  <2>2. parts = [i \in 1 .. q |-> Tail(fakes[i])]
    BY <2>1
  <2>3. Len(parts) = q
    BY <1>5, <2>2
  <2>4. ASSUME NEW i \in 1 .. q
        PROVE  parts[i] = IF i = q THEN P[i] \o pad ELSE P[i]
    <3>1. parts[i] = Tail(fakes[i])
      BY <2>2
    <3>2. CASE i = q
      BY <1>8, <3>1, <3>2
    <3>3. CASE i # q
      <4>1. Len(P[i]) = D
        BY <1>3, <1>5, <3>3
      <4>2. Tail(fakes[i]) = P[i] \o <<>>
        BY <1>4, <4>1
      <4>3. P[i] \o <<>> = P[i]
        BY <1>3
      <4> QED
        BY <3>1, <3>3, <4>2, <4>3
    <3> QED
      BY <3>2, <3>3
  <2> QED
    BY <1>3, <2>3, <2>4
<1> HIDE DEF parts
<1>10. FlattenSeq(parts) = chunk \o pad
  <2>1. chunk # <<>>
    OBVIOUS
  <2>2. chunk \in Seq(Bytes) /\ D \in Nat /\ D > 0 /\ pad \in Seq(Bytes)
    BY <1>2
  <2> QED
    BY ONLY <1>9, <2>1, <2>2, PiecesJoined DEF P
<1>11. DecodeFakePubkeys(fakes) = Success(chunk \o pad)
  <2>1. \A i \in DOMAIN fakes : ~(fakes[i][1] \notin {2, 3})
    BY <1>1, <1>4
  <2> QED
    BY <1>10, <2>1, Zenon DEF DecodeFakePubkeys, parts
<1>12. Len(chunk) = B => pad = <<>>
  BY <1>1, <1>3, <1>5, <1>8
<1> QED
  BY <1>6, <1>7, <1>8, <1>11, <1>12 DEF B

(* What the decoder makes of the script of a chunk, and where in it the    *)
(* first bytes of the chunk are.                                           *)
ScriptOf(chunk) == WitnessScript(EncodeDataAsFakePubkeys(chunk))

LEMMA InputBack ==
  ASSUME NEW chunk \in Seq(Bytes), Len(chunk) \in 1 .. BYTES_PER_ADDITIONAL_INPUT
  PROVE  /\ ScriptOf(chunk) \in Seq(Bytes)
         /\ ExtractFakePubkeys(ScriptOf(chunk)).ok
         /\ \E pad \in Seq(Bytes) :
              /\ IsZeros(pad)
              /\ DecodeFakePubkeys(ExtractFakePubkeys(ScriptOf(chunk)).data) = Success(chunk \o pad)
              /\ Len(chunk) = BYTES_PER_ADDITIONAL_INPUT => pad = <<>>
         /\ Len(chunk) >= 3 =>
              /\ PushAt(2) \in Nat /\ PushAt(2) >= 2 /\ PushAt(2) + 4 <= Len(ScriptOf(chunk))
              /\ \A k \in 1 .. 3 : ScriptOf(chunk)[PushAt(2) + 1 + k] = chunk[k]
<1> DEFINE fakes == EncodeDataAsFakePubkeys(chunk)
           s == WitnessScript(fakes)
           D == DATA_BYTES_PER_PUBKEY
<1>1. /\ FakesOk(fakes)
      /\ \A k \in 1 .. 3 : k <= Len(chunk) => fakes[1][1 + k] = chunk[k]
      /\ \E pad \in Seq(Bytes) :
           /\ IsZeros(pad) /\ DecodeFakePubkeys(fakes) = Success(chunk \o pad)
           /\ Len(chunk) = BYTES_PER_ADDITIONAL_INPUT => pad = <<>>
  BY FakesBack
<1> HIDE DEF fakes
<1>2. ExtractFakePubkeys(s) = Success(fakes)
  BY <1>1, ScriptBack
<1>3. ExtractFakePubkeys(s).ok /\ ExtractFakePubkeys(s).data = fakes
  BY <1>2 DEF Success
<1>4. /\ s \in Seq(Bytes)
      /\ \A j \in 1 .. 1 + Len(fakes) :
           /\ PushAt(j) \in Nat /\ PushAt(j) >= 2 /\ PushAt(j + 1) = PushAt(j) + (D + 2)
           /\ PushAt(j + 1) <= Len(s)
           /\ s[PushAt(j)] = D + 1
           /\ \A k \in 1 .. D + 1 : s[PushAt(j) + k] = KeysOf(fakes)[j][k]
  <2> DEFINE n == 1 + Len(fakes)
  <2>1. FakesOk(fakes)
    BY <1>1
  <2>2. /\ s \in Seq(Bytes)
        /\ \A j \in 1 .. n :
             /\ PushAt(j) \in Nat /\ PushAt(j) >= 2 /\ PushAt(j + 1) = PushAt(j) + (D + 2)
             /\ PushAt(j + 1) <= Len(s)
             /\ s[PushAt(j)] = D + 1
             /\ \A k \in 1 .. D + 1 : s[PushAt(j) + k] = KeysOf(fakes)[j][k]
        /\ n <= 16 => s[PushAt(n + 1)] = 80 + n
        /\ n > 16 => /\ s[PushAt(n + 1)] = 1 /\ Len(s) >= PushAt(n + 1) + 2
                     /\ s[PushAt(n + 1) + 2] = 174
    BY <2>1, ScriptLayout, Zenon
  <2> QED
    BY <2>2, Zenon
<1>5. Len(fakes) \in Nat /\ Len(fakes) >= 1 /\ KeysOf(fakes)[2] = fakes[1] /\ D \in 3 .. 74
  <2>1. fakes \in Seq(Seq(Bytes)) /\ Len(fakes) \in 1 .. 19
    BY <1>1 DEF FakesOk
  <2>2. Len(fakes) \in Nat /\ Len(fakes) >= 1
    <3>1. \A x \in 1 .. 19 : x \in Nat /\ x >= 1
      OBVIOUS
    <3> QED
      BY <2>1, <3>1, Zenon
  <2>3. KeysOf(fakes)[2] = fakes[1]
    BY <2>1, <2>2 DEF KeysOf
  <2> QED
    BY <2>2, <2>3, RealKey
<1> HIDE DEF s, D
<1>6. /\ PushAt(2) \in Nat /\ PushAt(2) >= 2 /\ PushAt(2) + 4 <= Len(s)
      /\ \A k \in 1 .. D + 1 : s[PushAt(2) + k] = fakes[1][k]
  <2>1. 2 \in 1 .. 1 + Len(fakes) /\ 2 + 1 = 3
    BY <1>5
  <2>2. /\ PushAt(2) \in Nat /\ PushAt(2) >= 2 /\ PushAt(3) = PushAt(2) + (D + 2)
        /\ PushAt(3) <= Len(s)
        /\ \A k \in 1 .. D + 1 : s[PushAt(2) + k] = KeysOf(fakes)[2][k]
    BY <1>4, <2>1
  <2>3. Len(s) \in Nat
    BY <1>4
  <2>4. PushAt(2) + 4 <= Len(s)
    BY <1>5, <2>2, <2>3, SMTT(60)
  <2> QED
    BY <1>5, <2>2, <2>4
<1>7. ASSUME Len(chunk) >= 3
      PROVE  \A k \in 1 .. 3 : s[PushAt(2) + 1 + k] = chunk[k]
  <2> SUFFICES ASSUME NEW k \in 1 .. 3 PROVE s[PushAt(2) + 1 + k] = chunk[k]
    OBVIOUS
  <2>1. k <= Len(chunk) /\ 1 + k \in 1 .. D + 1 /\ PushAt(2) + (1 + k) = PushAt(2) + 1 + k
    BY <1>5, <1>6, <1>7
  <2> QED
    BY <1>1, <1>6, <2>1
<1>8. s = ScriptOf(chunk)
  BY DEF s, ScriptOf, fakes
<1> QED
  BY <1>1, <1>3, <1>4, <1>6, <1>7, <1>8

(* What the decoder has joined, up to the zeros at the end. *)
LEMMA Stripped ==
  ASSUME NEW s \in Seq(Bytes), Len(s) >= 1, s[Len(s)] # 0, NEW z, IsZeros(z)
  PROVE  StripTrailingNulls(s \o z) = s
<1> DEFINE d == s \o z
           L == Len(s)
           Cut(n) == /\ n <= 1 \/ d[n] # 0
                     /\ \A k \in n + 1 .. Len(d) : k > 1 /\ d[k] = 0
                     /\ n = 0 => d = <<>>
           c == CHOOSE n \in 0 .. Len(d) : Cut(n)
<1>1. z \in Seq(Bytes) /\ Len(z) \in Nat /\ L \in Nat /\ L >= 1 /\ \A k \in 1 .. Len(z) : z[k] = 0
  BY DEF IsZeros
<1>2. /\ d \in Seq(Bytes) /\ Len(d) = L + Len(z)
      /\ \A k \in 1 .. L : d[k] = s[k]
      /\ \A k \in 1 .. Len(z) : d[L + k] = z[k]
  BY <1>1, At, Zenon
<1>3. SubSeq(d, 1, L) = s
  BY <1>1, PrefixBack, Zenon
<1>4. StripTrailingNulls(d) = SubSeq(d, 1, c)
  BY Zenon DEF StripTrailingNulls
<1> HIDE DEF d
<1>5. L \in 0 .. Len(d) /\ Cut(L)
  <2>1. L \in 0 .. Len(d) /\ L \in 1 .. L
    BY <1>1, <1>2
  <2>2. d[L] # 0
    BY <1>2, <2>1
  <2>3. \A k \in L + 1 .. Len(d) : k > 1 /\ d[k] = 0
    <3> SUFFICES ASSUME NEW k \in L + 1 .. Len(d) PROVE k > 1 /\ d[k] = 0
      OBVIOUS
    <3> HIDE DEF L
    <3>1. k - L \in 1 .. Len(z) /\ L + (k - L) = k /\ k > 1
      BY <1>1, <1>2
    <3> QED
      BY <1>1, <1>2, <3>1
  <2> QED
    BY <1>1, <2>1, <2>2, <2>3
<1>6. ASSUME NEW n \in 0 .. Len(d), Cut(n)
      PROVE  n = L
  <2>0. s[L] # 0
    OBVIOUS
  <2> HIDE DEF L
  <2>1. ~(n < L)
    <3> SUFFICES ASSUME n < L PROVE FALSE
      OBVIOUS
    <3>1. L \in n + 1 .. Len(d) /\ L \in 1 .. L
      BY <1>1, <1>2
    <3>2. d[L] = 0
      BY <1>6, <3>1
    <3> QED
      BY <1>2, <2>0, <3>1, <3>2
  <2>2. ~(n > L)
    <3> SUFFICES ASSUME n > L PROVE FALSE
      OBVIOUS
    <3>1. n - L \in 1 .. Len(z) /\ L + (n - L) = n /\ ~(n <= 1)
      BY <1>1, <1>2
    <3>2. d[n] = 0
      BY <1>1, <1>2, <3>1
    <3> QED
      BY <1>6, <3>1, <3>2
  <2> QED
    BY <1>1, <2>1, <2>2
<1>7. c = L
  <2> HIDE DEF Cut
  <2>1. c \in 0 .. Len(d) /\ Cut(c)
    BY <1>5
  <2> QED
    BY <1>6, <2>1
<1> HIDE DEF c
<1> QED
  BY <1>3, <1>4, <1>7 DEF d

(* The scripts of a file. *)
LEMMA ScriptsAre ==
  ASSUME NEW file \in Seq(Bytes)
  PROVE  LET m == DivCeil(3 + Len(file), BYTES_PER_ADDITIONAL_INPUT)
             chunks == SplitDataForInputs(file)
         IN /\ m \in Nat /\ m >= 1 /\ Len(chunks) = m
            /\ Encode(file) = [i \in 1 .. m |-> ScriptOf(chunks[i])]
            /\ \A i \in 1 .. m :
                 /\ chunks[i] \in Seq(Bytes) /\ Len(chunks[i]) \in 1 .. BYTES_PER_ADDITIONAL_INPUT
                 /\ i < m => Len(chunks[i]) = BYTES_PER_ADDITIONAL_INPUT
            /\ Len(chunks[1]) >= 3
            /\ \A k \in 1 .. 3 : chunks[1][k] = ORDIKNOT_PREFIX[k]
<1> DEFINE B == BYTES_PER_ADDITIONAL_INPUT
           h == Hidden(file)
           L == Len(h)
           m == DivCeil(L, B)
           chunks == SplitDataForInputs(file)
<1>1. chunks = Pieces(h, B)
  BY InputsArePieces
<1>2. /\ h \in Seq(Bytes) /\ L = 3 + Len(file) /\ h # <<>>
      /\ \A k \in 1 .. 3 : h[k] = ORDIKNOT_PREFIX[k]
  BY HiddenIs
<1>3. B \in Nat /\ B >= 3 /\ Len(file) \in Nat
  BY P2wshSizes
<1> HIDE DEF h, B
<1>4. /\ m \in Nat /\ (m = 0 <=> h = <<>>)
      /\ DOMAIN Pieces(h, B) = 1 .. m /\ Len(Pieces(h, B)) = m
      /\ CutAt(h, B, 0) = 0
      /\ \A i \in 1 .. m :
           /\ Pieces(h, B)[i] = SubSeq(h, CutAt(h, B, i - 1) + 1, CutAt(h, B, i))
           /\ Pieces(h, B)[i] \in Seq(Bytes) /\ Len(Pieces(h, B)[i]) \in 1 .. B
           /\ i < m => Len(Pieces(h, B)[i]) = B
  <2>1. B > 0
    BY <1>3
  <2> QED
    BY <1>2, <1>3, <2>1, PiecesAre, ZenonT(60)
<1> HIDE DEF m, chunks
<1>5. m >= 1 /\ 1 \in 1 .. m
  BY <1>2, <1>4
<1>6. Encode(file) = [i \in 1 .. m |-> ScriptOf(chunks[i])]
  <2>1. DOMAIN chunks = 1 .. m
    BY <1>1, <1>4
  <2> QED
    BY <2>1 DEF Encode, ScriptOf, chunks
<1>7. Len(chunks[1]) >= 3 /\ \A k \in 1 .. 3 : chunks[1][k] = ORDIKNOT_PREFIX[k]
  <2> DEFINE to == CutAt(h, B, 1)
             p == chunks[1]
  <2>1. to = Least(B, L)
    <3>1. 1 * B = B
      BY <1>3
    <3> QED
      BY <3>1 DEF CutAt
  <2>2. to \in 3 .. L
    <3> HIDE DEF L, to
    <3> QED
      BY <1>2, <1>3, <2>1 DEF Least
  <2>3. p = SubSeq(h, 1, to)
    <3>1. 1 - 1 = 0 /\ 0 + 1 = 1
      OBVIOUS
    <3>2. Pieces(h, B)[1] = SubSeq(h, CutAt(h, B, 1 - 1) + 1, CutAt(h, B, 1))
      BY <1>4, <1>5, Zenon
    <3> QED
      BY <1>1, <1>4, <3>1, <3>2
  <2> HIDE DEF to, p
  <2>4. Len(p) = to /\ \A k \in 1 .. to : p[k] = h[k]
    BY <1>2, <2>2, <2>3
  <2>5. to >= 3 /\ \A k \in 1 .. 3 : k \in 1 .. to
    BY <2>2
  <2> QED
    BY <1>2, <2>4, <2>5 DEF p
<1>8. DivCeil(3 + Len(file), BYTES_PER_ADDITIONAL_INPUT) = m
  BY <1>2 DEF m, B
<1>9. Len(chunks) = m /\ \A i \in 1 .. m :
        /\ chunks[i] \in Seq(Bytes) /\ Len(chunks[i]) \in 1 .. B /\ (i < m => Len(chunks[i]) = B)
  BY <1>1, <1>4
<1> QED
  BY <1>4, <1>5, <1>6, <1>7, <1>8, <1>9 DEF chunks, B

(* A script in which the prefix is, is recognised. *)
LEMMA PrefixFound ==
  ASSUME NEW s \in Seq(Bytes), NEW p \in Nat, p >= 1, p + 2 <= Len(s),
         s[p] = ORDIKNOT_PREFIX[1], s[p + 1] = ORDIKNOT_PREFIX[2], s[p + 2] = ORDIKNOT_PREFIX[3]
  PROVE  DetectScript(s)
<1> DEFINE t == SubSeq(s, p, p + 2)
<1>1. /\ t \in Seq(Bytes) /\ Len(t) = 3
      /\ t[1] = s[p] /\ t[2] = s[p + 1] /\ t[3] = s[p + 2]
  OBVIOUS
<1> HIDE DEF t
<1>2. t = ORDIKNOT_PREFIX
  <2>1. \A k \in 1 .. 3 : t[k] = ORDIKNOT_PREFIX[k]
    <3>1. \A k \in 1 .. 3 : k = 1 \/ k = 2 \/ k = 3
      OBVIOUS
    <3> QED
      BY <1>1, <3>1
  <2>2. ORDIKNOT_PREFIX \in Seq(Bytes) /\ Len(ORDIKNOT_PREFIX) = 3
    BY P2wshSizes
  <2> QED
    BY <1>1, <2>1, <2>2, SeqEqual
<1>3. p \in 1 .. Len(s) - 2
  OBVIOUS
<1> QED
  BY <1>2, <1>3 DEF DetectScript, t

(* decode, given the scripts of a file, finds the file without the zeros   *)
(* at its end.                                                             *)
LEMMA ScriptsBack ==
  ASSUME NEW text \in Seq(Bytes), text # <<>> => text[Len(text)] # 0,
         NEW z, IsZeros(z)
  PROVE  Decode(Encode(text \o z)) = Success(text)
<1> DEFINE file == text \o z
           B == BYTES_PER_ADDITIONAL_INPUT
           m == DivCeil(3 + Len(file), B)
           chunks == SplitDataForInputs(file)
           scripts == Encode(file)
           s == Hidden(text)
           fakes == [i \in DOMAIN scripts |-> ExtractFakePubkeys(scripts[i])]
           parts == [i \in DOMAIN scripts |-> DecodeFakePubkeys(fakes[i].data)]
           datas == [i \in DOMAIN scripts |-> parts[i].data]
           data == StripTrailingNulls(FlattenSeq(datas))
<1>1. z \in Seq(Bytes) /\ file \in Seq(Bytes)
  <2>1. z \in Seq(Bytes)
    BY DEF IsZeros
  <2> QED
    BY <2>1, ConcatProperties
<1>2. Hidden(file) = s \o z
  <2>1. ORDIKNOT_PREFIX \in Seq(Bytes) /\ text \in Seq(Bytes) /\ z \in Seq(Bytes)
    BY <1>1, P2wshSizes
  <2>2. (ORDIKNOT_PREFIX \o text) \o z = ORDIKNOT_PREFIX \o (text \o z)
    BY ONLY <2>1, ConcatAssociative
  <2> QED
    BY <2>2, Zenon DEF Hidden
<1>3. s \in Seq(Bytes) /\ Len(s) >= 3 /\ s[Len(s)] # 0
      /\ SubSeq(s, 1, 3) = ORDIKNOT_PREFIX /\ SubSeq(s, 4, Len(s)) = text
  <2>1. /\ s \in Seq(Bytes) /\ Len(s) = 3 + Len(text)
        /\ \A k \in 1 .. 3 : s[k] = ORDIKNOT_PREFIX[k]
        /\ \A k \in 1 .. Len(text) : s[3 + k] = text[k]
    BY HiddenIs
  <2>2. ORDIKNOT_PREFIX \in Seq(Bytes) /\ Len(ORDIKNOT_PREFIX) = 3
    BY P2wshSizes
  <2> HIDE DEF s
  <2>3. Len(text) \in Nat
    OBVIOUS
  <2>4. s[Len(s)] # 0
    <3>1. CASE Len(text) = 0
      <4>1. Len(s) = 3 /\ 3 \in 1 .. 3
        BY <2>1, <3>1
      <4>2. ORDIKNOT_PREFIX[3] # 0
        BY DEF ORDIKNOT_PREFIX
      <4> QED
        BY <2>1, <4>1, <4>2
    <3>2. CASE Len(text) # 0
      <4>1. Len(text) \in 1 .. Len(text) /\ text # <<>>
        BY <2>3, <3>2
      <4>2. s[3 + Len(text)] = text[Len(text)]
        BY <2>1, <4>1
      <4> QED
        BY <2>1, <4>1, <4>2
    <3> QED
      BY <3>1, <3>2
  <2>5. SubSeq(s, 1, 3) = ORDIKNOT_PREFIX
    <3> DEFINE t == SubSeq(s, 1, 3)
    <3>1. t \in Seq(Bytes) /\ Len(t) = 3 /\ \A k \in 1 .. 3 : t[k] = s[k]
      BY <2>1, <2>3
    <3> HIDE DEF t
    <3>2. t = ORDIKNOT_PREFIX
      <4>1. \A k \in 1 .. 3 : t[k] = ORDIKNOT_PREFIX[k]
        BY <2>1, <3>1
      <4>2. /\ t \in Seq(Bytes) /\ ORDIKNOT_PREFIX \in Seq(Bytes) /\ Len(t) = Len(ORDIKNOT_PREFIX)
            /\ \A k \in 1 .. Len(t) : t[k] = ORDIKNOT_PREFIX[k]
        BY <2>2, <3>1, <4>1
      <4> QED
        BY ONLY <4>2, SeqEqual
    <3> QED
      BY <3>2 DEF t
  <2>6. SubSeq(s, 4, Len(s)) = text
    <3> DEFINE t == SubSeq(s, 4, 3 + Len(text))
    <3>1. t \in Seq(Bytes) /\ Len(t) = Len(text) /\ \A k \in 1 .. Len(text) : t[k] = s[3 + k]
      BY <2>1, <2>3
    <3> HIDE DEF t
    <3>2. \A k \in 1 .. Len(text) : t[k] = text[k]
      BY <2>1, <3>1
    <3>3. t = text
      BY <3>1, <3>2, SeqEqual
    <3> QED
      BY <2>1, <3>3 DEF t
  <2> QED
    BY <2>1, <2>3, <2>4, <2>5, <2>6
<1>4. /\ m \in Nat /\ m >= 1 /\ Len(chunks) = m
      /\ scripts = [i \in 1 .. m |-> ScriptOf(chunks[i])]
      /\ \A i \in 1 .. m :
           /\ chunks[i] \in Seq(Bytes) /\ Len(chunks[i]) \in 1 .. B
           /\ i < m => Len(chunks[i]) = B
  BY <1>1, ScriptsAre
<1>5. chunks = Pieces(Hidden(file), B) /\ Hidden(file) \in Seq(Bytes) /\ Hidden(file) # <<>>
  BY <1>1, InputsArePieces, HiddenIs
<1>6. B \in Nat /\ B > 0
  BY P2wshSizes
<1> HIDE DEF file, m, chunks, scripts, s, B
<1>7. DOMAIN scripts = 1 .. m /\ scripts # <<>> /\ m \in 1 .. m
  <2>1. DOMAIN scripts = 1 .. m
    BY <1>4
  <2>2. m \in 1 .. m /\ 1 .. m # {}
    <3>1. m \in Nat /\ m >= 1
      BY <1>4
    <3>2. m \in 1 .. m
      BY ONLY <3>1
    <3> QED
      BY <3>2, Zenon
  <2>3. DOMAIN <<>> = {}
    OBVIOUS
  <2> QED
    BY <2>1, <2>2, <2>3, Zenon
<1>8. ASSUME NEW i \in 1 .. m
      PROVE  /\ fakes[i].ok
             /\ \E pad \in Seq(Bytes) :
                  /\ IsZeros(pad) /\ parts[i] = Success(chunks[i] \o pad)
                  /\ i < m => pad = <<>>
  <2> DEFINE chunk == chunks[i]
  <2>1. chunk \in Seq(Bytes) /\ Len(chunk) \in 1 .. B /\ (i < m => Len(chunk) = B)
    BY <1>4
  <2>2. fakes[i] = ExtractFakePubkeys(ScriptOf(chunk))
    BY <1>4, <1>7
  <2>3. parts[i] = DecodeFakePubkeys(fakes[i].data)
    BY <1>7
  <2> HIDE DEF chunk, fakes, parts
  <2>4. /\ ExtractFakePubkeys(ScriptOf(chunk)).ok
        /\ \E pad \in Seq(Bytes) :
             /\ IsZeros(pad)
             /\ DecodeFakePubkeys(ExtractFakePubkeys(ScriptOf(chunk)).data) = Success(chunk \o pad)
             /\ Len(chunk) = B => pad = <<>>
    BY <2>1, InputBack DEF B
  <2> QED
    BY <2>1, <2>2, <2>3, <2>4 DEF chunk
<1>9. PICK pad \in Seq(Bytes) : IsZeros(pad) /\ parts[m] = Success(chunks[m] \o pad)
  BY <1>7, <1>8
<1>10. \A i \in 1 .. m : parts[i].ok /\ parts[i].data = IF i = m THEN chunks[i] \o pad ELSE chunks[i]
  <2> SUFFICES ASSUME NEW i \in 1 .. m
               PROVE  parts[i].ok /\ parts[i].data = IF i = m THEN chunks[i] \o pad ELSE chunks[i]
    OBVIOUS
  <2> HIDE DEF parts
  <2>1. CASE i = m
    <3>1. parts[i] = Success(chunks[m] \o pad)
      BY ONLY <1>9, <2>1
    <3>2. parts[i].ok /\ parts[i].data = chunks[m] \o pad
      BY ONLY <3>1 DEF Success
    <3> QED
      BY ONLY <2>1, <3>2
  <2>2. CASE i # m
    <3>1. i < m
      BY <1>4, <2>2
    <3>2. parts[i] = Success(chunks[i] \o <<>>)
      BY <1>8, <3>1
    <3>3. chunks[i] \o <<>> = chunks[i]
      <4>1. chunks[i] \in Seq(Bytes)
        BY <1>4
      <4> QED
        BY <4>1
    <3>4. parts[i] = Success(chunks[i])
      BY <3>2, <3>3
    <3>5. parts[i].ok /\ parts[i].data = chunks[i]
      BY ONLY <3>4 DEF Success
    <3> QED
      BY ONLY <2>2, <3>5
  <2> QED
    BY <2>1, <2>2
<1>11. Len(datas) = m /\ \A i \in 1 .. m : datas[i] = IF i = m THEN chunks[i] \o pad ELSE chunks[i]
  <2> HIDE DEF parts
  <2>1. datas = [i \in 1 .. m |-> parts[i].data]
    BY <1>7
  <2>2. Len(datas) = m
    BY <1>4, <2>1
  <2> QED
    BY <1>10, <2>1, <2>2
<1> HIDE DEF fakes, parts, datas
<1>12. FlattenSeq(datas) = Hidden(file) \o pad
  <2> DEFINE h == Hidden(file)
  <2>1. h \in Seq(Bytes) /\ h # <<>> /\ chunks = Pieces(h, B)
    BY <1>5
  <2> HIDE DEF h
  <2>2. Len(datas) = Len(Pieces(h, B)) /\
        \A i \in 1 .. Len(datas) :
          datas[i] = IF i = Len(datas) THEN Pieces(h, B)[i] \o pad ELSE Pieces(h, B)[i]
    BY <1>4, <1>11, <2>1
  <2>3. FlattenSeq(datas) = h \o pad
    BY ONLY <1>6, <1>9, <2>1, <2>2, PiecesJoined
  <2> QED
    BY <2>3 DEF h
<1>13. FlattenSeq(datas) = s \o (z \o pad) /\ IsZeros(z \o pad)
  <2>1. s \in Seq(Bytes) /\ z \in Seq(Bytes) /\ pad \in Seq(Bytes)
    BY <1>1, <1>3
  <2>2. (s \o z) \o pad = s \o (z \o pad)
    BY ONLY <2>1, ConcatAssociative
  <2>3. /\ z \o pad \in Seq(Bytes) /\ Len(z \o pad) = Len(z) + Len(pad)
        /\ \A k \in 1 .. Len(z) + Len(pad) :
             (z \o pad)[k] = IF k <= Len(z) THEN z[k] ELSE pad[k - Len(z)]
    BY ONLY <2>1, ConcatProperties
  <2> DEFINE e == z \o pad
  <2> HIDE DEF e
  <2>4. \A k \in 1 .. Len(e) : e[k] = 0
    <3> SUFFICES ASSUME NEW k \in 1 .. Len(e) PROVE e[k] = 0
      OBVIOUS
    <3>1. CASE k <= Len(z)
      <4>1. k \in 1 .. Len(z) /\ k \in 1 .. Len(z) + Len(pad)
        BY <2>1, <2>3, <3>1 DEF e
      <4> QED
        BY <2>3, <3>1, <4>1 DEF e, IsZeros
    <3>2. CASE ~(k <= Len(z))
      <4>1. k - Len(z) \in 1 .. Len(pad) /\ k \in 1 .. Len(z) + Len(pad)
        BY <2>1, <2>3, <3>2 DEF e
      <4> QED
        BY <1>9, <2>3, <3>2, <4>1 DEF e, IsZeros
    <3> QED
      BY <3>1, <3>2
  <2> QED
    BY <1>2, <1>12, <2>2, <2>3, <2>4, Zenon DEF e, IsZeros, file
<1>14. data = s
  <2> DEFINE e == z \o pad
  <2>1. FlattenSeq(datas) = s \o e /\ IsZeros(e)
    BY <1>13
  <2> HIDE DEF e
  <2>2. Len(s) >= 1
    BY <1>3
  <2>3. StripTrailingNulls(s \o e) = s
    BY <1>3, <2>1, <2>2, Stripped
  <2> QED
    BY <2>1, <2>3
<1> HIDE DEF data
<1>15. Len(ORDIKNOT_PREFIX) = 3
  BY P2wshSizes
<1>16. /\ ~(scripts = <<>>)
       /\ ~(\E i \in DOMAIN scripts : ~fakes[i].ok \/ ~parts[i].ok)
       /\ ~(Len(data) < Len(ORDIKNOT_PREFIX))
       /\ ~(SubSeq(data, 1, Len(ORDIKNOT_PREFIX)) # ORDIKNOT_PREFIX)
  <2>1. ~(Len(data) < 3)
    BY <1>3, <1>14
  <2>2. \A i \in DOMAIN scripts : fakes[i].ok /\ parts[i].ok
    BY <1>7, <1>8, <1>10
  <2> QED
    BY <1>3, <1>7, <1>14, <1>15, <2>1, <2>2
<1>17. Decode(scripts) = Success(SubSeq(data, Len(ORDIKNOT_PREFIX) + 1, Len(data)))
  BY <1>16, Zenon DEF Decode, data, datas, parts, fakes
<1>18. SubSeq(data, Len(ORDIKNOT_PREFIX) + 1, Len(data)) = text
  <2>1. Len(ORDIKNOT_PREFIX) + 1 = 4
    BY <1>15
  <2> QED
    BY <1>3, <1>14, <2>1
<1> QED
  BY <1>17, <1>18 DEF scripts, file

(* The transactions of a file in the P2WSH format: the spending one is     *)
(* detected and decoded, the funding one is neither.                       *)
LEMMA P2wshTxs ==
  ASSUME NEW file \in Seq(Bytes), NEW encoded, encoded = EncodeP2wsh(file)
  PROVE  /\ DOMAIN encoded[1] = {1, 2} /\ encoded[2] = 2
         /\ DetectTechnique(encoded[1][1]) = NoTechnique
         /\ DetectTechnique(encoded[1][2]) = P2wsh
         /\ DecodeP2wsh(encoded[1][2]) = Decode(Encode(file))
<1> DEFINE scripts == Encode(file)
           m == DivCeil(3 + Len(file), BYTES_PER_ADDITIONAL_INPUT)
           chunks == SplitDataForInputs(file)
           paid == [i \in DOMAIN scripts |-> P2wshScript]
           outs == paid \o <<WalletScript>>
           wits == [i \in DOMAIN scripts |-> <<<<>>, Signature, scripts[i]>>]
           funding == Transaction(outs, <<WalletWitness>>)
           spending == Transaction(<<WalletScript>>, wits)
<1>1. encoded = <<<<funding, spending>>, 2>>
  BY Zenon DEF EncodeP2wsh
<1>2. /\ m \in Nat /\ m >= 1
      /\ scripts = [i \in 1 .. m |-> ScriptOf(chunks[i])]
      /\ chunks[1] \in Seq(Bytes) /\ Len(chunks[1]) \in 1 .. BYTES_PER_ADDITIONAL_INPUT
      /\ Len(chunks[1]) >= 3
      /\ \A k \in 1 .. 3 : chunks[1][k] = ORDIKNOT_PREFIX[k]
  <2>1. /\ m \in Nat /\ m >= 1
        /\ scripts = [i \in 1 .. m |-> ScriptOf(chunks[i])]
        /\ \A i \in 1 .. m :
             chunks[i] \in Seq(Bytes) /\ Len(chunks[i]) \in 1 .. BYTES_PER_ADDITIONAL_INPUT
        /\ Len(chunks[1]) >= 3
        /\ \A k \in 1 .. 3 : chunks[1][k] = ORDIKNOT_PREFIX[k]
    BY ScriptsAre
  <2> HIDE DEF m, chunks, scripts
  <2>2. 1 \in 1 .. m
    BY <2>1
  <2> QED
    BY <2>1, <2>2
<1> HIDE DEF m, chunks, scripts
<1>3. 1 \in 1 .. m /\ DOMAIN scripts = 1 .. m /\ scripts[1] = ScriptOf(chunks[1])
  <2>1. 1 \in 1 .. m
    BY <1>2
  <2> QED
    BY <1>2, <2>1
<1>4. DOMAIN encoded[1] = {1, 2} /\ encoded[2] = 2 /\ encoded[1][1] = funding /\ encoded[1][2] = spending
  <2> HIDE DEF funding, spending
  <2> QED
    BY <1>1
<1>5. /\ funding.outs = outs /\ funding.witnesses = <<WalletWitness>>
      /\ spending.outs = <<WalletScript>> /\ spending.witnesses = wits
  BY DEF Transaction
<1> HIDE DEF funding, spending
<1>6. \A k \in DOMAIN outs : ~Detect(outs[k])
  <2> DEFINE T == {P2wshScript, WalletScript}
  <2>1. paid = [i \in 1 .. m |-> P2wshScript]
    BY <1>3
  <2>2. paid \in Seq(T) /\ <<WalletScript>> \in Seq(T)
    BY <1>2, <2>1
  <2> HIDE DEF paid, T
  <2>3. outs \in Seq(T)
    BY ONLY <2>2, ConcatProperties
  <2> HIDE DEF outs
  <2>4. \A k \in DOMAIN outs : outs[k] \in T
    BY <2>3
  <2>5. ~Detect(P2wshScript) /\ ~Detect(WalletScript)
    BY WalletScripts, NoOpReturn
  <2> QED
    BY <2>4, <2>5, Zenon DEF T
<1> HIDE DEF outs
<1>7. DetectTechnique(funding) = NoTechnique
  <2>1. ~DetectWith(Chained, funding)
    BY <1>5, <1>6, TechniquesDiffer, Zenon DEF DetectWith
  <2>2. ~DetectWith(P2wsh, funding)
    <3>1. Len(WalletWitness) = 2 /\ <<WalletWitness>>[1] = WalletWitness
      BY DEF WalletWitness
    <3>2. Len(funding.witnesses[1]) = 2
      BY <1>5, <3>1, Zenon
    <3>3. ~(2 >= 3)
      OBVIOUS
    <3> QED
      BY <3>2, <3>3, TechniquesDiffer, Zenon DEF DetectWith
  <2> QED
    BY <2>1, <2>2, DetectedTechnique, Zenon
<1>8. /\ wits # <<>> /\ DOMAIN wits = 1 .. m
      /\ \A i \in 1 .. m : Len(wits[i]) = 3 /\ Last(wits[i]) = scripts[i]
  <2>1. DOMAIN wits = 1 .. m
    BY <1>3
  <2>2. wits # <<>>
    <3>1. DOMAIN <<>> = {}
      OBVIOUS
    <3> HIDE DEF wits
    <3> QED
      BY <1>3, <2>1, <3>1, Zenon
  <2>3. \A i \in 1 .. m : Len(wits[i]) = 3 /\ Last(wits[i]) = scripts[i]
    <3> SUFFICES ASSUME NEW i \in 1 .. m PROVE Len(wits[i]) = 3 /\ Last(wits[i]) = scripts[i]
      OBVIOUS
    <3> DEFINE w == <<<<>>, Signature, scripts[i]>>
    <3>1. Len(w) = 3 /\ w[3] = scripts[i]
      OBVIOUS
    <3>2. wits[i] = w
      BY <1>3
    <3> HIDE DEF w
    <3> QED
      BY <3>1, <3>2 DEF Last
  <2> QED
    BY <2>1, <2>2, <2>3
<1> HIDE DEF wits
<1>9. DetectScript(scripts[1])
  <2> DEFINE s == scripts[1]
             p == PushAt(2) + 2
  <2>1. /\ s \in Seq(Bytes) /\ PushAt(2) \in Nat /\ PushAt(2) >= 2 /\ PushAt(2) + 4 <= Len(s)
        /\ \A k \in 1 .. 3 : s[PushAt(2) + 1 + k] = ORDIKNOT_PREFIX[k]
    <3> DEFINE chunk == chunks[1]
    <3>1. chunk \in Seq(Bytes) /\ Len(chunk) \in 1 .. BYTES_PER_ADDITIONAL_INPUT /\ Len(chunk) >= 3
          /\ \A k \in 1 .. 3 : chunk[k] = ORDIKNOT_PREFIX[k]
      BY <1>2
    <3> HIDE DEF chunk
    <3>2. /\ ScriptOf(chunk) \in Seq(Bytes)
          /\ PushAt(2) \in Nat /\ PushAt(2) >= 2 /\ PushAt(2) + 4 <= Len(ScriptOf(chunk))
          /\ \A k \in 1 .. 3 : ScriptOf(chunk)[PushAt(2) + 1 + k] = chunk[k]
      BY <3>1, InputBack
    <3>3. s = ScriptOf(chunk)
      BY <1>3 DEF chunk
    <3> HIDE DEF s
    <3> QED
      BY <3>1, <3>2, <3>3
  <2> HIDE DEF s
  <2>2. /\ PushAt(2) + 1 + 1 = p /\ PushAt(2) + 1 + 2 = p + 1 /\ PushAt(2) + 1 + 3 = p + 2
        /\ p \in Nat /\ p >= 1 /\ PushAt(2) + 4 = p + 2
    BY <2>1
  <2> HIDE DEF p
  <2>3. s[p] = ORDIKNOT_PREFIX[1] /\ s[p + 1] = ORDIKNOT_PREFIX[2] /\ s[p + 2] = ORDIKNOT_PREFIX[3]
    <3>1. 1 \in 1 .. 3 /\ 2 \in 1 .. 3 /\ 3 \in 1 .. 3
      OBVIOUS
    <3> QED
      BY <2>1, <2>2, <3>1
  <2>4. p + 2 <= Len(s)
    BY <2>1, <2>2
  <2>5. DetectScript(s)
    BY <2>1, <2>2, <2>3, <2>4, PrefixFound
  <2> QED
    BY <2>5 DEF s
<1>10. DetectTechnique(spending) = P2wsh
  <2>1. ~DetectWith(Chained, spending)
    <3>1. \A k \in DOMAIN spending.outs : ~Detect(spending.outs[k])
      <4>1. ~Detect(WalletScript)
        BY WalletScripts, NoOpReturn
      <4>2. \A k \in DOMAIN <<WalletScript>> : <<WalletScript>>[k] = WalletScript
        OBVIOUS
      <4> QED
        BY <1>5, <4>1, <4>2, Zenon
    <3> QED
      BY <3>1, TechniquesDiffer, Zenon DEF DetectWith
  <2>2. DetectWith(P2wsh, spending)
    <3>1. /\ spending.witnesses # <<>>
          /\ Len(spending.witnesses[1]) >= 3
          /\ DetectScript(Last(spending.witnesses[1]))
      <4>1. Len(wits[1]) = 3 /\ Last(wits[1]) = scripts[1] /\ wits # <<>>
        BY <1>3, <1>8, Zenon
      <4>2. 3 >= 3
        OBVIOUS
      <4> QED
        BY <1>5, <1>9, <4>1, <4>2, Zenon
    <3> QED
      BY <3>1, Zenon DEF DetectWith
  <2> QED
    BY <2>1, <2>2, DetectedTechnique, Zenon
<1>11. DecodeP2wsh(spending) = Decode(scripts)
  <2> DEFINE w == spending.witnesses
             read == [i \in DOMAIN w |-> Last(w[i])]
  <2>1. w = wits
    BY <1>5
  <2>2. ~(w = <<>> \/ \E i \in DOMAIN w : Len(w[i]) < 3)
    <3>2. ~(3 < 3)
      OBVIOUS
    <3>1. \A i \in 1 .. m : ~(Len(wits[i]) < 3)
      BY <1>8, <3>2, Zenon
    <3> QED
      BY <1>8, <2>1, <3>1, Zenon
  <2>3. read = scripts
    <3>1. read = [i \in 1 .. m |-> Last(wits[i])]
      BY <1>8, <2>1
    <3>2. scripts = [i \in 1 .. m |-> scripts[i]]
      BY <1>2
    <3> HIDE DEF read
    <3> QED
      BY <1>8, <3>1, <3>2
  <2>4. DecodeP2wsh(spending) = Decode(read)
    BY <2>2, Zenon DEF DecodeP2wsh
  <2> HIDE DEF read
  <2> QED
    BY <2>3, <2>4
<1> QED
  BY <1>4, <1>7, <1>10, <1>11 DEF scripts

-----------------------------------------------------------------------------
(* Every file, whatever its bytes.                                         *)

(* Any file that chunk_data accepts comes back byte for byte from the      *)
(* transactions of its chain.                                              *)
THEOREM EveryChainedFile ==
  ASSUME NEW file \in Seq(Nat), ~TooLarge(Len(file))
  PROVE  DecodedAgain(EncodeChained(file)) = Success(file)
<1>1. Fits(file)
  BY DEF Fits, Bytes
<1> QED
  BY ONLY <1>1, ChainedBack

(* Any part of its chain from the head on, and the chain without any one   *)
(* of its later transactions, is refused.                                  *)
THEOREM EveryLossRefused ==
  ASSUME NEW file \in Seq(Nat), ~TooLarge(Len(file)),
         NEW i \in DOMAIN EncodeChained(file)[1], i > 1
  PROVE  /\ ~DecodeCommand(RemoveAt(EncodeChained(file)[1], i), 1).ok
         /\ ~DecodeCommand(SubSeq(EncodeChained(file)[1], 1, i - 1), 1).ok
<1> DEFINE txs == EncodeChained(file)[1]
<1>1. Fits(file) /\ txs = EncodeChained(file)[1] /\ i \in DOMAIN txs /\ i > 1
  BY DEF Fits, Bytes
<1> HIDE DEF txs
<1>2. ~DecodeCommand(RemoveAt(txs, i), 1).ok /\ ~DecodeCommand(SubSeq(txs, 1, i - 1), 1).ok
  BY ONLY <1>1, ChainedLossRefused
<1> QED
  BY <1>2 DEF txs

(* Any P2WSH file comes back but for the zeros at its end: text is what is *)
(* before them, zeros and all, and may be empty.                           *)
THEOREM EveryP2wshFile ==
  ASSUME NEW text \in Seq(Nat), text # <<>> => text[Len(text)] # 0, NEW n \in Nat
  PROVE  DecodedAgain(EncodeP2wsh(text \o [i \in 1 .. n |-> 0])) = Success(text)
<1> DEFINE z == [i \in 1 .. n |-> 0]
           file == text \o z
           encoded == EncodeP2wsh(file)
<1>1. IsZeros(z)
  BY DEF IsZeros, Bytes
<1>2. text \in Seq(Bytes) /\ z \in Seq(Bytes)
  BY <1>1 DEF IsZeros, Bytes
<1> HIDE DEF z
<1>3. file \in Seq(Bytes)
  BY <1>2, ConcatProperties
<1>4. Decode(Encode(file)) = Success(text)
  BY <1>1, <1>2, ScriptsBack
<1> HIDE DEF file
<1>5. /\ encoded[2] = 2
      /\ DetectTechnique(encoded[1][2]) = P2wsh
      /\ DecodeP2wsh(encoded[1][2]) = Decode(Encode(file))
  BY <1>3, P2wshTxs
<1> HIDE DEF encoded
<1>6. DecodeCommand(encoded[1], encoded[2]) = DecodeP2wsh(encoded[1][2])
  BY <1>5, P2wshDecodes
<1>7. DecodedAgain(encoded) = Success(text)
  BY <1>4, <1>5, <1>6 DEF DecodedAgain
<1> QED
  BY <1>7 DEF encoded, file, z

-----------------------------------------------------------------------------
(* The theorems *)

(* A file grows by bytes that are not zero, then by zeros. *)
FilesInv ==
  /\ body \in Seq(Bytes) /\ nulls \in Nat
  /\ \A k \in 1 .. Len(body) : body[k] # 0

LEMMA FilesInvHolds == FormatsSpec => []FilesInv
<1>1. FormatsInit => FilesInv
  BY DEF FormatsInit, FilesInv
<1>2. FilesInv /\ [FormatsNext]_formatsVars => FilesInv'
  <2> SUFFICES ASSUME FilesInv, [FormatsNext]_formatsVars
               PROVE  FilesInv'
    OBVIOUS
  <2>1. CASE GrowBody
    <3> DEFINE b == Append(body, 257 + Len(body))
    <3>1. body \in Seq(Bytes) /\ Len(body) \in Nat /\ 257 + Len(body) \in Bytes
      BY DEF FilesInv, Bytes
    <3>2. /\ b \in Seq(Bytes) /\ Len(b) = Len(body) + 1
          /\ \A k \in 1 .. Len(body) : b[k] = body[k]
          /\ b[Len(body) + 1] = 257 + Len(body)
      BY <3>1
    <3>3. \A k \in 1 .. Len(b) : b[k] # 0
      <4> SUFFICES ASSUME NEW k \in 1 .. Len(b) PROVE b[k] # 0
        OBVIOUS
      <4>1. k \in 1 .. Len(body) \/ k = Len(body) + 1
        BY <3>1, <3>2
      <4>2. CASE k \in 1 .. Len(body)
        BY <3>2, <4>2 DEF FilesInv
      <4>3. CASE k = Len(body) + 1
        BY <3>1, <3>2, <4>3
      <4> QED
        BY <4>1, <4>2, <4>3
    <3>4. body' = b /\ nulls' = nulls
      BY <2>1 DEF GrowBody
    <3> HIDE DEF b
    <3> QED
      BY <3>2, <3>3, <3>4 DEF FilesInv
  <2>2. CASE AddNull
    BY <2>2 DEF AddNull, FilesInv
  <2>3. CASE UNCHANGED formatsVars
    BY <2>3 DEF formatsVars, FilesInv
  <2> QED
    BY <2>1, <2>2, <2>3 DEF FormatsNext
<1> QED
  BY <1>1, <1>2, PTL DEF FormatsSpec

Zeros == [i \in 1 .. nulls |-> 0]

LEMMA FileIs ==
  ASSUME FilesInv
  PROVE  /\ File = body \o Zeros /\ Zeros \in Seq(Bytes) /\ Len(Zeros) = nulls
         /\ \A i \in 1 .. nulls : Zeros[i] = 0
         /\ File \in Seq(Bytes)
         /\ Chunkable <=> Fits(File)
<1>1. Zeros \in Seq(Bytes) /\ Len(Zeros) = nulls /\ \A i \in 1 .. nulls : Zeros[i] = 0
  BY DEF FilesInv, Zeros, Bytes
<1>2. File = body \o Zeros
  BY DEF File, Zeros
<1>3. File \in Seq(Bytes)
  BY <1>1, <1>2, ConcatProperties DEF FilesInv
<1> QED
  BY <1>1, <1>2, <1>3 DEF Fits, Chunkable

(* A file that chunk_data accepts comes back byte for byte from the        *)
(* transactions of its chain, whatever the sizes of payload, chunks and    *)
(* chain.                                                                  *)
THEOREM SpecChainedRoundTrip == FormatsSpec => []ChainedRoundTrip
<1>1. FilesInv => ChainedRoundTrip
  BY FileIs, ChainedBack DEF ChainedRoundTrip
<1> QED
  BY <1>1, FilesInvHolds, PTL

(* decode refuses a chain that lost any transaction after the first, or    *)
(* all from one on: it never hands out a part of a file as the file.       *)
THEOREM SpecLostChunkRefused == FormatsSpec => []LostChunkRefused
<1>1. FilesInv => LostChunkRefused
  <2> SUFFICES ASSUME FilesInv, Chunkable, NEW txs, txs = EncodeChained(File)[1],
                      NEW i \in DOMAIN txs, i > 1
               PROVE  /\ ~DecodeCommand(RemoveAt(txs, i), 1).ok
                      /\ ~DecodeCommand(SubSeq(txs, 1, i - 1), 1).ok
    BY DEF LostChunkRefused
  <2> QED
    BY FileIs, ChainedLossRefused
<1> QED
  BY <1>1, FilesInvHolds, PTL

(* chunk_data accepts a file exactly if it is no longer than the limit its *)
(* error message states.                                                   *)
THEOREM SpecAdvertisedLimit == FormatsSpec => []AdvertisedLimit
<1>1. FilesInv => AdvertisedLimit
  <2> SUFFICES ASSUME FilesInv PROVE AdvertisedLimit
    OBVIOUS
  <2>1. Len(File) \in Nat
    BY FileIs
  <2> QED
    BY <2>1, LimitIsExact, Zenon DEF AdvertisedLimit, Chunkable
<1> QED
  BY <1>1, FilesInvHolds, PTL

(* The scriptPubKey of every chunk but the last is MAX_OP_RETURN_SIZE and  *)
(* the opcodes before it, the last is no longer, and no later chunk has    *)
(* less data than it needs to be relayed: for all sizes.                   *)
THEOREM SpecRelayableChunks == FormatsSpec => []RelayableChunks
<1>1. FilesInv => RelayableChunks
  <2> DEFINE chunks == ChunkData(File)
             size(i) == Len(OpReturnScript(EncodeChunk(chunks[i])))
  <2> SUFFICES ASSUME FilesInv, Chunkable, NEW i \in DOMAIN chunks
               PROVE  /\ size(i) <= MAX_OP_RETURN_SIZE + PushOverhead
                      /\ i < Len(chunks) => size(i) = MAX_OP_RETURN_SIZE + PushOverhead
                      /\ i > 1 => Len(chunks[i].data) >= MIN_LAST_CHUNK_SIZE
    BY DEF RelayableChunks
  <2> QED
    BY FileIs, ChunksRelayed
<1> QED
  BY <1>1, FilesInvHolds, PTL

(* A file takes as many inputs as calculate_inputs_needed announces to the *)
(* funding, and each has few enough public keys for CHECKMULTISIG.         *)
THEOREM SpecInputsAsAnnounced == FormatsSpec => []InputsAsAnnounced
<1>1. ASSUME FilesInv PROVE InputsAsAnnounced
  <2> DEFINE chunks == SplitDataForInputs(File)
             B == BYTES_PER_ADDITIONAL_INPUT
             D == DATA_BYTES_PER_PUBKEY
             h == Hidden(File)
  <2>1. File \in Seq(Bytes) /\ Len(File) \in Nat
    BY <1>1, FileIs
  <2>2. chunks = Pieces(h, B) /\ h \in Seq(Bytes) /\ Len(h) = 3 + Len(File)
    BY <2>1, InputsArePieces, HiddenIs
  <2>3. B \in Nat /\ B > 0 /\ B = (MAX_PUBKEYS_PER_MULTISIG - 1) * D
        /\ D \in Nat /\ D > 0 /\ MAX_PUBKEYS_PER_MULTISIG - 1 \in 1 .. 19
    BY P2wshSizes
  <2> HIDE DEF B, D, h, chunks
  <2>4. /\ DivCeil(Len(h), B) \in Nat
        /\ DOMAIN chunks = 1 .. DivCeil(Len(h), B) /\ Len(chunks) = DivCeil(Len(h), B)
        /\ \A i \in 1 .. DivCeil(Len(h), B) : chunks[i] \in Seq(Bytes) /\ Len(chunks[i]) \in 1 .. B
    BY <2>2, <2>3, PiecesAre
  <2>5. Len(chunks) = CalculateInputsNeeded(Len(File))
    BY <2>1, <2>2, <2>4, InputCount DEF B
  <2>6. ASSUME NEW i \in DOMAIN chunks
        PROVE  ~TooManyPubkeys(EncodeDataAsFakePubkeys(chunks[i]))
    <3> DEFINE chunk == chunks[i]
               q == DivCeil(Len(chunk), D)
               K == MAX_PUBKEYS_PER_MULTISIG - 1
    <3>1. chunk \in Seq(Bytes) /\ Len(chunk) \in 1 .. B
      BY <2>4
    <3> HIDE DEF chunk
    <3>2. q \in Nat /\ q > 0 /\ (q - 1) * D < Len(chunk)
      BY <2>3, <3>1, DivCeilBounds
    <3>3. Len(EncodeDataAsFakePubkeys(chunk)) = q
      <4>1. DOMAIN Pieces(chunk, D) = 1 .. q
        BY <2>3, <3>1, PiecesAre
      <4> HIDE DEF q
      <4> QED
        BY <3>2, <4>1 DEF EncodeDataAsFakePubkeys, D
    <3> HIDE DEF q
    <3>k. K \in Nat /\ B = K * D /\ D \in Nat /\ B \in Nat
      <4>1. K \in 1 .. 19
        BY P2wshSizes, Zenon
      <4>2. K \in Nat
        BY <4>1
      <4> QED
        BY <2>3, <4>2
    <3> HIDE DEF K
    <3>q. q - 1 \in Nat
      BY <3>2
    <3>4. q <= K
      <4> SUFFICES ASSUME K <= q - 1 PROVE FALSE
        BY <3>2, <3>k
      <4>2. K * D <= (q - 1) * D /\ K * D \in Nat /\ (q - 1) * D \in Nat
        BY <3>k, <3>q, Multiples
      <4> QED
        BY <3>k, <3>1, <3>2, <4>2
    <3>5. ~(1 + q > MAX_PUBKEYS_PER_MULTISIG)
      BY <3>2, <3>4, P2wshAssumption DEF K
    <3>6. ~TooManyPubkeys(EncodeDataAsFakePubkeys(chunk))
      BY <3>3, <3>5, Zenon DEF TooManyPubkeys
    <3> QED
      BY <3>6 DEF chunk
  <2> QED
    BY <2>5, <2>6, Zenon DEF InputsAsAnnounced, chunks
<1> QED
  BY <1>1, FilesInvHolds, PTL

(* A P2WSH file comes back without the zeros at its end, and nothing else  *)
(* is lost, added or moved, wherever the ends of keys and inputs fall.     *)
THEOREM SpecOnlyTrailingZerosLost == FormatsSpec => []OnlyTrailingZerosLost
<1>1. ASSUME FilesInv PROVE OnlyTrailingZerosLost
  <2>1. File = body \o [i \in 1 .. nulls |-> 0]
    BY DEF File
  <2>2. body \in Seq(Nat) /\ (body # <<>> => body[Len(body)] # 0) /\ nulls \in Nat
    BY <1>1 DEF FilesInv, Bytes
  <2>3. DecodedAgain(EncodeP2wsh(body \o [i \in 1 .. nulls |-> 0])) = Success(body)
    BY ONLY <2>2, EveryP2wshFile
  <2> QED
    BY <2>1, <2>3 DEF OnlyTrailingZerosLost
<1> QED
  BY <1>1, FilesInvHolds, PTL

(* Of the transactions of a file, whatever its technique and however many  *)
(* there are, exactly the one that decode is told about is detected: the   *)
(* index has one entry for each knotwork.                                  *)
THEOREM SpecDetectedAsWritten == FormatsSpec => []DetectedAsWritten
<1>1. ASSUME FilesInv PROVE DetectedAsWritten
  <2>1. File \in Seq(Bytes)
    BY <1>1, FileIs
  <2> SUFFICES ASSUME NEW technique \in {Chained, P2wsh}, technique = Chained => Chunkable,
                      NEW encoded, encoded = EncodeWith(technique, File),
                      NEW i \in DOMAIN encoded[1]
               PROVE  DetectTechnique(encoded[1][i])
                        = IF i = encoded[2] THEN technique ELSE NoTechnique
    BY Zenon DEF DetectedAsWritten
  <2>2. CASE technique = Chained
    <3>1. Fits(File) /\ encoded = EncodeChained(File)
      BY <1>1, <2>2, FileIs DEF EncodeWith
    <3>2. DOMAIN encoded[1] = 1 .. Count(File) /\ encoded[2] = 1
      BY <3>1, ChainedTxs
    <3>3. DetectTechnique(EncodeChained(File)[1][i]) = IF i = 1 THEN Chained ELSE NoTechnique
      <4>1. Fits(File) /\ i \in 1 .. Count(File)
        BY <3>1, <3>2, Zenon
      <4> QED
        BY ONLY <4>1, ChainedDetected
    <3> QED
      BY <2>2, <3>1, <3>2, <3>3, Zenon
  <2>3. CASE technique = P2wsh
    <3>1. encoded = EncodeP2wsh(File)
      BY <2>3, TechniquesDiffer DEF EncodeWith
    <3>2. /\ DOMAIN encoded[1] = {1, 2} /\ encoded[2] = 2
          /\ DetectTechnique(encoded[1][1]) = NoTechnique
          /\ DetectTechnique(encoded[1][2]) = P2wsh
      BY <2>1, <3>1, P2wshTxs
    <3> QED
      BY <2>3, <3>2
  <2> QED
    BY <2>2, <2>3
<1> QED
  BY <1>1, FilesInvHolds, PTL
================================================================================
