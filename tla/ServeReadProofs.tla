-------------------------- MODULE ServeReadProofs --------------------------
(***************************************************************************)
(* What ServeRead promises, for any page size, any file, any claimed       *)
(* length, any source and any width of the integers: a read stays in its   *)
(* buffer and in the file, hands out the bytes of the place it was asked   *)
(* for, and is cut short by nothing but the end of the file.               *)
(***************************************************************************)
EXTENDS ServeRead, SequenceTheorems, TLAPS

-----------------------------------------------------------------------------
(* Pages.                                                                  *)

\* A byte's page and its place there say where it is.
LEMMA DivMod ==
    ASSUME NEW n \in Nat, NEW d \in Nat \ {0}
    PROVE  /\ n \div d \in Nat /\ n % d \in 0..(d - 1)
           /\ n = (n \div d) * d + (n % d)
OBVIOUS

\* A place in a page is in no other page.
LEMMA DivUnique ==
    ASSUME NEW q \in Nat, NEW r \in Nat, NEW d \in Nat \ {0}, r < d
    PROVE  (q * d + r) \div d = q
<1> DEFINE n == q * d + r
           k == n \div d
<1>1. n \in Nat /\ k \in Nat /\ n % d \in 0..(d - 1) /\ n = k * d + (n % d)
  <2>1. n \in Nat
      OBVIOUS
  <2> HIDE DEF n
  <2> QED
      BY <2>1, DivMod
<1>2. ~(k < q)
  <2> SUFFICES ASSUME k + 1 <= q
               PROVE  FALSE
      BY <1>1
  <2>1. (k + 1) * d <= q * d
      BY <1>1
  <2>2. (k + 1) * d = k * d + d
      BY <1>1
  <2> QED
      BY <1>1, <2>1, <2>2
<1>3. ~(q < k)
  <2> SUFFICES ASSUME q + 1 <= k
               PROVE  FALSE
      BY <1>1
  <2>1. (q + 1) * d <= k * d
      BY <1>1
  <2>2. (q + 1) * d = q * d + d
      OBVIOUS
  <2> QED
      BY <1>1, <2>1, <2>2
<1> QED
    BY <1>1, <1>2, <1>3

\* Where the bytes of a page end.
LEMMA PageEnds ==
    ASSUME NEW p \in Nat
    PROVE  /\ PageLen(p) \in 0..PageSize
           /\ \A i \in Nat \ {0} : i <= PageLen(p) => p * PageSize + i - 1 < DataLen
           /\ \A i \in Nat \ {0} :
                  PageLen(p) < i /\ i <= PageSize => p * PageSize + i - 1 >= DataLen
<1> DEFINE s == p * PageSize
<1>1. s \in Nat /\ PageSize \in Nat /\ DataLen \in Nat
    BY ServeReadAssumption
<1>2. PageLen(p) = IF s >= DataLen THEN 0
                   ELSE IF PageSize < DataLen - s THEN PageSize ELSE DataLen - s
    BY DEF PageLen, Least
<1> HIDE DEF s
<1>3. /\ PageLen(p) \in 0..PageSize
      /\ \A i \in Nat \ {0} : i <= PageLen(p) => s + i - 1 < DataLen
      /\ \A i \in Nat \ {0} : PageLen(p) < i /\ i <= PageSize => s + i - 1 >= DataLen
    BY <1>1, <1>2
<1> QED
    BY <1>3 DEF s

\* A page is a sequence of as many bytes as it is long.
LEMMA RealPageLen ==
    ASSUME NEW p \in Nat
    PROVE  RealPage(p) \in Seq(Int) /\ Len(RealPage(p)) = PageLen(p)
<1> DEFINE s == p * PageSize
           real == RealPage(p)
<1>1. s \in Nat /\ PageLen(p) \in Nat
    BY PageEnds, ServeReadAssumption
<1>2. real = [i \in 1..PageLen(p) |-> s + i - 1]
    BY DEF RealPage
<1> HIDE DEF s, real
<1>3. real \in [1..PageLen(p) -> Int]
    BY <1>1, <1>2
<1>4. real \in Seq(Int) /\ Len(real) = PageLen(p)
    BY <1>1, <1>3
<1> QED
    BY <1>4 DEF real

\* What a page holds, however the source answers.
LEMMA PageBytes ==
    ASSUME NEW p \in Nat, NEW b,
           b[1] \in {"normal", "missing", "oversize", "short"}, b[2] \in Nat
    PROVE  /\ Answer(b, p) \in Seq(Int)
           /\ \A i \in 1..Len(Answer(b, p)) :
                  i <= PageLen(p) => Answer(b, p)[i] = p * PageSize + i - 1
           /\ b[1] # "oversize" => Len(Answer(b, p)) <= PageLen(p)
           /\ b[1] = "normal" => Len(Answer(b, p)) = PageLen(p)
<1> DEFINE s == p * PageSize
           real == RealPage(p)
<1>1. s \in Nat /\ PageLen(p) \in Nat
    BY PageEnds, ServeReadAssumption
<1>2. /\ real \in Seq(Int) /\ Len(real) = PageLen(p)
      /\ \A i \in 1..PageLen(p) : real[i] = s + i - 1
  <2>1. real = [i \in 1..PageLen(p) |-> s + i - 1]
      BY DEF RealPage
  <2>2. real \in Seq(Int) /\ Len(real) = PageLen(p)
      BY RealPageLen
  <2> HIDE DEF s, real
  <2> QED
      BY <2>1, <2>2
<1> HIDE DEF s, real
<1>3. CASE b[1] = "oversize"
  <2> DEFINE more == [i \in 1..(b[2] + 1) |-> Junk]
  <2>1. Answer(b, p) = real \o more
      BY <1>3 DEF Answer, real
  <2>2. more \in [1..(b[2] + 1) -> Int] /\ b[2] + 1 \in Nat
      BY DEF Junk
  <2>3. more \in Seq(Int)
      BY <2>2
  <2> HIDE DEF more
  <2>4. real \o more \in Seq(Int)
      BY <1>2, <2>3
  <2>5. \A i \in 1..PageLen(p) : (real \o more)[i] = real[i]
      BY <1>1, <1>2, <2>3, ConcatProperties
  <2>6. Len(real \o more) \in Nat
      BY <2>4
  <2> QED
      BY <1>1, <1>2, <1>3, <2>1, <2>4, <2>5, <2>6 DEF s
<1>4. CASE b[1] = "short"
  <2> DEFINE k == Least(b[2], PageLen(p))
  <2>1. k \in 0..PageLen(p)
      BY <1>1 DEF Least
  <2>2. Answer(b, p) = SubSeq(real, 1, k)
      BY <1>4 DEF Answer, real
  <2> HIDE DEF k
  <2>3. /\ SubSeq(real, 1, k) \in Seq(Int) /\ Len(SubSeq(real, 1, k)) = k
        /\ \A i \in 1..k : SubSeq(real, 1, k)[i] = real[i]
      BY <1>1, <1>2, <2>1
  <2> QED
      BY <1>1, <1>2, <1>4, <2>1, <2>2, <2>3 DEF s
<1>5. CASE b[1] \notin {"oversize", "short"}
  <2>1. Answer(b, p) = real
      BY <1>5 DEF Answer, real
  <2> QED
      BY <1>1, <1>2, <1>5, <2>1 DEF s
<1> QED
    BY <1>3, <1>4, <1>5

-----------------------------------------------------------------------------
(* The invariant.                                                          *)

\* What the calls before have brought, and where that leaves the one that runs.
Served == Len(buf) - done

Calling ==
    /\ offset = from + Served
    /\ Served \in 0..nr
    /\ want = Clamp(total, offset, nr - Served)
    /\ op # "at" => Served = 0
    /\ op = "next" => from = pos

\* A page is asked for only of a file that goes on past where the call reads.
Asked == answered # NoAnswer => from < total

ServeReadInv ==
    /\ TypeOK
    /\ InBounds
    /\ RightBytes
    /\ ReadIsExact
    /\ Asked
    /\ ret = "busy" => Calling

\* A request is clamped to the claimed length: what is wanted lies in the file (serve_read).
LEMMA Clamped ==
    ASSUME NEW t \in Nat, NEW o \in Nat, NEW k \in Nat
    PROVE  /\ Clamp(t, o, k) \in 0..k
           /\ Clamp(t, o, k) > 0 => o + Clamp(t, o, k) <= t
           /\ Clamp(t, o, k) = k \/ (o >= t /\ Clamp(t, o, k) = 0)
                                  \/ (o < t /\ Clamp(t, o, k) = t - o)
BY DEF Clamp, Least

\* A call that starts, and one that ends at once.
LEMMA Starts ==
    ASSUME NEW t \in 0..MaxU64, NEW l \in 0..MaxU64, NEW k \in 0..MaxRead,
           Start(t, l, k), total' = t, reader' \in {"none", "vfs", "wal", "shim"},
           woken' \in BOOLEAN, pos' \in 0..MaxU64, op' \in {"serve", "at", "next"},
           op' = "next" => l = pos'
    PROVE  ServeReadInv'
<1>1. MaxU64 \in Nat /\ MaxRead \in Nat
    BY ServeReadAssumption
<1>2. /\ from' = l /\ nr' = k /\ buf' = <<>> /\ answered' = NoAnswer
      /\ offset' = l /\ want' = Clamp(t, l, k) /\ done' = 0 /\ ret' = "busy"
    BY DEF Start, Enter
<1>3. Clamp(t, l, k) \in 0..k
    BY <1>1, Clamped
<1>4. Len(buf') = 0 /\ DOMAIN answered' = {}
    BY <1>2 DEF NoAnswer
<1>5. TypeOK'
    BY <1>1, <1>2, <1>3, <1>4 DEF TypeOK
<1>6. InBounds' /\ RightBytes' /\ ReadIsExact'
    BY <1>1, <1>2, <1>4 DEF InBounds, RightBytes, ReadIsExact, Idle
<1>8. Asked'
    BY <1>2 DEF Asked
<1>7. Calling'
    BY <1>1, <1>2, <1>4 DEF Calling, Served
<1> QED
    BY <1>5, <1>6, <1>7, <1>8 DEF ServeReadInv

\* A call that copies nothing leaves the invariant (the early returns of serve_read).
LEMMA EndsAtOnce ==
    ASSUME NEW r \in {"ok", "error"}, NEW l \in 0..MaxU64, NEW k \in 0..MaxRead,
           EndAtOnce(r, l, k), total' \in 0..MaxU64,
           reader' \in {"none", "vfs", "wal", "shim"},
           woken' \in BOOLEAN, pos' \in 0..MaxU64, op' \in {"serve", "at", "next"},
           op' = "at" /\ r = "ok" => k = 0
    PROVE  ServeReadInv'
<1>1. MaxU64 \in Nat /\ MaxRead \in Nat
    BY ServeReadAssumption
<1>2. /\ from' = l /\ nr' = k /\ buf' = <<>> /\ answered' = NoAnswer
      /\ offset' = l /\ want' = 0 /\ done' = 0 /\ ret' = r
    BY DEF EndAtOnce
<1>3. Len(buf') = 0 /\ DOMAIN answered' = {} /\ ~AllNormal'
    BY <1>2 DEF NoAnswer, AllNormal
<1>4. TypeOK'
    BY <1>1, <1>2, <1>3 DEF TypeOK
<1>5. InBounds' /\ RightBytes' /\ ReadIsExact'
    BY <1>1, <1>2, <1>3 DEF InBounds, RightBytes, ReadIsExact, Idle
<1>6. Asked' /\ ret' # "busy"
    BY <1>2 DEF Asked
<1> QED
    BY <1>4, <1>5, <1>6 DEF ServeReadInv

-----------------------------------------------------------------------------
(* The calls.                                                              *)

\* Opening a handle leaves the invariant.
LEMMA HandleKeeps ==
    ASSUME ServeReadInv,
           \/ OpenWal \/ Close
           \/ \E len \in Lens : OpenFile(len) \/ Boot(len)
    PROVE  ServeReadInv'
<1>1. 0 \in 0..MaxU64 /\ 0 \in 0..MaxRead /\ Lens \subseteq 0..MaxU64
    BY ServeReadAssumption
<1>2. PICK r \in {"none", "vfs", "wal", "shim"}, w \in BOOLEAN, t \in 0..MaxU64 : Hold(r, w, t)
    BY <1>1 DEF OpenWal, Close, OpenFile, Boot
<1> QED
    BY <1>1, <1>2, EndsAtOnce DEF Hold

\* A positional Read starts with nothing copied (FlockFileSystem::Read).
LEMMA PreadKeeps ==
    ASSUME ServeReadInv, NEW l \in 0..MaxU64, NEW k \in 0..MaxRead,
           Pread(l, k), UNCHANGED <<file, pos>>, op' \in {"at", "next"},
           op' = "next" => l = pos
    PROVE  ServeReadInv'
<1>1. 0 \in 0..MaxRead
    BY ServeReadAssumption
<1>2. /\ reader' \in {"none", "vfs", "wal", "shim"} /\ woken' \in BOOLEAN
      /\ total \in 0..MaxU64 /\ total' = total /\ pos' = pos /\ pos' \in 0..MaxU64
    BY DEF ServeReadInv, TypeOK, file
<1>3. CASE EndAtOnce("error", l, k)
    BY <1>2, <1>3, EndsAtOnce
<1>4. CASE EndAtOnce("ok", l, 0)
    BY <1>1, <1>2, <1>4, EndsAtOnce
<1>5. CASE Start(total, l, k)
    BY <1>2, <1>5, Starts
<1> QED
    BY <1>3, <1>4, <1>5 DEF Pread

\* A sequential Read starts at its cursor (FlockFileSystem::Read).
LEMMA CallKeeps ==
    ASSUME ServeReadInv, NEW k \in 0..MaxRead,
           \/ \E l \in 0..MaxU64 : ReadAt(l, k) \/ ShimPread(l, k)
           \/ ReadNext(k) \/ ShimRead(k)
           \/ \E len \in Lens, l \in 0..MaxU64 : ServeRead(len, l, k)
    PROVE  ServeReadInv'
<1>1. /\ reader \in {"none", "vfs", "wal", "shim"} /\ woken \in BOOLEAN
      /\ total \in 0..MaxU64 /\ pos \in 0..MaxU64
      /\ 0 \in 0..MaxU64 /\ Lens \subseteq 0..MaxU64
    BY ServeReadAssumption DEF ServeReadInv, TypeOK
<1>2. ASSUME NEW l \in 0..MaxU64, ReadAt(l, k)
      PROVE  ServeReadInv'
  <2>1. /\ UNCHANGED <<file, pos>> /\ op' = "at"
        /\ \/ k = 0 /\ EndAtOnce("ok", l, k)
           \/ EndAtOnce("error", l, k)
           \/ Pread(l, k)
      BY <1>2 DEF ReadAt
  <2> QED
      BY <1>1, <2>1, EndsAtOnce, PreadKeeps DEF file
<1>3. CASE ReadNext(k)
  <2>1. /\ UNCHANGED <<file, pos>> /\ op' = "next"
        /\ EndAtOnce("ok", pos, k) \/ Pread(pos, k)
      BY <1>3 DEF ReadNext
  <2> QED
      BY <1>1, <2>1, EndsAtOnce, PreadKeeps DEF file
<1>4. ASSUME NEW l \in 0..MaxU64, ShimPread(l, k)
      PROVE  ServeReadInv'
  <2>1. PICK o \in 0..MaxU64 : o = IF Signed(l) < 0 THEN 0 ELSE l
      BY <1>1
  <2>2. /\ UNCHANGED <<file, pos>> /\ op' = "serve"
        /\ Start(total, o, k) \/ EndAtOnce("error", o, k)
      BY <1>4, <2>1 DEF ShimPread
  <2> QED
      BY <1>1, <2>2, EndsAtOnce, Starts DEF file
<1>5. CASE ShimRead(k)
  <2>1. /\ UNCHANGED <<file, pos>> /\ op' = "next"
        /\ Start(total, pos, k) \/ EndAtOnce("error", pos, k)
      BY <1>5 DEF ShimRead
  <2> QED
      BY <1>1, <2>1, EndsAtOnce, Starts DEF file
<1>6. ASSUME NEW len \in Lens, NEW l \in 0..MaxU64, ServeRead(len, l, k)
      PROVE  ServeReadInv'
  <2>1. /\ op' = "serve" /\ total' = len /\ Start(len, l, k)
        /\ UNCHANGED <<reader, woken, pos>> /\ len \in 0..MaxU64
      BY <1>1, <1>6 DEF ServeRead
  <2> QED
      BY <1>1, <2>1, Starts
<1> QED
    BY <1>2, <1>3, <1>4, <1>5, <1>6

\* Moving the cursor between calls leaves the invariant (FlockFileSystem::Seek).
LEMMA SeekKeeps ==
    ASSUME ServeReadInv, WakeShim \/ \E l \in 0..MaxU64 : Seek(l)
    PROVE  ServeReadInv'
<1>1. /\ UNCHANGED <<reader, total, call, served, answered, ret>> /\ ret # "busy"
      /\ pos' = pos \/ pos' \in 0..MaxU64
      /\ woken' = woken \/ woken' = TRUE
    BY DEF WakeShim, Seek, file, Idle
<1>2. TypeOK'
    BY <1>1 DEF ServeReadInv, TypeOK, call, served
<1>3. InBounds' /\ RightBytes' /\ ReadIsExact' /\ Asked' /\ ret' # "busy"
    BY <1>1 DEF ServeReadInv, InBounds, RightBytes, ReadIsExact, Asked, Idle, AllNormal,
                call, served
<1> QED
    BY <1>2, <1>3 DEF ServeReadInv

-----------------------------------------------------------------------------
(* The loop.                                                               *)

\* Where a byte that is still wanted lies.
LEMMA NextByte ==
    ASSUME ServeReadInv, ret = "busy", done < want
    PROVE  /\ FilePos \in Nat /\ FilePos < total
           /\ FilePos = from + Len(buf)
           /\ PageNo \in Nat /\ PageOff \in 0..(PageSize - 1)
           /\ FilePos = PageNo * PageSize + PageOff
           /\ Len(buf) + (want - done) <= nr
           /\ FilePos + (want - done) <= total
<1>1. /\ total \in Nat /\ offset \in Nat /\ done \in Nat /\ want \in Nat /\ from \in Nat
      /\ nr \in Nat /\ Len(buf) \in Nat /\ Served \in 0..nr
    BY ServeReadAssumption DEF ServeReadInv, TypeOK, Calling
<1>2. want = Clamp(total, offset, nr - Served) /\ offset = from + Served
    BY DEF ServeReadInv, Calling
<1>3. nr - Served \in Nat
    BY <1>1
<1>4. want <= nr - Served /\ (want > 0 => offset + want <= total)
  <2> DEFINE k == nr - Served
  <2>1. k \in Nat /\ want = Clamp(total, offset, k)
      BY <1>2, <1>3
  <2> HIDE DEF k
  <2>2. want \in 0..k /\ (want > 0 => offset + want <= total)
      BY <1>1, <2>1, Clamped
  <2>3. want <= k
      BY <2>1, <2>2
  <2> QED
      BY <2>2, <2>3 DEF k
<1>5. FilePos \in Nat /\ FilePos < total /\ FilePos + (want - done) <= total
    BY <1>1, <1>4 DEF FilePos
<1>6. FilePos = from + Len(buf) /\ Len(buf) + (want - done) <= nr
    BY <1>1, <1>2, <1>4 DEF FilePos, Served
<1>7. /\ PageNo \in Nat /\ PageOff \in 0..(PageSize - 1)
      /\ FilePos = PageNo * PageSize + PageOff
    BY <1>5, DivMod, ServeReadAssumption DEF PageNo, PageOff
<1> QED
    BY <1>5, <1>6, <1>7

\* What the source may answer.
LEMMA BehaviorTypes ==
    ASSUME NEW b \in Behaviors
    PROVE  /\ b[1] \in {"normal", "missing", "oversize", "short"} /\ b[2] \in Nat
           /\ reader = "shim" => b[1] \in {"normal", "missing"}
<1>1. b \in {<<"normal", 0>>, <<"missing", 0>>}
          \/ (reader # "shim" /\ b \in {"oversize", "short"} \X (0..PageSize))
    BY DEF Behaviors
<1> QED
    BY <1>1

\* A page that was what it should be is not refused.
LEMMA NormalServes ==
    ASSUME ServeReadInv, ret = "busy", done < want, total <= DataLen, NEW b \in Behaviors
    PROVE  b[1] = "normal" => ~Refuses(b, Answer(b, PageNo))
<1> DEFINE page == Answer(b, PageNo)
<1>1. /\ PageNo \in Nat /\ PageLen(PageNo) \in 0..PageSize
      /\ b[1] = "normal" => Len(page) = PageLen(PageNo)
  <2>1. PageNo \in Nat
      BY NextByte
  <2>2. b[1] \in {"normal", "missing", "oversize", "short"} /\ b[2] \in Nat
      BY BehaviorTypes
  <2>3. ASSUME b[1] = "normal" PROVE Len(page) = PageLen(PageNo)
    <3>1. page = RealPage(PageNo)
        BY <2>3 DEF Answer
    <3>2. Len(RealPage(PageNo)) = PageLen(PageNo)
        BY <2>1, RealPageLen
    <3> QED
        BY <3>1, <3>2
  <2>4. PageLen(PageNo) \in 0..PageSize
      BY <2>1, PageEnds
  <2> QED
      BY <2>1, <2>2, <2>3, <2>4
<1>2. /\ PageOff \in 0..(PageSize - 1) /\ PageNo * PageSize + PageOff < DataLen
      /\ FilePos < total /\ total <= MaxU64 /\ FilePos \in Nat /\ total \in Nat
    BY NextByte, ServeReadAssumption DEF ServeReadInv, TypeOK
<1>3. PageOff < PageLen(PageNo)
  <2> DEFINE i == PageOff + 1
  <2>1. i \in Nat \ {0} /\ i <= PageSize /\ PageNo * PageSize + i - 1 < DataLen
      BY <1>1, <1>2, ServeReadAssumption
  <2>2. ~(PageLen(PageNo) < i)
    <3> HIDE DEF i
    <3> DEFINE s == PageNo * PageSize
    <3>1. s \in Nat
        BY <1>1, ServeReadAssumption
    <3>2. PageLen(PageNo) < i /\ i <= PageSize => s + i - 1 >= DataLen
        BY <1>1, <2>1, PageEnds
    <3> HIDE DEF s
    <3> QED
        BY <2>1, <3>1, <3>2, ServeReadAssumption DEF s
  <2> QED
      BY <1>1, <1>2, <2>2
<1> HIDE DEF page
<1>4. ~(FilePos > MaxU64)
    BY <1>2, ServeReadAssumption
<1>5. b[1] = "normal" => ~(Len(page) > PageSize) /\ ~(PageOff >= Len(page))
    BY <1>1, <1>2, <1>3, ServeReadAssumption
<1> QED
    BY <1>4, <1>5 DEF Refuses, page

\* What a fault brings is the next bytes of the file, or bytes past its end.
LEMMA FaultBytes ==
    ASSUME ServeReadInv, ret = "busy", done < want, NEW b \in Behaviors,
           ~Refuses(b, Answer(b, PageNo))
    PROVE  LET piece == SubSeq(Answer(b, PageNo), PageOff + 1, PageOff + Take(Answer(b, PageNo)))
           IN  /\ Take(Answer(b, PageNo)) \in 1..(want - done)
               /\ piece \in Seq(Int) /\ Len(piece) = Take(Answer(b, PageNo))
               /\ \A j \in 1..Len(piece) :
                      /\ (FilePos + j - 1) \div PageSize = PageNo
                      /\ \/ FilePos + j - 1 < DataLen /\ piece[j] = FilePos + j - 1
                         \/ FilePos + j - 1 >= DataLen /\ b[1] = "oversize"
<1> DEFINE page == Answer(b, PageNo)
           n == Len(page)
           take == Take(page)
           piece == SubSeq(page, PageOff + 1, PageOff + take)
           s == PageNo * PageSize
<1>1. /\ PageNo \in Nat /\ PageOff \in 0..(PageSize - 1) /\ FilePos \in Nat
      /\ FilePos = s + PageOff
      /\ b[1] \in {"normal", "missing", "oversize", "short"} /\ b[2] \in Nat
    BY NextByte, BehaviorTypes
<1>2. /\ PageSize \in Nat \ {0} /\ DataLen \in Nat /\ s \in Nat
      /\ done \in Nat /\ want \in Nat
    BY <1>1, ServeReadAssumption DEF ServeReadInv, TypeOK
<1>3. /\ page \in Seq(Int) /\ n \in Nat
      /\ \A i \in 1..n : i <= PageLen(PageNo) => page[i] = s + i - 1
      /\ b[1] # "oversize" => n <= PageLen(PageNo)
  <2>1. /\ page \in Seq(Int)
        /\ \A i \in 1..Len(page) : i <= PageLen(PageNo) => page[i] = s + i - 1
        /\ b[1] # "oversize" => Len(page) <= PageLen(PageNo)
      BY <1>1, PageBytes
  <2> QED
      BY <2>1, LenProperties
<1>4. /\ PageLen(PageNo) \in 0..PageSize
      /\ \A i \in Nat \ {0} : i <= PageLen(PageNo) => s + i - 1 < DataLen
      /\ \A i \in Nat \ {0} : PageLen(PageNo) < i /\ i <= PageSize => s + i - 1 >= DataLen
    BY <1>1, PageEnds
<1>5. n <= PageSize /\ PageOff < n
  <2>1. reader = "shim" \/ ~(n > PageSize)
      BY DEF Refuses
  <2>2. reader = "shim" => n <= PageLen(PageNo)
      BY <1>3, BehaviorTypes
  <2>3. ~(PageOff >= n)
      BY DEF Refuses
  <2> HIDE DEF n
  <2> QED
      BY <1>1, <1>2, <1>3, <1>4, <2>1, <2>2, <2>3
<1>6. take \in 1..(want - done) /\ take <= n - PageOff
  <2>1. take = IF n - PageOff < want - done THEN n - PageOff ELSE want - done
      BY DEF Take, Least
  <2> HIDE DEF n, take
  <2>2. n \in Nat /\ PageOff \in Nat /\ done \in Nat /\ want \in Nat
        /\ PageOff < n /\ done < want
      BY <1>1, <1>2, <1>3, <1>5
  <2> QED
      BY <2>1, <2>2
<1> HIDE DEF n, take, page, s
<1>7. /\ piece \in Seq(Int) /\ Len(piece) = take
      /\ \A j \in 1..take : piece[j] = page[PageOff + j]
  <2>1. /\ PageOff + 1 \in Int /\ PageOff + take \in Int /\ PageOff + 1 <= PageOff + take
        /\ \A i \in (PageOff + 1)..(PageOff + take) : i \in 1..n /\ page[i] \in Int
      BY <1>1, <1>2, <1>3, <1>6 DEF n
  <2>2. /\ piece \in Seq(Int)
        /\ Len(piece) = (PageOff + take) - (PageOff + 1) + 1
        /\ \A j \in 1..((PageOff + take) - (PageOff + 1) + 1) :
               piece[j] = page[(PageOff + 1) + j - 1]
      BY <2>1, SubSeqProperties
  <2>3. (PageOff + take) - (PageOff + 1) + 1 = take
      BY <1>1, <1>2, <1>6
  <2>4. \A j \in 1..take : (PageOff + 1) + j - 1 = PageOff + j
      BY <1>1, <1>2, <1>6
  <2> HIDE DEF piece
  <2> QED
      BY <2>2, <2>3, <2>4
<1>8. ASSUME NEW j \in 1..take
      PROVE  /\ (FilePos + j - 1) \div PageSize = PageNo
             /\ \/ FilePos + j - 1 < DataLen /\ piece[j] = FilePos + j - 1
                \/ FilePos + j - 1 >= DataLen /\ b[1] = "oversize"
  <2> DEFINE i == PageOff + j
  <2>1. /\ i \in Nat \ {0} /\ i <= n /\ i <= PageSize /\ i \in 1..n
        /\ FilePos + j - 1 = s + i - 1 /\ i - 1 \in Nat /\ i - 1 < PageSize
        /\ s + i - 1 = s + (i - 1)
      BY <1>1, <1>2, <1>3, <1>5, <1>6
  <2>2. piece[j] = page[i]
      BY <1>7
  <2> HIDE DEF i, piece
  <2>3. (s + (i - 1)) \div PageSize = PageNo
      BY <1>1, <1>2, <2>1, DivUnique DEF s
  <2>4. CASE i <= PageLen(PageNo)
    <3>1. s + i - 1 < DataLen
        BY <1>4, <2>1, <2>4
    <3>2. page[i] = s + i - 1
        BY <1>3, <2>1, <2>4
    <3> QED
        BY <2>1, <2>2, <2>3, <3>1, <3>2
  <2>5. CASE ~(i <= PageLen(PageNo))
    <3>1. s + i - 1 >= DataLen
        BY <1>2, <1>4, <2>1, <2>5
    <3>2. b[1] = "oversize"
        BY <1>3, <1>4, <2>1, <2>5
    <3> QED
        BY <2>1, <2>3, <3>1, <3>2
  <2> QED
      BY <2>4, <2>5
<1> QED
    BY <1>6, <1>7, <1>8 DEF page, take

\* A page brought adds the next bytes of the file to the buffer, or fails the call.
LEMMA FaultKeeps ==
    ASSUME ServeReadInv, NEW b \in Behaviors, Fault(b)
    PROVE  ServeReadInv'
<1> DEFINE page == Answer(b, PageNo)
           take == Take(page)
           piece == SubSeq(page, PageOff + 1, PageOff + take)
<1>1. /\ ret = "busy" /\ done < want
      /\ PageNo \in DOMAIN answered => b = answered[PageNo]
      /\ answered' = [p \in DOMAIN answered \cup {PageNo} |->
                          IF p = PageNo THEN b ELSE answered[p]]
      /\ UNCHANGED <<file, pos, call, offset, want>>
      /\ \/ /\ Refuses(b, page) /\ ret' = "error" /\ UNCHANGED <<done, buf>>
         \/ /\ ~Refuses(b, page)
            /\ buf' = buf \o piece /\ done' = done + take /\ ret' = "busy"
    BY DEF Fault
<1>2. /\ PageNo \in Nat /\ FilePos \in Nat /\ FilePos < total
      /\ FilePos = from + Len(buf)
      /\ Len(buf) + (want - done) <= nr /\ FilePos + (want - done) <= total
      /\ b[1] \in {"normal", "missing", "oversize", "short"}
    BY <1>1, NextByte, BehaviorTypes
<1>3. /\ TypeOK /\ InBounds /\ RightBytes /\ Asked /\ Calling
      /\ buf \in Seq(Int) /\ Len(buf) \in Nat /\ total \in Nat /\ from \in Nat
      /\ nr \in Nat /\ want \in Nat /\ done \in Nat /\ offset \in Nat
    BY <1>1, ServeReadAssumption DEF ServeReadInv, TypeOK
<1>4. /\ DOMAIN answered' = DOMAIN answered \cup {PageNo} /\ answered'[PageNo] = b
      /\ \A p \in DOMAIN answered : answered'[p] = answered[p]
    BY <1>1
<1>5. /\ UNCHANGED <<reader, woken, total, pos, op, from, nr, offset, want>>
    BY <1>1 DEF file, call
<1>6. Asked'
    BY <1>2, <1>3, <1>5 DEF Asked
<1>7. \A i \in 1..Len(buf) :
          \/ from + i - 1 < DataLen /\ buf[i] = from + i - 1
          \/ /\ from + i - 1 >= DataLen
             /\ (from + i - 1) \div PageSize \in DOMAIN answered'
             /\ answered'[(from + i - 1) \div PageSize][1] = "oversize"
    BY <1>3, <1>4 DEF RightBytes
<1>8. \A p \in DOMAIN answered' :
          p \in Nat /\ answered'[p][1] \in {"normal", "missing", "oversize", "short"}
    BY <1>2, <1>3, <1>4 DEF TypeOK
<1>9. CASE Refuses(b, page)
  <2>1. ret' = "error" /\ UNCHANGED <<done, buf>>
      BY <1>1, <1>9
  <2>2. TypeOK'
      BY <1>3, <1>5, <1>8, <2>1 DEF TypeOK
  <2>3. InBounds' /\ RightBytes'
      BY <1>3, <1>5, <1>7, <2>1 DEF InBounds, RightBytes
  <2>4. ~(AllNormal' /\ total <= DataLen)
      BY <1>1, <1>4, <1>9, NormalServes DEF AllNormal
  <2>5. ReadIsExact'
      BY <1>5, <2>1, <2>4 DEF ReadIsExact
  <2> QED
      BY <1>6, <2>1, <2>2, <2>3, <2>5 DEF ServeReadInv
<1>10. CASE ~Refuses(b, page)
  <2>1. /\ take \in 1..(want - done) /\ piece \in Seq(Int) /\ Len(piece) = take
        /\ \A j \in 1..Len(piece) :
               /\ (FilePos + j - 1) \div PageSize = PageNo
               /\ \/ FilePos + j - 1 < DataLen /\ piece[j] = FilePos + j - 1
                  \/ FilePos + j - 1 >= DataLen /\ b[1] = "oversize"
      BY <1>1, <1>10, FaultBytes
  <2>2. buf' = buf \o piece /\ done' = done + take /\ ret' = "busy"
      BY <1>1, <1>10
  <2> HIDE DEF take, piece, page
  <2>3. /\ buf' \in Seq(Int) /\ Len(buf') = Len(buf) + take
        /\ \A i \in 1..(Len(buf) + take) :
               buf'[i] = IF i <= Len(buf) THEN buf[i] ELSE piece[i - Len(buf)]
      BY <1>3, <2>1, <2>2, ConcatProperties
  <2>4. done' \in 0..want'
      BY <1>3, <1>5, <2>1, <2>2
  <2>5. TypeOK'
      BY <1>3, <1>5, <1>8, <2>2, <2>3, <2>4 DEF TypeOK
  <2>6. InBounds'
    <3>1. Len(buf') <= nr /\ from + Len(buf') <= total
      <4>1. Len(buf') = Len(buf) + take /\ take <= want - done /\ take \in Nat
          BY <1>3, <2>1, <2>3
      <4> QED
          BY <1>2, <1>3, <4>1
    <3> QED
        BY <1>5, <3>1 DEF InBounds
  <2>7. RightBytes'
    <3> SUFFICES ASSUME NEW i \in 1..(Len(buf) + take)
                 PROVE  \/ from + i - 1 < DataLen /\ buf'[i] = from + i - 1
                        \/ /\ from + i - 1 >= DataLen
                           /\ (from + i - 1) \div PageSize \in DOMAIN answered'
                           /\ answered'[(from + i - 1) \div PageSize][1] = "oversize"
        BY <1>5, <2>3 DEF RightBytes
    <3>1. CASE i <= Len(buf)
      <4>1. i \in 1..Len(buf) /\ buf'[i] = buf[i]
        <5>1. take \in Nat /\ Len(buf) \in Nat
            BY <1>3, <2>1
        <5> QED
            BY <2>3, <3>1, <5>1
      <4> QED
          BY <1>7, <4>1
    <3>2. CASE i > Len(buf)
      <4>1. PICK j \in 1..take : i = Len(buf) + j
        <5>1. i - Len(buf) \in 1..take /\ i = Len(buf) + (i - Len(buf))
            BY <1>3, <2>1, <3>2
        <5> QED
            BY <5>1
      <4>2. from + i - 1 = FilePos + j - 1 /\ buf'[i] = piece[j]
        <5>1. i - Len(buf) = j /\ ~(i <= Len(buf)) /\ j \in Nat
            BY <1>3, <2>1, <3>2, <4>1
        <5>2. buf'[i] = piece[j]
            BY <2>3, <5>1
        <5>3. from + i - 1 = FilePos + j - 1
            BY <1>2, <1>3, <4>1, <5>1
        <5> QED
            BY <5>2, <5>3
      <4>3. /\ (FilePos + j - 1) \div PageSize = PageNo
            /\ \/ FilePos + j - 1 < DataLen /\ piece[j] = FilePos + j - 1
               \/ FilePos + j - 1 >= DataLen /\ b[1] = "oversize"
          BY <2>1
      <4> QED
          BY <1>4, <4>2, <4>3
    <3> QED
        BY <1>3, <2>1, <3>1, <3>2
  <2>8. Calling'
    <3>1. Served' = Served
        BY <1>3, <2>1, <2>2, <2>3 DEF Served
    <3> QED
        BY <1>3, <1>5, <3>1 DEF Calling, Clamp, Least
  <2>9. ReadIsExact'
      BY <2>2 DEF ReadIsExact, Idle
  <2> QED
      BY <1>6, <2>5, <2>6, <2>7, <2>8, <2>9 DEF ServeReadInv
<1> QED
    BY <1>9, <1>10

\* A call that returns has what it asked for, short of the end of the file.
LEMMA ReturnKeeps ==
    ASSUME ServeReadInv, Return
    PROVE  ServeReadInv'
<1>1. /\ TypeOK /\ InBounds /\ RightBytes /\ Asked /\ Calling
      /\ buf \in Seq(Int) /\ Len(buf) \in Nat /\ total \in Nat /\ from \in Nat /\ pos \in Nat
      /\ nr \in Nat /\ want \in Nat /\ done \in Nat /\ offset \in Nat
      /\ MaxU64 \in Nat /\ MaxRead \in Nat /\ total <= MaxU64 /\ nr <= MaxRead
    BY ServeReadAssumption DEF ServeReadInv, TypeOK, Return
<1>2. /\ UNCHANGED <<reader, woken, total, op, from, nr, buf, answered>>
      /\ ret = "busy" /\ done = want
    BY DEF Return, file, call
<1>3. /\ Served \in 0..nr /\ offset = from + Served /\ Len(buf) = Served + done
      /\ want = Clamp(total, offset, nr - Served) /\ nr - Served \in Nat
      /\ op # "at" => Served = 0
      /\ op = "next" => from = pos
    BY <1>1 DEF Calling, Served
<1>4. /\ want <= nr - Served
      /\ want = nr - Served \/ (offset >= total /\ want = 0) \/ want = total - offset
  <2> DEFINE k == nr - Served
             c == Clamp(total, offset, k)
  <2>1. want = c /\ k \in Nat /\ total \in Nat /\ offset \in Nat
      BY <1>1, <1>3
  <2>2. c \in 0..k /\ (c = k \/ (offset >= total /\ c = 0) \/ (offset < total /\ c = total - offset))
    <3> HIDE DEF k
    <3> QED
        BY <2>1, Clamped
  <2> HIDE DEF c
  <2> QED
      BY <2>1, <2>2
<1>5. /\ Len(buf) <= nr /\ (Len(buf) > 0 => from + Len(buf) <= total)
      /\ buf # <<>> <=> Len(buf) > 0
    BY <1>1 DEF InBounds
<1>6. InBounds' /\ RightBytes' /\ Asked'
    BY <1>1, <1>2 DEF InBounds, RightBytes, Asked
<1>7. AllNormal => from < total
    BY <1>1 DEF AllNormal, Asked
<1>8. AllNormal' <=> AllNormal
    BY <1>2 DEF AllNormal
<1>9. ASSUME Satisfied, ret' = "ok", pos' = Cursor, UNCHANGED <<offset, want, done>>
      PROVE  ServeReadInv'
  <2>1. pos' \in 0..MaxU64
    <3>1. CASE op = "next" /\ Len(buf) > 0
        BY <1>1, <1>3, <1>5, <1>9, <3>1 DEF Cursor
    <3>2. CASE ~(op = "next" /\ Len(buf) > 0)
      <4>1. pos' = pos
          BY <1>1, <1>3, <1>9, <3>2 DEF Cursor
      <4> QED
          BY <1>1, <4>1 DEF TypeOK
    <3> QED
        BY <3>1, <3>2
  <2>2. TypeOK'
      BY <1>1, <1>2, <1>9, <2>1 DEF TypeOK
  <2>3. op = "at" => Len(buf) = nr
      BY <1>9 DEF Satisfied
  <2>4. from < total => Len(buf) = Least(total - from, nr)
    <3>1. CASE op = "at"
        BY <1>1, <1>5, <2>3, <3>1 DEF Least
    <3>2. CASE op # "at"
        BY <1>1, <1>2, <1>3, <1>4, <1>5, <3>2 DEF Least
    <3> QED
        BY <3>1, <3>2
  <2>5. ReadIsExact'
      BY <1>2, <1>7, <1>8, <1>9, <2>3, <2>4 DEF ReadIsExact
  <2> QED
      BY <1>6, <1>9, <2>2, <2>5 DEF ServeReadInv
<1>10. ASSUME ~Satisfied, done = 0, ret' = "error", UNCHANGED <<pos, offset, want, done>>
       PROVE  ServeReadInv'
  <2>1. op = "at" /\ Len(buf) # nr
      BY <1>10 DEF Satisfied
  <2>2. TypeOK'
      BY <1>1, <1>2, <1>10 DEF TypeOK
  <2>3. from < total => Len(buf) = total - from /\ from + nr > total
    <3>1. Len(buf) = Served /\ want = 0 /\ Len(buf) <= nr /\ Len(buf) # nr
        BY <1>1, <1>2, <1>3, <1>5, <1>10, <2>1
    <3>2. offset = from + Len(buf) /\ offset >= total
        BY <1>1, <1>3, <1>4, <3>1
    <3>3. Len(buf) > 0 => from + Len(buf) <= total
        BY <1>5
    <3>4. /\ from \in Nat /\ total \in Nat /\ nr \in Nat /\ Len(buf) \in Nat
        BY <1>1
    <3> QED
        BY <3>1, <3>2, <3>3, <3>4
  <2>4. from < total => Len(buf) = Least(total - from, nr)
      BY <1>1, <2>3 DEF Least
  <2>5. ReadIsExact'
      BY <1>2, <1>7, <1>8, <1>10, <2>1, <2>3, <2>4 DEF ReadIsExact
  <2> QED
      BY <1>6, <1>10, <2>2, <2>5 DEF ServeReadInv
<1>11. ASSUME ~Satisfied, done > 0, Enter(total, from + Len(buf), nr - Len(buf)),
              UNCHANGED pos
       PROVE  ServeReadInv'
  <2>1. op = "at"
      BY <1>11 DEF Satisfied
  <2>2. /\ offset' = from + Len(buf) /\ done' = 0 /\ ret' = "busy"
        /\ want' = Clamp(total, from + Len(buf), nr - Len(buf))
      BY <1>11 DEF Enter
  <2>3. from + Len(buf) \in 0..MaxU64 /\ nr - Len(buf) \in Nat
      BY <1>1, <1>3, <1>5, <1>11
  <2>4. want' \in 0..(nr - Len(buf))
      BY <1>1, <2>2, <2>3, Clamped
  <2>5. want' \in 0..MaxRead /\ done' \in 0..want'
      BY <1>1, <2>2, <2>3, <2>4
  <2>6. TypeOK'
      BY <1>1, <1>2, <1>11, <2>2, <2>3, <2>5 DEF TypeOK
  <2>7. Served' = Len(buf)
      BY <1>1, <1>2, <2>2 DEF Served
  <2>8. Calling'
      BY <1>1, <1>2, <1>5, <2>1, <2>2, <2>7 DEF Calling, Clamp, Least
  <2>9. ReadIsExact'
      BY <2>2 DEF ReadIsExact, Idle
  <2> QED
      BY <1>6, <2>6, <2>8, <2>9 DEF ServeReadInv
<1> QED
    BY <1>9, <1>10, <1>11 DEF Return

-----------------------------------------------------------------------------
\* The invariant holds whatever is opened, sought, read and answered.
THEOREM ServeReadInvariant == Spec => []ServeReadInv
<1>1. Init => ServeReadInv
  <2> SUFFICES ASSUME Init
               PROVE  ServeReadInv
      OBVIOUS
  <2>1. 0 \in 0..MaxU64 /\ 0 \in 0..MaxRead /\ Len(<<>>) = 0 /\ <<>> \in Seq(Int)
      BY ServeReadAssumption
  <2>2. DOMAIN answered = {} /\ ~AllNormal
      BY DEF Init, NoAnswer, AllNormal
  <2>3. /\ total = 0 /\ pos = 0 /\ from = 0 /\ nr = 0 /\ offset = 0 /\ want = 0 /\ done = 0
        /\ buf = <<>> /\ 0 \in 0..0
      BY DEF Init
  <2>4. InBounds /\ RightBytes /\ ReadIsExact /\ Asked /\ ret # "busy"
      BY <2>1, <2>2 DEF Init, InBounds, RightBytes, ReadIsExact, Idle, Asked
  <2>5. TypeOK
      BY <2>1, <2>2, <2>3 DEF Init, TypeOK
  <2> QED
      BY <2>4, <2>5 DEF ServeReadInv
<1>2. ServeReadInv /\ [Next]_vars => ServeReadInv'
  <2> SUFFICES ASSUME ServeReadInv, [Next]_vars
               PROVE  ServeReadInv'
      OBVIOUS
  <2>1. CASE UNCHANGED vars
      BY <2>1 DEF vars, file, call, served, ServeReadInv, TypeOK, InBounds, RightBytes,
                  ReadIsExact, Asked, Calling, Served, Idle, AllNormal, Clamp, Least
  <2>2. CASE Next
      BY <2>2, HandleKeeps, CallKeeps, SeekKeeps, FaultKeeps, ReturnKeeps DEF Next, Serving
  <2> QED
      BY <2>1, <2>2
<1> QED
    BY <1>1, <1>2, PTL DEF Spec

\* Every variable keeps its type, the clamped request and what was copied of it included.
THEOREM ServeReadTypeOK == Spec => []TypeOK
<1>1. ServeReadInv => TypeOK
    BY DEF ServeReadInv
<1> QED
    BY <1>1, ServeReadInvariant, PTL

\* No read leaves the caller's buffer or the claimed file (serve_read, FlockFileSystem::Read).
THEOREM ServeReadInBounds == Spec => []InBounds
<1>1. ServeReadInv => InBounds
    BY DEF ServeReadInv
<1> QED
    BY <1>1, ServeReadInvariant, PTL

\* No read hands out bytes of another place of the file (serve_read).
THEOREM ServeReadRightBytes == Spec => []RightBytes
<1>1. ServeReadInv => RightBytes
    BY DEF ServeReadInv
<1> QED
    BY <1>1, ServeReadInvariant, PTL

\* A source that behaves is served whole, and a positional Read is whole or fails.
THEOREM ServeReadIsExact == Spec => []ReadIsExact
<1>1. ServeReadInv => ReadIsExact
    BY DEF ServeReadInv
<1> QED
    BY <1>1, ServeReadInvariant, PTL

\* A sequential read moves its cursor by what it handed out, and not at all if it
\* fails (FlockFileSystem::Read).
THEOREM ServeReadCursorFollows == Spec => CursorFollowsTheBytes
<1> DEFINE Follows == ret = "busy" /\ Idle' =>
                pos' = IF op = "next" /\ ret' = "ok" THEN pos + Len(buf') ELSE pos
<1>1. ServeReadInv /\ [Next]_vars => [Follows]_vars
  <2> SUFFICES ASSUME ServeReadInv, Next, ret = "busy"
               PROVE  Idle' => pos' = IF op = "next" /\ ret' = "ok" THEN pos + Len(buf') ELSE pos
      OBVIOUS
  <2>1. /\ Calling /\ Len(buf) \in Nat /\ done \in Nat
      BY ServeReadAssumption DEF ServeReadInv, TypeOK
  <2>2. op = "next" => Len(buf) = done
      BY <2>1 DEF Calling, Served
  <2>3. ASSUME NEW b \in Behaviors, Fault(b), Idle'
        PROVE  pos' = pos /\ ret' = "error"
      BY <2>3 DEF Fault, Idle
  <2>4. ASSUME Return, Idle'
        PROVE  /\ buf' = buf
               /\ \/ ret' = "ok" /\ pos' = Cursor
                  \/ ret' = "error" /\ pos' = pos
      BY <2>4 DEF Return, Enter, Idle
  <2>5. Return \/ \E b \in Behaviors : Fault(b)
      BY DEF Next, Serving, OpenWal, Close, WakeShim, OpenFile, Boot, ServeRead, Seek, ReadAt,
             ShimPread, ReadNext, ShimRead, Idle
  <2> QED
      BY <2>2, <2>3, <2>4, <2>5 DEF Cursor
<1> QED
    BY <1>1, ServeReadInvariant, PTL DEF Spec, CursorFollowsTheBytes

=============================================================================
