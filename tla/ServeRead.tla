------------------------------ MODULE ServeRead ------------------------------
(***************************************************************************)
(* Reading a sleeping database's file page by page.                        *)
(*                                                                         *)
(* serve_read (crates/flock-vfs/src/read.rs) turns a byte range into page  *)
(* faults and trusts no page.  DuckDB reaches it through flock_vfs_pread   *)
(* (ffi.rs) and the extension's FileSystem (flock_file_system.cpp): a      *)
(* positional Read that must be exact, and a sequential Read that moves a  *)
(* cursor.  The wake-latency spike's faultshim runs the same loop behind   *)
(* interposed pread and read, over pages whose hash was verified.          *)
(*                                                                         *)
(* A byte is its position in the file, or Junk.  i64 and u64 are cut down  *)
(* to MaxI64 and MaxU64; the data is DataLen bytes long, whatever length   *)
(* the caller claims.                                                      *)
(***************************************************************************)
EXTENDS Integers, Sequences

CONSTANTS PageSize,   \* the store's page size, not 0
          DataLen,    \* how long the file really is
          Lens,       \* the values of total_len a caller passes
          MaxRead,    \* bound: the bytes asked for in one call
          MaxI64, MaxU64

ASSUME ServeReadAssumption ==
    /\ PageSize \in Nat \ {0}
    /\ DataLen \in Nat
    /\ MaxI64 \in Nat
    /\ MaxU64 = 2 * MaxI64 + 1
    /\ Lens \subseteq 0..MaxU64
    /\ MaxRead \in Nat

VARIABLES
    reader,   \* who holds the file: "none", "vfs", "wal" or "shim"
    woken,    \* the shim has been woken; a vfs handle always is
    total,    \* total_len
    pos,      \* the handle's position, the shim's seqpos
    op,       \* the call: "serve", "at" (positional) or "next" (sequential)
    from, nr, \* where it reads and how many bytes it wants
    offset,   \* serve_read's offset
    want,     \* what serve_read clamped the request to
    done,     \* what serve_read has copied
    buf,      \* every byte copied for the call so far
    answered, \* how each page that was asked for during the call came
    ret       \* "busy", or how the last call ended: "ok" or "error"

file == <<reader, woken, total>>
call == <<op, from, nr>>
served == <<offset, want, done, buf>>
vars == <<file, pos, call, served, answered, ret>>

-----------------------------------------------------------------------------
Least(a, b) == IF a < b THEN a ELSE b

\* A u64 taken for an i64.
Signed(x) == IF x > MaxI64 THEN x - MaxU64 - 1 ELSE x

-----------------------------------------------------------------------------
(* The page source.                                                        *)

Junk == -1

PageLen(p) == IF p * PageSize >= DataLen THEN 0 ELSE Least(PageSize, DataLen - p * PageSize)

RealPage(p) == [i \in 1..PageLen(p) |-> p * PageSize + i - 1]

\* What read_page may return: the page, the page with k bytes more, or its first k.
Answer(b, p) ==
    CASE b[1] = "oversize" -> RealPage(p) \o [i \in 1..(b[2] + 1) |-> Junk]
      [] b[1] = "short"    -> SubSeq(RealPage(p), 1, Least(b[2], PageLen(p)))
      [] OTHER             -> RealPage(p)

\* A fault may fail; pages that were verified against their hash are what they were.
Behaviors == {<<"normal", 0>>, <<"missing", 0>>} \cup
             IF reader = "shim" THEN {} ELSE {"oversize", "short"} \X (0..PageSize)

NoAnswer == [p \in {} |-> <<"normal", 0>>]

-----------------------------------------------------------------------------
Init ==
    /\ reader = "none"
    /\ woken = FALSE
    /\ total = 0
    /\ pos = 0
    /\ op = "serve"
    /\ from = 0 /\ nr = 0 /\ offset = 0 /\ want = 0 /\ done = 0
    /\ buf = <<>>
    /\ answered = NoAnswer
    /\ ret = "ok"

Idle == ret # "busy"

\* A call that ends before any page is asked for.
EndAtOnce(r, l, k) ==
    /\ from' = l
    /\ nr' = k
    /\ offset' = l
    /\ want' = 0
    /\ done' = 0
    /\ buf' = <<>>
    /\ answered' = NoAnswer
    /\ ret' = r

\* Faulty variant: the request is not clamped to the file.
Unclamped(t, o, k) == IF o >= t THEN 0 ELSE k

\* Nothing past the end of a file of t bytes, else what is left of it.
Clamp(t, o, k) == IF o >= t THEN 0 ELSE Least(t - o, k)

\* serve_read's entry, for the first pread of a call or a later one.
Enter(t, o, k) ==
    /\ offset' = o
    /\ want' = Clamp(t, o, k)
    /\ done' = 0
    /\ ret' = "busy"

Start(t, l, k) ==
    /\ from' = l
    /\ nr' = k
    /\ buf' = <<>>
    /\ answered' = NoAnswer
    /\ Enter(t, l, k)

\* flock_vfs_pread refuses a negative offset and has nothing to do for 0 bytes.
Pread(l, k) ==
    IF Signed(l) < 0 THEN EndAtOnce("error", l, k)
    ELSE IF k = 0 THEN EndAtOnce("ok", l, 0)
    ELSE Start(total, l, k)

-----------------------------------------------------------------------------
(* The extension's handle.                                                 *)

Hold(r, w, t) ==
    /\ reader' = r
    /\ woken' = w
    /\ total' = t
    /\ pos' = 0
    /\ op' = "serve"
    /\ EndAtOnce("ok", 0, 0)

\* OpenFile: wake, and take the length as the size; a length that is no i64 is closed
\* again and refused.
OpenFile(len) ==
    /\ reader = "none"
    /\ Idle
    /\ len <= MaxI64
    /\ Hold("vfs", TRUE, len)

\* The write-ahead log of a sleeping database is an empty file without a store.
OpenWal ==
    /\ reader = "none"
    /\ Idle
    /\ Hold("wal", FALSE, 0)

\* flock_vfs_close; the shim's process ends.
Close ==
    /\ reader # "none"
    /\ Idle
    /\ Hold("none", FALSE, 0)

\* Positional Read, of a place in the u64 range.
ReadAt(l, k) ==
    /\ reader \in {"vfs", "wal"}
    /\ Idle
    /\ op' = "at"
    /\ IF k = 0 THEN EndAtOnce("ok", l, 0)
       ELSE IF reader = "wal" THEN EndAtOnce("error", l, k)
       ELSE Pread(l, k)
    /\ UNCHANGED <<file, pos>>

\* Sequential Read, from the cursor.
ReadNext(k) ==
    /\ reader \in {"vfs", "wal"}
    /\ Idle
    /\ op' = "next"
    /\ IF reader = "wal" THEN EndAtOnce("ok", pos, k) ELSE Pread(pos, k)
    /\ UNCHANGED <<file, pos>>

\* Seek and Reset; the shim's lseek.
Seek(l) ==
    /\ reader # "none"
    /\ Idle
    /\ reader = "shim" => Signed(l) >= 0
    /\ pos' = l
    /\ UNCHANGED <<file, call, served, answered, ret>>

\* serve_read is public: any offset over a file of any length.
ServeRead(len, o, k) ==
    /\ reader = "none"
    /\ Idle
    /\ op' = "serve"
    /\ total' = len
    /\ Start(len, o, k)
    /\ UNCHANGED <<reader, woken, pos>>

-----------------------------------------------------------------------------
(* The faultshim.                                                          *)

\* flock_fault_boot: the sparse file gets its length.
Boot(len) ==
    /\ reader = "none"
    /\ Idle
    /\ len <= MaxI64
    /\ Hold("shim", FALSE, len)

\* flock_fault_wake: the manifest, and in eager mode every page once; the store is
\* published only if all of that came.
WakeShim ==
    /\ reader = "shim"
    /\ Idle
    /\ woken' = TRUE
    /\ UNCHANGED <<reader, total, pos, call, served, answered, ret>>

\* flock_serve behind pread: a negative offset counts as 0.
ShimPread(l, k) ==
    /\ reader = "shim"
    /\ Idle
    /\ op' = "serve"
    /\ LET o == IF Signed(l) < 0 THEN 0 ELSE l
       IN  IF woken THEN Start(total, o, k) ELSE EndAtOnce("error", o, k)
    /\ UNCHANGED <<file, pos>>

\* flock_serve behind read.
ShimRead(k) ==
    /\ reader = "shim"
    /\ Idle
    /\ op' = "next"
    /\ IF woken THEN Start(total, pos, k) ELSE EndAtOnce("error", pos, k)
    /\ UNCHANGED <<file, pos>>

-----------------------------------------------------------------------------
(* The loop of serve_read: one page.                                       *)

\* Faulty variant: each page is computed from the start of the request.
FilePosStuck == offset

FilePos == offset + done

PageNo == FilePos \div PageSize
PageOff == FilePos % PageSize

\* Faulty variant: a page that ends right before the byte is accepted.
RefusesLess(b, page) ==
    \/ b[1] = "missing"
    \/ reader # "shim" /\ Len(page) > PageSize
    \/ PageOff > Len(page)

\* The page does not come, is larger than a page (which the shim does not check), or
\* ends before the byte.
Refuses(b, page) ==
    \/ FilePos > MaxU64
    \/ b[1] = "missing"
    \/ reader # "shim" /\ Len(page) > PageSize
    \/ PageOff >= Len(page)

\* Faulty variant: the rest of the page, wanted or not.
TakeRest(page) == Len(page) - PageOff

Take(page) == Least(Len(page) - PageOff, want - done)

Fault(b) ==
    LET page == Answer(b, PageNo)
    IN  /\ ret = "busy"
        /\ done < want
        /\ PageNo \in DOMAIN answered => b = answered[PageNo]
        /\ answered' = [p \in DOMAIN answered \cup {PageNo} |->
                            IF p = PageNo THEN b ELSE answered[p]]
        /\ IF Refuses(b, page)
           THEN /\ ret' = "error"
                /\ UNCHANGED <<done, buf>>
           ELSE /\ buf' = buf \o SubSeq(page, PageOff + 1, PageOff + Take(page))
                /\ done' = done + Take(page)
                /\ UNCHANGED ret
        /\ UNCHANGED <<file, pos, call, offset, want>>

\* Faulty variant: a Read is content with what the first pread brought.
SatisfiedSoon == op # "at" \/ Len(buf) > 0

Satisfied == op # "at" \/ Len(buf) = nr

\* Faulty variant: the cursor moves by what was asked for.
CursorAsked == IF op = "next" THEN pos + nr ELSE pos

Cursor == IF op = "next" THEN pos + done ELSE pos

\* serve_read returns Ok(done).  The positional Read loops until it has what it was
\* asked for, and takes 0 bytes for a file that ended early; the other calls return,
\* and a sequential one moves its cursor.
Return ==
    /\ ret = "busy"
    /\ done = want
    /\ \/ /\ Satisfied
          /\ ret' = "ok"
          /\ pos' = Cursor
          /\ UNCHANGED <<offset, want, done>>
       \/ /\ ~Satisfied
          /\ done = 0
          /\ ret' = "error"
          /\ UNCHANGED <<pos, offset, want, done>>
       \/ /\ ~Satisfied
          /\ done > 0
          /\ Enter(total, from + Len(buf), nr - Len(buf))
          /\ UNCHANGED pos
    /\ UNCHANGED <<file, call, buf, answered>>

-----------------------------------------------------------------------------
Serving == Return \/ \E b \in Behaviors : Fault(b)

Next ==
    \/ OpenWal \/ Close \/ WakeShim \/ Serving
    \/ \E len \in Lens : OpenFile(len) \/ Boot(len)
    \/ \E len \in Lens, l \in 0..MaxU64, k \in 0..MaxRead : ServeRead(len, l, k)
    \/ \E l \in 0..MaxU64 : Seek(l)
    \/ \E l \in 0..MaxU64, k \in 0..MaxRead : ReadAt(l, k) \/ ShimPread(l, k)
    \/ \E k \in 0..MaxRead : ReadNext(k) \/ ShimRead(k)

\* A fault comes back, with the page or with an error, and the loop then goes on.
Spec == Init /\ [][Next]_vars /\ WF_vars(Serving)

-----------------------------------------------------------------------------
(* Properties.                                                             *)

TypeOK ==
    /\ reader \in {"none", "vfs", "wal", "shim"}
    /\ woken \in BOOLEAN
    /\ total \in 0..MaxU64
    /\ pos \in 0..MaxU64
    /\ op \in {"serve", "at", "next"}
    /\ from \in 0..MaxU64 /\ nr \in 0..MaxRead
    /\ offset \in 0..MaxU64 /\ want \in 0..MaxRead
    /\ done \in 0..want
    /\ buf \in Seq(Int)
    /\ \A p \in DOMAIN answered : p \in Nat /\ answered[p][1] \in
                                {"normal", "missing", "oversize", "short"}
    /\ ret \in {"busy", "ok", "error"}

\* Nothing is written past the caller's buffer and nothing served past the claimed end
\* of the file, however often a Read calls down and whatever the pages look like.
InBounds ==
    /\ Len(buf) <= nr
    /\ buf # <<>> => from + Len(buf) <= total

\* Never the wrong page's bytes: byte i of the answer is byte from + i of the file.
\* Only where the claimed length goes past the data, and a page came with bytes no
\* hash would have let through, is anything else handed out; never is a byte invented
\* because the length was wrong.
RightBytes ==
    \A i \in 1..Len(buf) :
        LET p == from + i - 1
        IN  \/ p < DataLen /\ buf[i] = p
            \/ /\ p >= DataLen
               /\ p \div PageSize \in DOMAIN answered
               /\ answered[p \div PageSize][1] = "oversize"

AllNormal == /\ answered # NoAnswer
             /\ \A p \in DOMAIN answered : answered[p][1] = "normal"

\* A source that behaves is never turned away and never cut short: over pages that are
\* what they should be, a call ends with exactly what is left of the file, and a
\* positional Read fails only when the file ends before it.  And whatever the source
\* did, a positional Read that succeeds is complete.
ReadIsExact ==
    Idle =>
      /\ op = "at" /\ ret = "ok" => Len(buf) = nr
      /\ AllNormal /\ total <= DataLen =>
           /\ Len(buf) = Least(total - from, nr)
           /\ ret = "error" => op = "at" /\ from + nr > total

\* Reads that follow each other tile the file: a sequential read moves the cursor over
\* exactly the bytes it handed out, and one that fails leaves it, so that a retry reads
\* the same bytes again.
CursorFollowsTheBytes ==
    [][ret = "busy" /\ Idle' =>
         pos' = IF op = "next" /\ ret' = "ok" THEN pos + Len(buf') ELSE pos]_vars

\* Every read returns: each page that is accepted brings the loop forward.
ReadsReturn == ret = "busy" ~> Idle
=============================================================================
