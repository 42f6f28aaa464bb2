-------------------------- MODULE FilesystemProofs --------------------------
(***************************************************************************)
(* Proofs about the POSIX file layer of Filesystem.                        *)
(***************************************************************************)
EXTENDS Filesystem, SequenceTheorems, WellFoundedInduction, TLAPS

-----------------------------------------------------------------------------
(* Minima *)

\* The first free slot is one of them.
LEMMA MinIsMember ==
  ASSUME NEW S \in SUBSET Nat, S # {}
  PROVE  Min(S) \in S
<1> DEFINE R == OpToRel(<, Nat)
<1>1. IsWellFoundedOn(R, Nat)
  BY NatLessThanWellFounded
<1>2. \A x, y \in Nat : x < y => <<x, y>> \in R
  BY DEF OpToRel
<1> HIDE DEF R
<1>3. PICK x \in S : \A y \in S : ~(<<y, x>> \in R)
  BY <1>1, WFMin
<1>4. \A y \in S : ~(y < x)
  BY <1>2, <1>3
<1>5. \A y \in S : x <= y
  <2>1. x \in Nat /\ \A y \in S : y \in Nat
    OBVIOUS
  <2> QED
    BY <1>4, <2>1
<1> QED
  BY <1>5, Zenon DEF Min

LEMMA MinOfTwo ==
  ASSUME NEW a \in Nat, NEW b \in Nat
  PROVE  Min({a, b}) = IF a <= b THEN a ELSE b
<1>1. \E x \in {a, b} : \A y \in {a, b} : x <= y
  OBVIOUS
<1>2. Min({a, b}) \in {a, b} /\ \A y \in {a, b} : Min({a, b}) <= y
  BY <1>1, Zenon DEF Min
<1> QED
  BY <1>2

LEMMA MaxOfTwo ==
  ASSUME NEW a \in Nat, NEW b \in Nat
  PROVE  Max({a, b}) \in Nat /\ Max({a, b}) >= a
<1>1. \E x \in {a, b} : \A y \in {a, b} : x >= y
  OBVIOUS
<1>2. Max({a, b}) \in {a, b} /\ \A y \in {a, b} : Max({a, b}) >= y
  BY <1>1, Zenon DEF Max
<1> QED
  BY <1>2

-----------------------------------------------------------------------------
(* Records *)

\* What a call may do to an FX_FILE that is open.
AtOffset(h, v) == [h EXCEPT !.offset = v]
Marked(h, v) == [h EXCEPT !.modified = v]

LEMMA HandleOffset ==
  ASSUME NEW h, HandleOK(h), NEW v \in Nat
  PROVE  /\ HandleOK(AtOffset(h, v)) /\ AtOffset(h, v).mode = h.mode
         /\ AtOffset(h, v).object = h.object /\ AtOffset(h, v).offset = v
<1>1. PICK g : g = [h EXCEPT !.offset = v]
  OBVIOUS
<1>2. HandleOK(g) /\ g.mode = h.mode /\ g.object = h.object /\ g.offset = v
  BY <1>1 DEF HandleOK, IsHandle
<1> QED
  BY <1>1, <1>2, Zenon DEF AtOffset

LEMMA HandleModified ==
  ASSUME NEW h, HandleOK(h), NEW v
  PROVE  /\ HandleOK(Marked(h, v)) /\ Marked(h, v).mode = h.mode
         /\ Marked(h, v).object = h.object /\ Marked(h, v).offset = h.offset
<1>1. PICK g : g = [h EXCEPT !.modified = v]
  OBVIOUS
<1>2. HandleOK(g) /\ g.mode = h.mode /\ g.object = h.object /\ g.offset = h.offset
  BY <1>1 DEF HandleOK, IsHandle
<1> QED
  BY <1>1, <1>2, Zenon DEF Marked

\* The members that are set by _open alone.
SameFlags(x, y) ==
  /\ y.allocated = x.allocated /\ y.readable = x.readable /\ y.writable = x.writable
  /\ y.append = x.append /\ y.object = x.object

\* The members that no call on a descriptor changes.
Same(x, y) == SameFlags(x, y) /\ y.path = x.path

\* A handle on the same file in the same mode.
SameFile(h, g) == g.mode = h.mode /\ g.object = h.object

AtPosition(x, v) == [x EXCEPT !.position = v]
InMode(x, v) == [x EXCEPT !.open_mode = v]
WithPath(x, v) == [x EXCEPT !.path = v]

LEMMA DescriptorPosition ==
  ASSUME NEW x, DescriptorOK(x), NEW v \in Nat
  PROVE  /\ DescriptorOK(AtPosition(x, v)) /\ Same(x, AtPosition(x, v))
         /\ AtPosition(x, v).open_mode = x.open_mode
<1>1. PICK y : y = [x EXCEPT !.position = v]
  OBVIOUS
<1>2. DescriptorOK(y) /\ Same(x, y) /\ y.open_mode = x.open_mode
  BY <1>1 DEF DescriptorOK, IsDescriptor, Same, SameFlags
<1> QED
  BY <1>1, <1>2, Zenon DEF AtPosition

LEMMA DescriptorMode ==
  ASSUME NEW x, DescriptorOK(x), NEW v
  PROVE  /\ DescriptorOK(InMode(x, v)) /\ Same(x, InMode(x, v))
         /\ InMode(x, v).open_mode = v
<1>1. PICK y : y = [x EXCEPT !.open_mode = v]
  OBVIOUS
<1>2. DescriptorOK(y) /\ Same(x, y) /\ y.open_mode = v
  BY <1>1 DEF DescriptorOK, IsDescriptor, Same, SameFlags
<1> QED
  BY <1>1, <1>2, Zenon DEF InMode

LEMMA DescriptorPath ==
  ASSUME NEW x, DescriptorOK(x), NEW v
  PROVE  /\ DescriptorOK(WithPath(x, v)) /\ SameFlags(x, WithPath(x, v))
         /\ WithPath(x, v).open_mode = x.open_mode
         /\ WithPath(x, v).path = v /\ WithPath(x, v).position = x.position
<1>1. PICK y : y = [x EXCEPT !.path = v]
  OBVIOUS
<1>2. /\ DescriptorOK(y) /\ SameFlags(x, y) /\ y.open_mode = x.open_mode
      /\ y.path = v /\ y.position = x.position
  BY <1>1 DEF DescriptorOK, IsDescriptor, SameFlags
<1> QED
  BY <1>1, <1>2, Zenon DEF WithPath

IsOutcome(r) == r = Outcome(r.handle, r.descriptor, r.error)

LEMMA OutcomeFields ==
  ASSUME NEW h, NEW x, NEW e
  PROVE  /\ IsOutcome(Outcome(h, x, e))
         /\ Outcome(h, x, e).handle = h /\ Outcome(h, x, e).descriptor = x
         /\ Outcome(h, x, e).error = e
BY DEF IsOutcome, Outcome

-----------------------------------------------------------------------------
(* What every call leaves in its slot of the table *)

\* r is an outcome the slot of a descriptor x may be left with.
Good(r, x) ==
  /\ IsOutcome(r)
  /\ HandleOK(r.handle) /\ DescriptorOK(r.descriptor) /\ Same(x, r.descriptor)
  /\ r.handle.mode = r.descriptor.open_mode
  /\ r.handle.mode = "read" => x.readable
  /\ r.handle.mode = "write" => x.writable

\* A file may be opened in mode by a descriptor x.
Allows(x, mode) ==
  /\ mode \in {"read", "write"}
  /\ mode = "read" => x.readable
  /\ mode = "write" => x.writable

LEMMA NoHandleOK == HandleOK(NoHandle) /\ NoHandle.mode = Closed
BY DEF HandleOK, IsHandle, NoHandle, Closed

\* A handle that has just been opened.
Fresh(m, o) == [NoHandle EXCEPT !.mode = m, !.object = o]

LEMMA FreshOK ==
  ASSUME NEW m \in {"read", "write"}, NEW o \in Objects
  PROVE  HandleOK(Fresh(m, o)) /\ Fresh(m, o).mode = m
<1>1. PICK h : h = NoHandle
  OBVIOUS
<1>2. IsHandle(h) /\ h.offset = 0
  BY <1>1 DEF NoHandle, IsHandle
<1>3. PICK g : g = [h EXCEPT !.mode = m, !.object = o]
  OBVIOUS
<1>4. IsHandle(g) /\ g.mode = m /\ g.object = o /\ g.offset = 0
  BY <1>2, <1>3 DEF IsHandle
<1>5. HandleOK(g)
  BY <1>4 DEF HandleOK
<1> QED
  BY <1>1, <1>3, <1>4, <1>5, Zenon DEF Fresh

\* A constructed outcome is good when its parts are.
LEMMA MakeGood ==
  ASSUME NEW x, NEW h, NEW y, NEW e,
         HandleOK(h), DescriptorOK(y), Same(x, y), h.mode = y.open_mode,
         h.mode = Closed \/ Allows(x, h.mode)
  PROVE  Good(Outcome(h, y, e), x)
<1>1. (h.mode = "read" => x.readable) /\ (h.mode = "write" => x.writable)
  BY DEF Allows, Closed
<1> QED
  BY <1>1, OutcomeFields DEF Good

\* The modes of a good outcome.
LEMMA GoodModes ==
  ASSUME NEW r, NEW x, Good(r, x)
  PROVE  r.handle.mode = Closed \/ Allows(x, r.handle.mode)
BY DEF Good, HandleOK, Allows

LEMMA SameTransitive ==
  ASSUME NEW x, NEW y, NEW z, Same(x, y), Same(y, z)
  PROVE  Same(x, z)
BY Zenon DEF Same, SameFlags

LEMMA SameReflexive == ASSUME NEW x PROVE Same(x, x)
BY Zenon DEF Same, SameFlags

\* Reopen, on a descriptor whose handle is closed.
LEMMA ReopenGood ==
  ASSUME NEW media, MediaOK(media), NEW d, NEW x, DescriptorOK(x), x.open_mode = Closed,
         NEW mode, Allows(x, mode),
         NEW r \in Reopen(media, d, x, mode)
  PROVE  Good(r, x) /\ (r.error = OK => r.handle.mode = mode)
<1> DEFINE o == ObjectIn(media, x.path)
           opened == Fresh(mode, o)
           now_open == InMode(x, mode)
           refused == OpenError(media, d, x.path, mode)
           sought == SeekTo(opened, x.position, Len(media[o].data))
<1>1. \/ refused # OK /\ r = Outcome(NoHandle, x, refused)
      \/ refused = OK /\ \E e \in Io \ {OK} : r = Outcome(NoHandle, x, e)
      \/ refused = OK /\ \E e \in Io \ {OK} : r = Outcome(opened, now_open, e)
      \/ refused = OK /\ r = Outcome(sought, now_open, OK)
  BY Zenon DEF Reopen, Fresh, InMode
<1>2. refused = OK => o \in Objects
  <2> DEFINE oo == o
  <2> HIDE DEF oo
  <2>1. refused = IF oo \notin Objects THEN "ENOENT"
                  ELSE IF media[oo].kind = "dir" THEN "EISDIR"
                  ELSE IF media[oo].stale THEN "EIO"
                  ELSE IF Conflict(d, oo, mode) THEN "EACCES"
                  ELSE OK
    BY Zenon DEF OpenError, oo
  <2>2. "ENOENT" # OK
    BY DEF OK
  <2>3. refused = OK => oo \in Objects
    BY <2>1, <2>2, Zenon
  <2> QED
    BY <2>3, Zenon DEF oo
<1> HIDE DEF o, refused
<1>3. o \in Objects => HandleOK(opened) /\ opened.mode = mode
  BY FreshOK DEF Allows
<1>4. o \in Objects => HandleOK(sought) /\ sought.mode = mode
  <2> SUFFICES ASSUME o \in Objects PROVE HandleOK(sought) /\ sought.mode = mode
    OBVIOUS
  <2>1. x.position \in Nat /\ Len(media[o].data) \in Nat
    BY DEF DescriptorOK, MediaOK, EntryOK, IsSequence
  <2>2. Min({x.position, Len(media[o].data)}) \in Nat
    BY <2>1, MinOfTwo
  <2>3. PICK v \in Nat : v = Min({x.position, Len(media[o].data)})
    BY <2>2
  <2> HIDE DEF opened
  <2>4. sought = AtOffset(opened, v)
    BY <2>3, Zenon DEF SeekTo, AtOffset
  <2> HIDE DEF sought
  <2>5. HandleOK(opened) /\ opened.mode = mode
    BY <1>3, Zenon
  <2>6. HandleOK(sought) /\ sought.mode = opened.mode
    BY <2>4, <2>5, HandleOffset
  <2> QED
    BY <2>5, <2>6
<1>5. DescriptorOK(now_open) /\ Same(x, now_open) /\ now_open.open_mode = mode
  BY DescriptorMode
<1> HIDE DEF opened, now_open, sought
<1>6. CASE \E e : e # OK /\ r = Outcome(NoHandle, x, e)
  BY <1>6, NoHandleOK, MakeGood, SameReflexive, OutcomeFields
<1>7. CASE refused = OK /\ \E e : r = Outcome(opened, now_open, e)
  BY <1>7, <1>2, <1>3, <1>5, MakeGood, OutcomeFields
<1>8. CASE refused = OK /\ r = Outcome(sought, now_open, OK)
  BY <1>8, <1>2, <1>4, <1>5, MakeGood, OutcomeFields
<1> QED
  BY <1>1, <1>6, <1>7, <1>8, Zenon

\* switch_mode, whatever state earlier calls left the descriptor in.
LEMMA SwitchGood ==
  ASSUME FileInv, NEW d \in Files, NEW mode, Allows(descriptors[d], mode),
         NEW r \in switch_mode(d, mode)
  PROVE  Good(r, descriptors[d]) /\ (r.error = OK => r.handle.mode = mode)
<1> DEFINE x == descriptors[d]
           h == handles[d]
           detached == InMode(AtPosition(x, h.offset), Closed)
<1>1. \/ x.open_mode = mode /\ r = Outcome(h, x, OK)
      \/ x.open_mode = Closed /\ r \in Reopen(entries, d, x, mode)
      \/ \E e \in Io \ {OK} : r = Outcome(NoHandle, detached, e)
      \/ r \in Reopen(entries, d, detached, mode)
  BY Zenon DEF switch_mode, InMode, AtPosition
<1>2. HandleOK(h) /\ DescriptorOK(x) /\ h.offset \in Nat /\ MediaOK(entries)
  BY DEF FileInv, TableInv, HandleOK
<1>3. h.mode = x.open_mode
  BY DEF FileInv, HandlesAreTracked
<1> DEFINE y == AtPosition(x, h.offset)
<1>4. DescriptorOK(y) /\ Same(x, y)
  BY <1>2, DescriptorPosition
<1>5. DescriptorOK(detached) /\ Same(y, detached) /\ detached.open_mode = Closed
  BY <1>4, DescriptorMode
<1>6. Same(x, detached)
  BY <1>4, <1>5, SameTransitive
<1>7. Allows(x, mode)
  OBVIOUS
<1>8. Allows(detached, mode)
  BY <1>6, <1>7 DEF Same, SameFlags, Allows
<1> SUFFICES Good(r, x) /\ (r.error = OK => r.handle.mode = mode)
  OBVIOUS
<1> HIDE DEF detached, x, h, y
<1>9. CASE x.open_mode = mode /\ r = Outcome(h, x, OK)
  BY <1>2, <1>3, <1>7, <1>9, MakeGood, SameReflexive, OutcomeFields
<1>10. CASE x.open_mode = Closed /\ r \in Reopen(entries, d, x, mode)
  BY <1>2, <1>7, <1>10, ReopenGood
<1>11. CASE \E e \in Io \ {OK} : r = Outcome(NoHandle, detached, e)
  BY <1>5, <1>6, <1>11, MakeGood, NoHandleOK, OutcomeFields
<1>12. CASE r \in Reopen(entries, d, detached, mode)
  <2>1. Good(r, detached) /\ (r.error = OK => r.handle.mode = mode)
    BY <1>2, <1>5, <1>8, <1>12, ReopenGood
  <2>2. Good(r, x)
    BY <1>6, <2>1, SameTransitive DEF Good, Same, SameFlags
  <2> QED
    BY <2>1, <2>2
<1> QED
  BY <1>1, <1>9, <1>10, <1>11, <1>12

\* The ways in which an operation edits an outcome.
WithError(r, e) == [r EXCEPT !.error = e]
SetPosition(r, v) == [r EXCEPT !.descriptor.position = v]
SetOffset(r, v) == [r EXCEPT !.handle.offset = v]
SetModified(r, v) == [r EXCEPT !.handle.modified = v]
SetHandle(r, h) == [r EXCEPT !.handle = h]

LEMMA OutcomeSet ==
  ASSUME NEW r, IsOutcome(r), NEW v
  PROVE  /\ WithError(r, v) = Outcome(r.handle, r.descriptor, v)
         /\ SetPosition(r, v) = Outcome(r.handle, AtPosition(r.descriptor, v), r.error)
         /\ SetOffset(r, v) = Outcome(AtOffset(r.handle, v), r.descriptor, r.error)
         /\ SetModified(r, v) = Outcome(Marked(r.handle, v), r.descriptor, r.error)
         /\ SetHandle(r, v) = Outcome(v, r.descriptor, r.error)
<1>1. PICK h, x, e : r = Outcome(h, x, e)
  BY DEF IsOutcome
<1>2. r.handle = h /\ r.descriptor = x /\ r.error = e
  BY <1>1, OutcomeFields
<1>3. [r EXCEPT !.error = v] = Outcome(h, x, v)
  BY <1>1 DEF Outcome
<1>4. [r EXCEPT !.descriptor.position = v] = Outcome(h, [x EXCEPT !.position = v], e)
  BY <1>1 DEF Outcome
<1>5. [r EXCEPT !.handle.offset = v] = Outcome([h EXCEPT !.offset = v], x, e)
  BY <1>1 DEF Outcome
<1>6. [r EXCEPT !.handle.modified = v] = Outcome([h EXCEPT !.modified = v], x, e)
  BY <1>1 DEF Outcome
<1>7. [r EXCEPT !.handle = v] = Outcome(v, x, e)
  BY <1>1 DEF Outcome
<1> QED
  BY <1>2, <1>3, <1>4, <1>5, <1>6, <1>7, Zenon
  DEF WithError, SetPosition, SetOffset, SetModified, SetHandle, AtPosition, AtOffset, Marked

\* None of them spoils a good outcome, and none closes or opens the handle.
LEMMA GoodSet ==
  ASSUME NEW x, NEW r, Good(r, x), NEW v
  PROVE  /\ Good(WithError(r, v), x) /\ WithError(r, v).handle = r.handle
         /\ Good(SetModified(r, v), x) /\ SetModified(r, v).handle.mode = r.handle.mode
         /\ SetModified(r, v).handle.offset = r.handle.offset
         /\ SetModified(r, v).descriptor = r.descriptor
         /\ v \in Nat => /\ Good(SetPosition(r, v), x) /\ SetPosition(r, v).handle = r.handle
                         /\ Good(SetOffset(r, v), x)
                         /\ SetOffset(r, v).handle.mode = r.handle.mode
                         /\ SetOffset(r, v).handle.offset = v
                         /\ SetOffset(r, v).descriptor = r.descriptor
<1>1. /\ IsOutcome(r) /\ HandleOK(r.handle) /\ DescriptorOK(r.descriptor)
      /\ Same(x, r.descriptor) /\ r.handle.mode = r.descriptor.open_mode
  BY DEF Good
<1>2. r.handle.mode = Closed \/ Allows(x, r.handle.mode)
  BY GoodModes
<1>3. Good(WithError(r, v), x) /\ WithError(r, v).handle = r.handle
  BY <1>1, <1>2, OutcomeSet, OutcomeFields, MakeGood
<1>4. /\ Good(SetModified(r, v), x) /\ SetModified(r, v).handle.mode = r.handle.mode
      /\ SetModified(r, v).handle.offset = r.handle.offset
      /\ SetModified(r, v).descriptor = r.descriptor
  <2>1. /\ HandleOK(Marked(r.handle, v)) /\ Marked(r.handle, v).mode = r.handle.mode
        /\ Marked(r.handle, v).offset = r.handle.offset
    BY <1>1, HandleModified
  <2> QED
    BY <1>1, <1>2, <2>1, OutcomeSet, OutcomeFields, MakeGood
<1>5. v \in Nat => Good(SetPosition(r, v), x) /\ SetPosition(r, v).handle = r.handle
  <2>1. v \in Nat => /\ DescriptorOK(AtPosition(r.descriptor, v))
                     /\ Same(r.descriptor, AtPosition(r.descriptor, v))
                     /\ AtPosition(r.descriptor, v).open_mode = r.descriptor.open_mode
    BY <1>1, DescriptorPosition
  <2>2. v \in Nat => Same(x, AtPosition(r.descriptor, v))
    BY <1>1, <2>1, SameTransitive
  <2> QED
    BY <1>1, <1>2, <2>1, <2>2, OutcomeSet, OutcomeFields, MakeGood
<1>6. v \in Nat => /\ Good(SetOffset(r, v), x) /\ SetOffset(r, v).handle.mode = r.handle.mode
                   /\ SetOffset(r, v).handle.offset = v
                   /\ SetOffset(r, v).descriptor = r.descriptor
  <2>1. v \in Nat => /\ HandleOK(AtOffset(r.handle, v))
                     /\ AtOffset(r.handle, v).mode = r.handle.mode
                     /\ AtOffset(r.handle, v).offset = v
    BY <1>1, HandleOffset
  <2> QED
    BY <1>1, <1>2, <2>1, OutcomeSet, OutcomeFields, MakeGood
<1> QED
  BY <1>3, <1>4, <1>5, <1>6

-----------------------------------------------------------------------------
(* The bytes of a file *)

\* A function on 1 .. m is the data of a file of size m.
LEMMA MakeData ==
  ASSUME NEW m \in Nat, NEW f, f = [i \in 1 .. m |-> f[i]]
  PROVE  Len(f) = m /\ IsSequence(f)
<1> DEFINE S == {f[i] : i \in 1 .. m}
<1>1. \A i \in 1 .. m : f[i] \in S
  OBVIOUS
<1> HIDE DEF S
<1>2. f \in [1 .. m -> S]
  BY <1>1
<1>3. f \in Seq(S) /\ DOMAIN f = 1 .. m
  BY <1>2
<1>4. Len(f) = m
  BY <1>3
<1> QED
  BY <1>4 DEF IsSequence

LEMMA EmptyData == IsSequence(<<>>) /\ Len(<<>>) = 0
BY DEF IsSequence

\* fx_file_extended_truncate_release keeps the bytes before the new end.
LEMMA ShortenedData ==
  ASSUME NEW f, IsSequence(f), NEW n \in Nat, n <= Len(f)
  PROVE  LET g == SubSeq(f, 1, n) IN IsSequence(g) /\ Len(g) = n /\ \A i \in 1 .. n : g[i] = f[i]
<1> DEFINE S == {f[i] : i \in 1 .. Len(f)}
           g == SubSeq(f, 1, n)
<1>1. \A i \in 1 .. Len(f) : f[i] \in S
  OBVIOUS
<1> HIDE DEF S
<1>2. f \in Seq(S)
  <2>1. f \in [1 .. Len(f) -> S] /\ Len(f) \in Nat
    BY <1>1 DEF IsSequence
  <2> QED
    BY <2>1
<1>3. g \in Seq(S) /\ Len(g) = n /\ \A i \in 1 .. n : g[i] = f[i]
  BY <1>2
<1> HIDE DEF g
<1>4. g = [i \in 1 .. n |-> g[i]]
  BY <1>3
<1>5. IsSequence(g)
  BY <1>3, <1>4 DEF IsSequence
<1> QED
  BY <1>3, <1>5 DEF g

\* fx_file_write changes bytes only where it writes.
LEMMA OverwrittenData ==
  ASSUME NEW f, IsSequence(f), NEW offset \in Nat, NEW count \in Nat, NEW byte
  PROVE  LET g == Overwritten(f, offset, count, byte)
         IN  /\ IsSequence(g)
             /\ \A i \in DOMAIN f \cap DOMAIN g :
                  g[i] # f[i] => g[i] = byte /\ i > offset /\ i \in 1 .. Len(f)
<1> DEFINE m == Max({Len(f), offset + count})
           g == Overwritten(f, offset, count, byte)
<1>1. m \in Nat
  <2>1. Len(f) \in Nat /\ offset + count \in Nat
    BY DEF IsSequence
  <2> QED
    BY <2>1, MaxOfTwo, Zenon
<1>2. g = [i \in 1 .. m |-> IF i > offset /\ i <= offset + count THEN byte ELSE f[i]]
  BY DEF Overwritten
<1> HIDE DEF m, g
<1>3. g = [i \in 1 .. m |-> g[i]] /\ DOMAIN g = 1 .. m
  BY <1>2
<1>4. IsSequence(g)
  BY <1>1, <1>3, MakeData
<1>5. \A i \in 1 .. m : g[i] = IF i > offset /\ i <= offset + count THEN byte ELSE f[i]
  BY <1>2
<1>6. DOMAIN f = 1 .. Len(f)
  BY DEF IsSequence
<1>7. \A i \in DOMAIN f \cap DOMAIN g :
        g[i] # f[i] => g[i] = byte /\ i > offset /\ i \in 1 .. Len(f)
  BY <1>3, <1>5, <1>6
<1> QED
  BY <1>4, <1>7 DEF g

\* Bytes that a change of f to g loses were not written by an append descriptor.
Appended(f, g) ==
  \A i \in DOMAIN f \cap DOMAIN g : g[i] # f[i] => g[i] # 0 /\ ~descriptors[g[i]].append

\* What AppendNeverOverwrites says of one step.
AppendStep == \A o \in Objects : Appended(entries[o].data, entries'[o].data)

LEMMA AppendedSame == ASSUME NEW f PROVE Appended(f, f)
BY Zenon DEF Appended

LEMMA AppendedEmpty == ASSUME NEW f PROVE Appended(f, <<>>)
<1>1. DOMAIN <<>> = {}
  OBVIOUS
<1> QED
  BY <1>1, Zenon DEF Appended

-----------------------------------------------------------------------------
(* Changes of the media *)

WithData(media, o, f) == [media EXCEPT ![o].data = f]

LEMMA MediaData ==
  ASSUME NEW media, MediaOK(media), NEW o, NEW f, IsSequence(f)
  PROVE  /\ MediaOK(WithData(media, o, f))
         /\ \A x \in Objects : WithData(media, o, f)[x].data =
                                 IF x = o THEN f ELSE media[x].data
<1>1. PICK m : m = [media EXCEPT ![o].data = f]
  OBVIOUS
<1>2. DOMAIN m = Objects
  BY <1>1 DEF MediaOK
<1>3. ASSUME NEW x \in Objects
      PROVE  EntryOK(m[x]) /\ m[x].data = IF x = o THEN f ELSE media[x].data
  <2>1. CASE x = o
    <3>1. PICK e : e = media[x]
      OBVIOUS
    <3>2. m[x] = [e EXCEPT !.data = f]
      BY <1>1, <2>1, <3>1 DEF MediaOK
    <3>3. IsEntry(e)
      BY <3>1 DEF MediaOK, EntryOK
    <3>4. PICK q : q = [e EXCEPT !.data = f]
      OBVIOUS
    <3>5. IsEntry(q) /\ q.data = f
      BY <3>3, <3>4 DEF IsEntry
    <3> QED
      BY <2>1, <3>2, <3>4, <3>5 DEF EntryOK
  <2>2. CASE x # o
    <3>1. m[x] = media[x]
      BY <1>1, <2>2 DEF MediaOK
    <3> QED
      BY <2>2, <3>1 DEF MediaOK
  <2> QED
    BY <2>1, <2>2
<1>4. MediaOK(m)
  BY <1>2, <1>3 DEF MediaOK
<1> QED
  BY <1>1, <1>3, <1>4, Zenon DEF WithData

WithEntry(media, o, e) == [media EXCEPT ![o] = e]

LEMMA MediaEntry ==
  ASSUME NEW media, MediaOK(media), NEW o, NEW e, EntryOK(e)
  PROVE  /\ MediaOK(WithEntry(media, o, e))
         /\ \A x \in Objects : WithEntry(media, o, e)[x].data =
                                 IF x = o THEN e.data ELSE media[x].data
<1>1. DOMAIN WithEntry(media, o, e) = Objects
  BY DEF MediaOK, WithEntry
<1>2. \A x \in Objects : WithEntry(media, o, e)[x] = IF x = o THEN e ELSE media[x]
  BY DEF MediaOK, WithEntry
<1> QED
  BY <1>1, <1>2 DEF MediaOK

LEMMA FreeOK == EntryOK(Free) /\ Free.data = <<>>
<1>1. IsEntry(Free) /\ Free.data = <<>>
  BY DEF IsEntry, Free
<1> QED
  BY <1>1, EmptyData DEF EntryOK

-----------------------------------------------------------------------------
(* The table after a call *)

Table == TableInv /\ HandlesAreTracked

LEMMA FinishKeeps ==
  ASSUME FileInv, NEW d \in Files, descriptors[d].allocated,
         NEW r, Good(r, descriptors[d]), Finish(d, r)
  PROVE  Table'
<1>1. /\ handles' = [handles EXCEPT ![d] = r.handle]
      /\ descriptors' = [descriptors EXCEPT ![d] = r.descriptor]
  BY DEF Finish
<1>2. DOMAIN handles = Files /\ DOMAIN descriptors = Files
  BY DEF FileInv, TableInv
<1>3. DOMAIN handles' = Files /\ DOMAIN descriptors' = Files
  BY <1>1, <1>2
<1>4. ASSUME NEW c \in Files
      PROVE  /\ HandleOK(handles'[c]) /\ DescriptorOK(descriptors'[c])
             /\ descriptors'[c].allocated \/ descriptors'[c].open_mode = Closed
             /\ descriptors'[c].allocated =>
                  descriptors'[c].readable \/ descriptors'[c].writable
             /\ handles'[c].mode = descriptors'[c].open_mode
             /\ handles'[c].mode = "read" => descriptors'[c].readable
             /\ handles'[c].mode = "write" => descriptors'[c].writable
  <2>1. CASE c = d
    <3>1. handles'[c] = r.handle /\ descriptors'[c] = r.descriptor
      BY <1>1, <1>2, <2>1
    <3>2. descriptors[d].readable \/ descriptors[d].writable
      BY DEF FileInv, TableInv
    <3> QED
      BY <3>1, <3>2 DEF Good, Same, SameFlags
  <2>2. CASE c # d
    <3>1. handles'[c] = handles[c] /\ descriptors'[c] = descriptors[c]
      BY <1>1, <1>2, <2>2
    <3> QED
      BY <3>1 DEF FileInv, TableInv, HandlesAreTracked
  <2> QED
    BY <2>1, <2>2
<1> QED
  BY <1>3, <1>4 DEF Table, TableInv, HandlesAreTracked

\* The FX_FILE and the descriptor move together.
LEMMA MovedGood ==
  ASSUME NEW x, NEW r, Good(r, x), NEW v \in Nat, NEW e
  PROVE  Good(MovedTo(r, v, e), x)
<1>1. MovedTo(r, v, e) = Outcome(AtOffset(r.handle, v), AtPosition(r.descriptor, v), e)
  BY Zenon DEF MovedTo, AtOffset, AtPosition
<1>2. /\ HandleOK(AtOffset(r.handle, v)) /\ AtOffset(r.handle, v).mode = r.handle.mode
      /\ DescriptorOK(AtPosition(r.descriptor, v))
      /\ Same(r.descriptor, AtPosition(r.descriptor, v))
      /\ AtPosition(r.descriptor, v).open_mode = r.descriptor.open_mode
  BY HandleOffset, DescriptorPosition DEF Good
<1>3. Same(x, AtPosition(r.descriptor, v)) /\ r.handle.mode = r.descriptor.open_mode
  BY <1>2, SameTransitive DEF Good
<1> QED
  BY <1>1, <1>2, <1>3, MakeGood, GoodModes

\* fx_file_extended_seek, with any position for the descriptor.
LEMMA SoughtGood ==
  ASSUME NEW x, NEW r, Good(r, x), NEW v \in Nat, NEW size \in Nat, NEW p \in Nat, NEW e
  PROVE  Good(Outcome(SeekTo(r.handle, v, size), AtPosition(r.descriptor, p), e), x)
<1>1. Min({v, size}) \in Nat
  BY MinOfTwo
<1>2. PICK u \in Nat : u = Min({v, size})
  BY <1>1
<1>3. SeekTo(r.handle, v, size) = AtOffset(r.handle, u)
  BY <1>2, Zenon DEF SeekTo, AtOffset
<1>4. /\ HandleOK(AtOffset(r.handle, u)) /\ AtOffset(r.handle, u).mode = r.handle.mode
      /\ DescriptorOK(AtPosition(r.descriptor, p))
      /\ Same(r.descriptor, AtPosition(r.descriptor, p))
      /\ AtPosition(r.descriptor, p).open_mode = r.descriptor.open_mode
  BY HandleOffset, DescriptorPosition DEF Good
<1>5. Same(x, AtPosition(r.descriptor, p)) /\ r.handle.mode = r.descriptor.open_mode
  BY <1>4, SameTransitive DEF Good
<1> QED
  BY <1>3, <1>4, <1>5, MakeGood, GoodModes

LEMMA BackIntoGood ==
  ASSUME NEW x, NEW r, Good(r, x), NEW length \in Nat, NEW size \in Nat,
         NEW q \in BackInto(r, length, size)
  PROVE  Good(q, x)
<1> DEFINE p == Min({r.descriptor.position, length})
           moved == SetPosition(r, p)
<1>1. \/ q = SetHandle(moved, SeekTo(moved.handle, p, size))
      \/ \E e \in Io \ {OK} : q = WithError(moved, e)
  BY Zenon DEF BackInto, SetPosition, SetHandle, WithError
<1>2. p \in Nat
  <2>1. r.descriptor.position \in Nat
    BY DEF Good, DescriptorOK
  <2> QED
    BY <2>1, MinOfTwo
<1> HIDE DEF p
<1>3. Good(moved, x) /\ moved.handle = r.handle
  BY <1>2, GoodSet
<1>4. moved = Outcome(r.handle, AtPosition(r.descriptor, p), r.error)
  BY OutcomeSet DEF Good
<1> HIDE DEF moved
<1>5. moved.descriptor = AtPosition(r.descriptor, p) /\ IsOutcome(moved)
  BY <1>4, OutcomeFields
<1>6. SetHandle(moved, SeekTo(r.handle, p, size))
        = Outcome(SeekTo(r.handle, p, size), AtPosition(r.descriptor, p), moved.error)
  BY <1>5, OutcomeSet
<1>7. Good(SetHandle(moved, SeekTo(r.handle, p, size)), x)
  BY <1>2, <1>6, SoughtGood
<1> QED
  BY <1>1, <1>3, <1>7, GoodSet

\* An append write starts at the end of the file.
LEMMA AtEndGood ==
  ASSUME NEW d, NEW x, NEW s, Good(s, x), s.error = OK, NEW size \in Nat,
         NEW r \in AtEnd(d, s, size)
  PROVE  /\ Good(r, x)
         /\ r.error = OK /\ descriptors[d].append => r.handle.offset = size
<1> DEFINE moved == SetPosition(s, size)
<1>1. \/ ~descriptors[d].append /\ r = s
      \/ r = SetOffset(moved, size)
      \/ \E e \in Io \ {OK} : r = WithError(moved, e)
  BY Zenon DEF AtEnd, SetPosition, SetOffset, WithError
<1>2. Good(moved, x)
  BY GoodSet
<1> HIDE DEF moved
<1>3. Good(SetOffset(moved, size), x) /\ SetOffset(moved, size).handle.offset = size
  BY <1>2, GoodSet
<1>4. \A e : Good(WithError(moved, e), x) /\ WithError(moved, e).error = e
  BY <1>2, GoodSet, OutcomeSet, OutcomeFields DEF Good
<1> QED
  BY <1>1, <1>3, <1>4

-----------------------------------------------------------------------------
(* Calls on a descriptor *)

LEMMA MediaKept ==
  ASSUME FileInv, UNCHANGED entries
  PROVE  MediaOK(entries') /\ AppendStep
BY AppendedSame DEF FileInv, AppendStep

\* The bytes of one file change.
LEMMA DataChanged ==
  ASSUME FileInv, NEW o, NEW g, IsSequence(g), Appended(entries[o].data, g),
         entries' = WithData(entries, o, g)
  PROVE  MediaOK(entries') /\ AppendStep
<1>1. MediaOK(entries)
  BY DEF FileInv
<1>2. /\ MediaOK(entries')
      /\ \A x \in Objects : entries'[x].data = IF x = o THEN g ELSE entries[x].data
  BY <1>1, MediaData
<1> QED
  BY <1>2, AppendedSame DEF AppendStep

LEMMA TableKept ==
  ASSUME FileInv, UNCHANGED <<handles, descriptors>>
  PROVE  Table'
BY DEF FileInv, Table, TableInv, HandlesAreTracked

LEMMA Together ==
  ASSUME MediaOK(entries'), Table'
  PROVE  FileInv'
BY DEF FileInv, Table

\* The handle of a call that succeeded is on an object of the media.
LEMMA GoodSize ==
  ASSUME FileInv, NEW x, NEW r, Good(r, x), r.handle.mode # Closed
  PROVE  /\ r.handle.object \in Objects /\ IsSequence(entries[r.handle.object].data)
         /\ Len(entries[r.handle.object].data) \in Nat
         /\ r.handle.offset \in Nat /\ r.descriptor.position \in Nat
<1>1. r.handle.object \in Objects /\ r.handle.offset \in Nat /\ r.descriptor.position \in Nat
  BY DEF Good, HandleOK, DescriptorOK
<1>2. EntryOK(entries[r.handle.object])
  BY <1>1 DEF FileInv, MediaOK
<1> QED
  BY <1>1, <1>2 DEF EntryOK, IsSequence

LEMMA ReadStep ==
  ASSUME FileInv, NEW d \in Files, NEW length \in Nat, Read(d, length)
  PROVE  FileInv' /\ AppendStep
<1>1. MediaOK(entries') /\ AppendStep
  BY MediaKept DEF Read
<1>2. descriptors[d].allocated /\ Allows(descriptors[d], "read")
  BY DEF Read, Allows
<1>3. PICK r \in switch_mode(d, "read") :
        IF r.error # OK THEN Finish(d, r)
        ELSE \E e \in Io :
               Finish(d, MovedTo(r, IF e = OK
                                      THEN Min({r.handle.offset + length,
                                                Len(entries[r.handle.object].data)})
                                      ELSE r.handle.offset, e))
  BY Zenon DEF Read
<1>4. Good(r, descriptors[d]) /\ (r.error = OK => r.handle.mode = "read")
  BY <1>2, SwitchGood
<1>5. CASE r.error # OK
  BY <1>1, <1>2, <1>3, <1>4, <1>5, FinishKeeps, Together
<1>6. CASE r.error = OK
  <2>1. r.handle.offset \in Nat /\ Len(entries[r.handle.object].data) \in Nat
    BY <1>4, <1>6, GoodSize DEF Closed
  <2>2. Min({r.handle.offset + length, Len(entries[r.handle.object].data)}) \in Nat
    <3>1. r.handle.offset + length \in Nat
      BY <2>1
    <3> QED
      BY <2>1, <3>1, MinOfTwo
  <2>3. PICK v \in Nat : \E e : Finish(d, MovedTo(r, v, e))
    BY <1>3, <1>6, <2>1, <2>2, Zenon
  <2>4. PICK e : Finish(d, MovedTo(r, v, e))
    BY <2>3
  <2>5. Good(MovedTo(r, v, e), descriptors[d])
    BY <1>4, MovedGood
  <2> QED
    BY <1>1, <1>2, <2>4, <2>5, FinishKeeps, Together
<1> QED
  BY <1>5, <1>6

\* The handle _lseek works on: some mode is allowed by every descriptor.
LEMMA SeekableGood ==
  ASSUME FileInv, NEW d \in Files, descriptors[d].allocated, NEW r \in SeekableHandle(d)
  PROVE  Good(r, descriptors[d]) /\ (r.error = OK => r.handle.mode # Closed)
<1> DEFINE mode == IF descriptors[d].readable THEN "read" ELSE "write"
<1>1. \/ descriptors[d].open_mode # Closed /\ r = Outcome(handles[d], descriptors[d], OK)
      \/ r \in switch_mode(d, mode)
  BY Zenon DEF SeekableHandle
<1>2. CASE descriptors[d].open_mode # Closed /\ r = Outcome(handles[d], descriptors[d], OK)
  <2>1. /\ HandleOK(handles[d]) /\ DescriptorOK(descriptors[d])
        /\ handles[d].mode = descriptors[d].open_mode
    BY DEF FileInv, TableInv, HandlesAreTracked
  <2>2. handles[d].mode = Closed \/ Allows(descriptors[d], handles[d].mode)
    BY <2>1 DEF FileInv, HandlesAreTracked, HandleOK, Allows
  <2> QED
    BY <1>2, <2>1, <2>2, MakeGood, SameReflexive, OutcomeFields
<1>3. CASE r \in switch_mode(d, mode)
  <2>1. descriptors[d].readable \/ descriptors[d].writable
    BY DEF FileInv, TableInv
  <2>2. Allows(descriptors[d], mode) /\ mode # Closed
    BY <2>1 DEF Allows, Closed
  <2> HIDE DEF mode
  <2> QED
    BY <1>3, <2>2, SwitchGood
<1> QED
  BY <1>1, <1>2, <1>3

LEMMA LseekStep ==
  ASSUME FileInv, NEW d \in Files, NEW offset \in Int,
         NEW origin \in {"SEEK_SET", "SEEK_CUR", "SEEK_END"}, Lseek(d, offset, origin)
  PROVE  FileInv' /\ AppendStep
<1>1. MediaOK(entries') /\ AppendStep
  BY MediaKept DEF Lseek
<1>2. descriptors[d].allocated
  BY DEF Lseek
<1>3. PICK r \in SeekableHandle(d) :
        \/ Finish(d, r)
        \/ \E e : Finish(d, WithError(r, e))
        \/ r.error = OK /\ \E target :
             /\ target = (CASE origin = "SEEK_SET" -> 0
                            [] origin = "SEEK_CUR" -> r.descriptor.position
                            [] origin = "SEEK_END" -> Len(entries[r.handle.object].data))
                         + offset
             /\ ~(target < 0)
             /\ Finish(d, Outcome(SeekTo(r.handle, target, Len(entries[r.handle.object].data)),
                                  AtPosition(r.descriptor, target), OK))
  BY Zenon DEF Lseek, WithError, AtPosition
<1>4. Good(r, descriptors[d]) /\ (r.error = OK => r.handle.mode # Closed)
  BY <1>2, SeekableGood
<1>5. CASE Finish(d, r)
  BY <1>1, <1>2, <1>4, <1>5, FinishKeeps, Together
<1>6. CASE \E e : Finish(d, WithError(r, e))
  BY <1>1, <1>2, <1>4, <1>6, GoodSet, FinishKeeps, Together
<1>7. ASSUME r.error = OK, NEW target, ~(target < 0),
             target = (CASE origin = "SEEK_SET" -> 0
                         [] origin = "SEEK_CUR" -> r.descriptor.position
                         [] origin = "SEEK_END" -> Len(entries[r.handle.object].data))
                      + offset,
             Finish(d, Outcome(SeekTo(r.handle, target, Len(entries[r.handle.object].data)),
                               AtPosition(r.descriptor, target), OK))
      PROVE  FileInv'
  <2>1. r.descriptor.position \in Nat /\ Len(entries[r.handle.object].data) \in Nat
    BY <1>4, <1>7, GoodSize
  <2>2. target \in Nat
    <3>1. PICK base \in Nat : target = base + offset
      BY <1>7, <2>1
    <3> QED
      BY <1>7, <3>1
  <2>3. Good(Outcome(SeekTo(r.handle, target, Len(entries[r.handle.object].data)),
                     AtPosition(r.descriptor, target), OK), descriptors[d])
    BY <1>4, <2>1, <2>2, SoughtGood
  <2> QED
    BY <1>1, <1>2, <1>7, <2>3, FinishKeeps, Together
<1> QED
  BY <1>1, <1>3, <1>5, <1>6, <1>7, Zenon

LEMMA WriteStep ==
  ASSUME FileInv, NEW d \in Files, NEW length \in Nat, Write(d, length)
  PROVE  FileInv' /\ AppendStep
<1>1. descriptors[d].allocated /\ Allows(descriptors[d], "write")
  BY DEF Write, Allows
<1>2. PICK s \in switch_mode(d, "write") :
        IF s.error # OK THEN Finish(d, s) /\ UNCHANGED entries
        ELSE \E r \in AtEnd(d, s, Len(entries[s.handle.object].data)) :
               IF r.error # OK THEN Finish(d, r) /\ UNCHANGED entries
               ELSE \E w \in WrittenCounts(r.handle.offset, length) :
                 /\ entries' = WithData(entries, s.handle.object,
                                 Overwritten(entries[s.handle.object].data,
                                             r.handle.offset, w[1], d))
                 /\ Finish(d, MovedTo(SetModified(r, r.handle.modified \/ w[1] > 0),
                                      r.handle.offset + w[1], w[2]))
  BY Zenon DEF Write, WithData, SetModified
<1>3. Good(s, descriptors[d]) /\ (s.error = OK => s.handle.mode = "write")
  BY <1>1, SwitchGood
<1>4. CASE s.error # OK
  BY <1>1, <1>2, <1>3, <1>4, FinishKeeps, MediaKept, Together
<1>5. CASE s.error = OK
  <2> DEFINE o == s.handle.object
             data == entries[o].data
  <2>1. o \in Objects /\ IsSequence(data) /\ Len(data) \in Nat
    BY <1>3, <1>5, GoodSize DEF Closed
  <2>2. PICK r \in AtEnd(d, s, Len(data)) :
          IF r.error # OK THEN Finish(d, r) /\ UNCHANGED entries
          ELSE \E w \in WrittenCounts(r.handle.offset, length) :
            /\ entries' = WithData(entries, o, Overwritten(data, r.handle.offset, w[1], d))
            /\ Finish(d, MovedTo(SetModified(r, r.handle.modified \/ w[1] > 0),
                                 r.handle.offset + w[1], w[2]))
    BY <1>2, <1>5, Zenon
  <2>3. /\ Good(r, descriptors[d])
        /\ r.error = OK /\ descriptors[d].append => r.handle.offset = Len(data)
    <3>1. PICK n \in Nat : n = Len(data)
      BY <2>1
    <3>2. r \in AtEnd(d, s, n)
      BY <3>1
    <3>3. Good(s, descriptors[d])
      BY <1>3
    <3>4. /\ Good(r, descriptors[d])
          /\ r.error = OK /\ descriptors[d].append => r.handle.offset = n
      BY <1>5, <3>2, <3>3, AtEndGood
    <3> QED
      BY <3>1, <3>4
  <2>4. CASE r.error # OK
    BY <1>1, <2>2, <2>3, <2>4, FinishKeeps, MediaKept, Together
  <2>5. CASE r.error = OK
    <3>1. PICK w \in WrittenCounts(r.handle.offset, length) :
            /\ entries' = WithData(entries, o, Overwritten(data, r.handle.offset, w[1], d))
            /\ Finish(d, MovedTo(SetModified(r, r.handle.modified \/ w[1] > 0),
                                 r.handle.offset + w[1], w[2]))
      BY <2>2, <2>5, Zenon
    <3>2. r.handle.offset \in Nat
      BY <2>3 DEF Good, HandleOK
    <3>3. w[1] \in Nat
      BY <3>1 DEF WrittenCounts
    <3>4. Table'
      <4>1. PICK q : q = SetModified(r, r.handle.modified \/ w[1] > 0)
        OBVIOUS
      <4>2. Good(q, descriptors[d])
        BY <2>3, <4>1, GoodSet
      <4>3. r.handle.offset + w[1] \in Nat
        BY <3>2, <3>3
      <4>4. Good(MovedTo(q, r.handle.offset + w[1], w[2]), descriptors[d])
        BY <4>2, <4>3, MovedGood
      <4> QED
        BY <1>1, <3>1, <4>1, <4>4, FinishKeeps, Zenon
    <3> DEFINE g == Overwritten(data, r.handle.offset, w[1], d)
    <3>5. /\ IsSequence(g)
          /\ \A i \in DOMAIN data \cap DOMAIN g :
               g[i] # data[i] => g[i] = d /\ i > r.handle.offset /\ i \in 1 .. Len(data)
      BY <2>1, <3>2, <3>3, OverwrittenData
    <3>6. Appended(data, g)
      <4>1. d # 0
        BY FilesystemAssumption
      <4>2. \A i \in 1 .. Len(data) : i > r.handle.offset => ~descriptors[d].append
        BY <2>1, <2>3, <2>5
      <4> HIDE DEF g, data
      <4> QED
        BY <3>5, <4>1, <4>2 DEF Appended
    <3> HIDE DEF g
    <3>7. entries' = WithData(entries, o, g)
      BY <3>1 DEF g
    <3>8. MediaOK(entries') /\ AppendStep
      BY <3>5, <3>6, <3>7, DataChanged
    <3> QED
      BY <3>4, <3>8, Together
  <2> QED
    BY <2>4, <2>5
<1> QED
  BY <1>4, <1>5

LEMMA FtruncateStep ==
  ASSUME FileInv, NEW d \in Files, NEW length \in Nat, Ftruncate(d, length)
  PROVE  FileInv' /\ AppendStep
<1>1. descriptors[d].allocated /\ Allows(descriptors[d], "write")
  BY DEF Ftruncate, Allows
<1>2. PICK s \in switch_mode(d, "write") :
        LET o == s.handle.object
            size == Len(entries[o].data)
            shrunk == [s EXCEPT !.handle.modified = TRUE, !.handle.offset = Min({@, length})]
        IN  IF s.error # OK THEN Finish(d, s) /\ UNCHANGED entries
            ELSE
            \/ /\ length <= size
               /\ entries' = [entries EXCEPT ![o].data = SubSeq(@, 1, length)]
               /\ \E r \in BackInto(IF length < size THEN shrunk ELSE s, length, length) :
                    Finish(d, r)
            \/ UNCHANGED entries /\ \E e \in Io \ {OK} : Finish(d, [s EXCEPT !.error = e])
            \/ /\ length > size
               /\ \E z \in ZeroCounts(size, length) :
                    LET grown == [s EXCEPT !.handle.modified = @ \/ z[1] > 0,
                                           !.handle.offset = size + z[1],
                                           !.error = z[2]]
                    IN  /\ entries' = [entries EXCEPT ![o].data = Overwritten(@, size, z[1], 0)]
                        /\ \E r \in (IF z[2] = OK THEN BackInto(grown, length, length)
                                                  ELSE {grown}) : Finish(d, r)
  BY Zenon DEF Ftruncate
<1> DEFINE o == s.handle.object
           data == entries[o].data
           size == Len(data)
           shrunk == [s EXCEPT !.handle.modified = TRUE, !.handle.offset = Min({@, length})]
           Grown(z) == [s EXCEPT !.handle.modified = @ \/ z[1] > 0,
                                 !.handle.offset = size + z[1],
                                 !.error = z[2]]
           cut == [entries EXCEPT ![o].data = SubSeq(@, 1, length)]
           Filled(z) == [entries EXCEPT ![o].data = Overwritten(@, size, z[1], 0)]
<1>3. \/ UNCHANGED entries /\ Finish(d, s)
      \/ UNCHANGED entries /\ \E e \in Io \ {OK} : Finish(d, [s EXCEPT !.error = e])
      \/ /\ s.error = OK /\ length <= size /\ entries' = cut
         /\ \E r \in BackInto(IF length < size THEN shrunk ELSE s, length, length) :
              Finish(d, r)
      \/ /\ s.error = OK /\ length > size
         /\ \E z \in ZeroCounts(size, length) :
              /\ entries' = Filled(z)
              /\ \E r \in (IF z[2] = OK THEN BackInto(Grown(z), length, length)
                                        ELSE {Grown(z)}) : Finish(d, r)
  BY <1>2, Zenon
<1>4. shrunk = SetOffset(SetModified(s, TRUE),
                         Min({SetModified(s, TRUE).handle.offset, length}))
  BY Zenon DEF SetModified, SetOffset
<1>5. \A z : Grown(z) = WithError(SetOffset(SetModified(s, s.handle.modified \/ z[1] > 0),
                                            size + z[1]), z[2])
  BY Zenon DEF SetModified, SetOffset, WithError
<1>6. cut = WithData(entries, o, SubSeq(data, 1, length))
  BY Zenon DEF WithData
<1>7. \A z : Filled(z) = WithData(entries, o, Overwritten(data, size, z[1], 0))
  BY Zenon DEF WithData
<1>8. \A e : [s EXCEPT !.error = e] = WithError(s, e)
  BY Zenon DEF WithError
<1>9. /\ Good(s, descriptors[d])
      /\ s.error = OK => o \in Objects /\ IsSequence(data) /\ size \in Nat /\ s.handle.offset \in Nat
  <2>1. Good(s, descriptors[d]) /\ (s.error = OK => s.handle.mode = "write")
    BY <1>1, SwitchGood
  <2> QED
    BY <2>1, GoodSize DEF Closed
<1>10. CASE UNCHANGED entries /\ Finish(d, s)
  BY <1>1, <1>9, <1>10, FinishKeeps, MediaKept, Together
<1>11. CASE UNCHANGED entries /\ \E e \in Io \ {OK} : Finish(d, [s EXCEPT !.error = e])
  <2>1. PICK e : Finish(d, WithError(s, e))
    BY <1>8, <1>11, Zenon
  <2>2. Good(WithError(s, e), descriptors[d])
    BY <1>9, GoodSet
  <2> QED
    BY <1>1, <1>11, <2>1, <2>2, FinishKeeps, MediaKept, Together
<1> HIDE DEF o, data, size, shrunk, Grown, cut, Filled
<1>12. CASE /\ s.error = OK /\ length <= size /\ entries' = cut
            /\ \E r \in BackInto(IF length < size THEN shrunk ELSE s, length, length) :
                 Finish(d, r)
  <2>1. Good(SetModified(s, TRUE), descriptors[d])
        /\ SetModified(s, TRUE).handle.offset = s.handle.offset
    <3>1. \A v : /\ Good(SetModified(s, v), descriptors[d])
                 /\ SetModified(s, v).handle.offset = s.handle.offset
      BY <1>9, GoodSet
    <3> QED
      BY <3>1, Zenon
  <2>2. Min({SetModified(s, TRUE).handle.offset, length}) \in Nat
    <3>1. SetModified(s, TRUE).handle.offset \in Nat
      BY <1>9, <1>12, <2>1
    <3> QED
      BY <3>1, MinOfTwo
  <2>3. PICK v \in Nat : shrunk = SetOffset(SetModified(s, TRUE), v)
    BY <1>4, <2>2, Zenon
  <2>4. Good(shrunk, descriptors[d])
    BY <2>1, <2>3, GoodSet
  <2>5. PICK q : /\ Good(q, descriptors[d])
                 /\ \E r \in BackInto(q, length, length) : Finish(d, r)
    BY <1>9, <1>12, <2>4, Zenon
  <2>6. PICK r : Good(r, descriptors[d]) /\ Finish(d, r)
    BY <2>5, BackIntoGood
  <2>7. Table'
    BY <1>1, <2>6, FinishKeeps
  <2> DEFINE g == SubSeq(data, 1, length)
  <2>8. IsSequence(g) /\ Len(g) = length /\ \A i \in 1 .. length : g[i] = data[i]
    BY <1>9, <1>12, ShortenedData, Zenon DEF size
  <2>9. entries' = WithData(entries, o, g)
    BY <1>6, <1>12, Zenon
  <2> HIDE DEF g
  <2>10. Appended(data, g)
    BY <2>8 DEF Appended, IsSequence
  <2> QED
    BY <2>7, <2>8, <2>9, <2>10, DataChanged, Together DEF data
<1>13. CASE /\ s.error = OK /\ length > size
            /\ \E z \in ZeroCounts(size, length) :
                 /\ entries' = Filled(z)
                 /\ \E r \in (IF z[2] = OK THEN BackInto(Grown(z), length, length)
                                           ELSE {Grown(z)}) : Finish(d, r)
  <2>1. PICK z \in ZeroCounts(size, length) :
          /\ entries' = Filled(z)
          /\ \E r \in (IF z[2] = OK THEN BackInto(Grown(z), length, length)
                                    ELSE {Grown(z)}) : Finish(d, r)
    BY <1>13, Zenon
  <2>2. z[1] \in Nat
    BY <1>9, <1>13, <2>1 DEF ZeroCounts
  <2>3. PICK q : q = SetModified(s, s.handle.modified \/ z[1] > 0)
    OBVIOUS
  <2>4. Good(q, descriptors[d])
    BY <1>9, <2>3, GoodSet
  <2>5. PICK v \in Nat : v = size + z[1]
    BY <1>9, <1>13, <2>2
  <2>6. Grown(z) = WithError(SetOffset(q, v), z[2])
    BY <1>5, <2>3, <2>5, Zenon
  <2>7. Good(Grown(z), descriptors[d])
    BY <2>4, <2>6, GoodSet
  <2>8. PICK r : Good(r, descriptors[d]) /\ Finish(d, r)
    BY <2>1, <2>7, BackIntoGood
  <2>9. Table'
    BY <1>1, <2>8, FinishKeeps
  <2> DEFINE g == Overwritten(data, size, z[1], 0)
  <2>10. /\ IsSequence(g)
         /\ \A i \in DOMAIN data \cap DOMAIN g :
              g[i] # data[i] => g[i] = 0 /\ i > size /\ i \in 1 .. Len(data)
    BY <1>9, <1>13, <2>2, OverwrittenData
  <2>11. entries' = WithData(entries, o, g)
    BY <1>7, <2>1, Zenon
  <2> HIDE DEF g
  <2>12. \A i \in 1 .. Len(data) : ~(i > size)
    BY <1>9, <1>13 DEF size
  <2>13. Appended(data, g)
    BY <2>10, <2>12, Zenon DEF Appended
  <2> QED
    BY <2>9, <2>10, <2>11, <2>13, DataChanged, Together DEF data
<1> QED
  BY <1>3, <1>10, <1>11, <1>12, <1>13

-----------------------------------------------------------------------------
(* Opening, closing and flushing *)

SlotOK(h, y) ==
  /\ HandleOK(h) /\ DescriptorOK(y)
  /\ y.allocated \/ y.open_mode = Closed
  /\ y.allocated => y.readable \/ y.writable
  /\ h.mode = y.open_mode
  /\ h.mode = "read" => y.readable
  /\ h.mode = "write" => y.writable

LEMMA TableBySlots ==
  Table <=> /\ DOMAIN handles = Files /\ DOMAIN descriptors = Files
            /\ \A d \in Files : SlotOK(handles[d], descriptors[d])
BY DEF Table, TableInv, HandlesAreTracked, SlotOK

LEMMA TableBySlotsPrime ==
  ASSUME DOMAIN handles' = Files, DOMAIN descriptors' = Files,
         \A d \in Files : SlotOK(handles'[d], descriptors'[d])
  PROVE  Table'
BY DEF Table, TableInv, HandlesAreTracked, SlotOK

LEMMA SlotKeeps ==
  ASSUME FileInv, NEW d \in Files, NEW h, NEW y, SlotOK(h, y),
         handles' = [handles EXCEPT ![d] = h],
         \/ descriptors' = [descriptors EXCEPT ![d] = y]
         \/ descriptors' = descriptors /\ y = descriptors[d]
  PROVE  Table'
<1>1. /\ DOMAIN handles = Files /\ DOMAIN descriptors = Files
      /\ \A c \in Files : SlotOK(handles[c], descriptors[c])
  BY TableBySlots DEF FileInv, Table
<1>2. DOMAIN handles' = Files /\ DOMAIN descriptors' = Files
  BY <1>1
<1>3. \A c \in Files : /\ handles'[c] = IF c = d THEN h ELSE handles[c]
                       /\ descriptors'[c] = IF c = d THEN y ELSE descriptors[c]
  BY <1>1
<1>4. \A c \in Files : SlotOK(handles'[c], descriptors'[c])
  BY <1>1, <1>3
<1> QED
  BY <1>2, <1>4, TableBySlotsPrime

LEMMA CloseStep ==
  ASSUME FileInv, NEW d \in Files, Close(d)
  PROVE  FileInv' /\ AppendStep
<1>1. SlotOK(NoHandle, NoDescriptor)
  <2>1. DescriptorOK(NoDescriptor) /\ NoDescriptor.open_mode = Closed /\ ~NoDescriptor.allocated
    BY DEF NoDescriptor, DescriptorOK, IsDescriptor
  <2> QED
    BY <2>1, NoHandleOK DEF SlotOK, Closed
<1>2. /\ handles' = [handles EXCEPT ![d] = NoHandle]
      /\ descriptors' = [descriptors EXCEPT ![d] = NoDescriptor]
      /\ UNCHANGED entries
  BY DEF Close
<1>3. Table'
  BY <1>1, <1>2, SlotKeeps
<1> QED
  BY <1>2, <1>3, MediaKept, Together

LEMMA FlushKeeps ==
  ASSUME FileInv, NEW v, handles' = Flushed(v), UNCHANGED descriptors
  PROVE  Table'
<1>1. /\ DOMAIN handles = Files /\ DOMAIN descriptors = Files
      /\ \A c \in Files : SlotOK(handles[c], descriptors[c])
  BY TableBySlots DEF FileInv, Table
<1>2. /\ DOMAIN handles' = Files
      /\ \A c \in Files : handles'[c] = handles[c] \/ handles'[c] = Marked(handles[c], FALSE)
  BY DEF Flushed, Marked
<1>3. \A c \in Files : HandleOK(handles'[c]) /\ handles'[c].mode = handles[c].mode
  <2>1. \A h, m : HandleOK(h) => HandleOK(Marked(h, m)) /\ Marked(h, m).mode = h.mode
    BY HandleModified
  <2>2. \A h : HandleOK(h) => HandleOK(Marked(h, FALSE)) /\ Marked(h, FALSE).mode = h.mode
    BY <2>1, Zenon
  <2>3. \A c \in Files : HandleOK(handles[c])
    BY <1>1 DEF SlotOK
  <2> QED
    BY <1>2, <2>2, <2>3, Zenon
<1>4. \A c \in Files : SlotOK(handles'[c], descriptors'[c])
  BY <1>1, <1>3 DEF SlotOK
<1> QED
  BY <1>1, <1>2, <1>4, TableBySlotsPrime

LEMMA FsyncStep ==
  ASSUME FileInv, NEW d \in Files, Fsync(d)
  PROVE  FileInv' /\ AppendStep
<1>1. /\ UNCHANGED <<entries, descriptors>>
      /\ handles' = Flushed(Media(descriptors[d].path)) \/ UNCHANGED handles
  BY DEF Fsync
<1>2. Table'
  BY <1>1, FlushKeeps, TableKept
<1> QED
  BY <1>1, <1>2, MediaKept, Together

-----------------------------------------------------------------------------
(* Names *)

\* An entry is replaced by one without data.
LEMMA EntryEmptied ==
  ASSUME FileInv, NEW o, NEW e, EntryOK(e), e.data = <<>>,
         entries' = [entries EXCEPT ![o] = e]
  PROVE  MediaOK(entries') /\ AppendStep
<1>1. MediaOK(entries)
  BY DEF FileInv
<1>2. entries' = WithEntry(entries, o, e)
  BY DEF WithEntry
<1>3. /\ MediaOK(WithEntry(entries, o, e))
      /\ \A x \in Objects : WithEntry(entries, o, e)[x].data =
                              IF x = o THEN e.data ELSE entries[x].data
  BY <1>1, MediaEntry
<1>4. /\ MediaOK(entries')
      /\ \A x \in Objects : entries'[x].data = IF x = o THEN e.data ELSE entries[x].data
  BY <1>2, <1>3, Zenon
<1> QED
  BY <1>4, AppendedSame, AppendedEmpty DEF AppendStep

LEMMA DeletedStep ==
  ASSUME FileInv, NEW o, entries' = Deleted(o)
  PROVE  MediaOK(entries') /\ AppendStep
BY FreeOK, EntryEmptied DEF Deleted

\* A new file or directory has no data.
NewEntry(kind, path) ==
  [Free EXCEPT !.kind = kind, !.parent = ObjectAt(Front(path)), !.name = Last(path)]

LEMMA NewEntryOK ==
  ASSUME NEW kind, NEW path
  PROVE  EntryOK(NewEntry(kind, path)) /\ NewEntry(kind, path).data = <<>>
<1>1. PICK f, a, b : f = Free /\ a = ObjectAt(Front(path)) /\ b = Last(path)
  OBVIOUS
<1>2. IsEntry(f) /\ f.data = <<>>
  BY <1>1, FreeOK DEF EntryOK
<1>3. PICK e : e = [f EXCEPT !.kind = kind, !.parent = a, !.name = b]
  OBVIOUS
<1>4. IsEntry(e) /\ e.data = <<>>
  BY <1>2, <1>3 DEF IsEntry
<1>5. e = NewEntry(kind, path)
  BY <1>1, <1>3, Zenon DEF NewEntry
<1> QED
  BY <1>4, <1>5, EmptyData DEF EntryOK

LEMMA CreatedMedia ==
  ASSUME FileInv, NEW kind, NEW path
  PROVE  /\ MediaOK(Created(kind, path))
         /\ \A x \in Objects : Created(kind, path)[x].data =
                                 IF x = Min(Unused) THEN <<>> ELSE entries[x].data
<1>1. PICK e : e = NewEntry(kind, path)
  OBVIOUS
<1>2. Created(kind, path) = WithEntry(entries, Min(Unused), e)
  BY <1>1, Zenon DEF Created, NewEntry, WithEntry
<1>3. EntryOK(e) /\ e.data = <<>> /\ MediaOK(entries)
  BY <1>1, NewEntryOK DEF FileInv
<1>4. /\ MediaOK(WithEntry(entries, Min(Unused), e))
      /\ \A x \in Objects : WithEntry(entries, Min(Unused), e)[x].data =
                              IF x = Min(Unused) THEN e.data ELSE entries[x].data
  BY <1>3, MediaEntry
<1> QED
  BY <1>2, <1>3, <1>4, Zenon

\* Files that are emptied or left alone.
LEMMA EmptiedStep ==
  ASSUME \A x \in Objects : entries'[x].data = entries[x].data \/ entries'[x].data = <<>>
  PROVE  AppendStep
BY AppendedSame, AppendedEmpty, Zenon DEF AppendStep

LEMMA CreatedStep ==
  ASSUME FileInv, NEW kind, NEW path, entries' = Created(kind, path)
  PROVE  MediaOK(entries') /\ AppendStep
BY CreatedMedia, EmptiedStep, Zenon

\* An entry that is moved keeps its data.
LEMMA MovedStep ==
  ASSUME FileInv, NEW from, NEW to, entries' = Moved(from, to)
  PROVE  MediaOK(entries') /\ AppendStep
<1>1. PICK o, a, b, c : entries' = [entries EXCEPT ![o].parent = a, ![o].name = b, ![o].stale = c]
  BY Zenon DEF Moved
<1>2. DOMAIN entries = Objects /\ \A x \in Objects : EntryOK(entries[x])
  BY DEF FileInv, MediaOK
<1>3. DOMAIN entries' = Objects
  BY <1>1, <1>2
<1>4. ASSUME NEW x \in Objects
      PROVE  EntryOK(entries'[x]) /\ entries'[x].data = entries[x].data
  <2>1. CASE x = o
    <3>1. PICK e : e = entries[x]
      OBVIOUS
    <3>2. entries'[x] = [e EXCEPT !.parent = a, !.name = b, !.stale = c]
      BY <1>1, <1>2, <2>1, <3>1
    <3>3. PICK q : q = [e EXCEPT !.parent = a, !.name = b, !.stale = c]
      OBVIOUS
    <3>4. IsEntry(e) /\ IsSequence(e.data)
      BY <1>2, <3>1 DEF EntryOK
    <3>5. IsEntry(q) /\ q.data = e.data
      BY <3>3, <3>4 DEF IsEntry
    <3> QED
      BY <3>1, <3>2, <3>3, <3>4, <3>5 DEF EntryOK
  <2>2. CASE x # o
    <3>1. entries'[x] = entries[x]
      BY <1>1, <1>2, <2>2
    <3> QED
      BY <1>2, <3>1
  <2> QED
    BY <2>1, <2>2
<1> QED
  BY <1>3, <1>4, AppendedSame DEF MediaOK, AppendStep

LEMMA AttemptStep ==
  ASSUME FileInv, NEW error, NEW media, Attempt(error, media),
         entries' = media => MediaOK(entries') /\ AppendStep
  PROVE  FileInv' /\ AppendStep
<1>1. UNCHANGED <<handles, descriptors>> /\ (UNCHANGED entries \/ entries' = media)
  BY DEF Attempt, Refuse, fsVars
<1> QED
  BY <1>1, TableKept, MediaKept, Together

LEMMA RefuseStep ==
  ASSUME FileInv, Refuse
  PROVE  FileInv' /\ AppendStep
<1>1. UNCHANGED <<handles, descriptors, entries>>
  BY DEF Refuse, fsVars
<1> QED
  BY <1>1, TableKept, MediaKept, Together

LEMMA NameSteps ==
  ASSUME FileInv, NEW name, Unlink(name) \/ Mkdir(name) \/ Rmdir(name) \/ Chdir(name)
  PROVE  FileInv' /\ AppendStep
<1>1. CASE Unlink(name) \/ Rmdir(name)
  <2>1. PICK error, o : Attempt(error, Deleted(o))
    BY <1>1, Zenon DEF Unlink, Rmdir
  <2> QED
    BY <2>1, AttemptStep, DeletedStep
<1>2. CASE Mkdir(name)
  <2>1. PICK error : Attempt(error, Created("dir", name.path))
    BY <1>2, Zenon DEF Mkdir
  <2> QED
    BY <2>1, AttemptStep, CreatedStep
<1>3. CASE Chdir(name)
  <2>1. Refuse \/ UNCHANGED <<entries, handles, descriptors>>
    BY <1>3 DEF Chdir
  <2> QED
    BY <2>1, RefuseStep, TableKept, MediaKept, Together
<1> QED
  BY <1>1, <1>2, <1>3

-----------------------------------------------------------------------------
(* _rename *)

LEMMA MigrateKeeps ==
  ASSUME FileInv, MigratePaths, UNCHANGED handles
  PROVE  Table'
<1>1. /\ DOMAIN handles = Files /\ DOMAIN descriptors = Files
      /\ \A c \in Files : SlotOK(handles[c], descriptors[c])
  BY TableBySlots DEF FileInv, Table
<1>2. DOMAIN descriptors' = Files
  BY DEF MigratePaths
<1>3. ASSUME NEW c \in Files
      PROVE  \/ descriptors'[c] = descriptors[c]
             \/ \E p : descriptors'[c] = WithPath(descriptors[c], p)
  BY Zenon DEF MigratePaths, WithPath
<1>4. ASSUME NEW c \in Files
      PROVE  SlotOK(handles'[c], descriptors'[c])
  <2>1. CASE descriptors'[c] = descriptors[c]
    BY <1>1, <2>1
  <2>2. CASE \E p : descriptors'[c] = WithPath(descriptors[c], p)
    <3>1. PICK p : descriptors'[c] = WithPath(descriptors[c], p)
      BY <2>2
    <3>2. SlotOK(handles[c], descriptors[c])
      BY <1>1
    <3>3. /\ DescriptorOK(WithPath(descriptors[c], p))
          /\ SameFlags(descriptors[c], WithPath(descriptors[c], p))
          /\ WithPath(descriptors[c], p).open_mode = descriptors[c].open_mode
      BY <3>2, DescriptorPath DEF SlotOK
    <3> QED
      BY <3>1, <3>2, <3>3 DEF SlotOK, SameFlags
  <2> QED
    BY <1>3, <2>1, <2>2
<1> QED
  BY <1>1, <1>2, <1>4, TableBySlotsPrime

LEMMA RenameStep ==
  ASSUME FileInv, NEW old_name, NEW new_name, Rename(old_name, new_name)
  PROVE  FileInv' /\ AppendStep
<1>1. \/ Refuse
      \/ /\ UNCHANGED <<entries, descriptors>>
         /\ UNCHANGED handles \/ handles' = Flushed(Media(old_name.path))
  BY DEF Rename, fsVars
<1> QED
  BY <1>1, RefuseStep, TableKept, FlushKeeps, MediaKept, Together

LEMMA RenameParts ==
  ASSUME FileInv, RenameBackup \/ RenameMove \/ RenameRestore \/ RenameDelete
  PROVE  FileInv' /\ AppendStep
<1>1. CASE RenameBackup
  <2>1. /\ UNCHANGED <<handles, descriptors>>
        /\ UNCHANGED entries \/ \E backup : entries' = Moved(rename.new, backup)
    BY <1>1, Zenon DEF RenameBackup, fsVars
  <2> QED
    BY <2>1, TableKept, MediaKept, MovedStep, Together
<1>2. CASE RenameMove
  <2>1. /\ UNCHANGED handles
        /\ UNCHANGED descriptors \/ MigratePaths
        /\ UNCHANGED entries \/ entries' = Moved(rename.old, rename.new)
    BY <1>2, Zenon DEF RenameMove
  <2> QED
    BY <2>1, TableKept, MigrateKeeps, MediaKept, MovedStep, Together
<1>3. CASE RenameRestore
  <2>1. /\ UNCHANGED <<handles, descriptors>>
        /\ UNCHANGED entries \/ entries' = Moved(rename.backup, rename.new)
    BY <1>3, Zenon DEF RenameRestore, fsVars
  <2> QED
    BY <2>1, TableKept, MediaKept, MovedStep, Together
<1>4. CASE RenameDelete
  <2>1. /\ UNCHANGED handles /\ MigratePaths
        /\ UNCHANGED entries \/ entries' = Deleted(ObjectAt(rename.backup))
    BY <1>4, Zenon DEF RenameDelete
  <2> QED
    BY <2>1, MigrateKeeps, MediaKept, DeletedStep, Together
<1> QED
  BY <1>1, <1>2, <1>3, <1>4

-----------------------------------------------------------------------------
(* _open *)

\* The descriptor _open starts from.
NewDescriptor(flags, path, position, o) ==
  [NoDescriptor EXCEPT
     !.allocated = TRUE,
     !.readable = flags.access # "O_WRONLY",
     !.writable = flags.access # "O_RDONLY",
     !.append = flags.append,
     !.path = path,
     !.position = position,
     !.object = o]

LEMMA NewDescriptorOK ==
  ASSUME NEW flags, NEW path, NEW position \in Nat, NEW o,
         NEW x, x = NewDescriptor(flags, path, position, o)
  PROVE  /\ DescriptorOK(x) /\ x.open_mode = Closed
         /\ x.allocated /\ (x.readable \/ x.writable)
         /\ Allows(x, IF x.writable THEN "write" ELSE "read")
<1>1. PICK n, r, w, a : n = NoDescriptor /\ r = (flags.access # "O_WRONLY")
                        /\ w = (flags.access # "O_RDONLY") /\ a = TRUE
  OBVIOUS
<1>2. PICK f : f = flags.append
  OBVIOUS
<1>3. IsDescriptor(n) /\ n.open_mode = Closed
  BY <1>1 DEF NoDescriptor, IsDescriptor
<1>4. x = [n EXCEPT !.allocated = a, !.readable = r, !.writable = w, !.append = f,
                    !.path = path, !.position = position, !.object = o]
  BY <1>1, <1>2, Zenon DEF NewDescriptor
<1>5. /\ IsDescriptor(x) /\ x.open_mode = Closed /\ x.position = position
      /\ x.allocated = a /\ x.readable = r /\ x.writable = w
  BY <1>3, <1>4 DEF IsDescriptor
<1>6. DescriptorOK(x)
  BY <1>5 DEF DescriptorOK
<1>7. x.allocated /\ (x.readable \/ x.writable)
  BY <1>1, <1>5
<1>8. Allows(x, IF x.writable THEN "write" ELSE "read")
  BY <1>7 DEF Allows
<1> QED
  BY <1>5, <1>6, <1>7, <1>8

LEMMA NewDescriptorPath ==
  ASSUME NEW flags, NEW path, NEW position, NEW o
  PROVE  /\ NewDescriptor(flags, path, position, o).path = path
         /\ NewDescriptor(flags, path, position, o).object = o
<1>1. PICK n, r, w, f : /\ n = NoDescriptor /\ r = (flags.access # "O_WRONLY")
                        /\ w = (flags.access # "O_RDONLY") /\ f = flags.append
  OBVIOUS
<1>2. IsDescriptor(n)
  BY <1>1 DEF NoDescriptor, IsDescriptor
<1>3. PICK a : a = TRUE
  OBVIOUS
<1>4. PICK x : x = [n EXCEPT !.allocated = a, !.readable = r, !.writable = w, !.append = f,
                             !.path = path, !.position = position, !.object = o]
  OBVIOUS
<1>5. x.path = path /\ x.object = o
  BY <1>2, <1>4 DEF IsDescriptor
<1> QED
  BY <1>1, <1>3, <1>4, <1>5, Zenon DEF NewDescriptor

\* The checks that come before anything changes leave a free slot and, for a new file,
\* room on the media.
LEMMA OpenRefusedOK ==
  ASSUME NEW name, NEW flags, OpenRefused(name, flags) = OK
  PROVE  /\ FreeSlots # {}
         /\ ObjectAt(name.path) = NoObject => Unused # {}
<1> DEFINE found == information_error(name.path)
<1>1. FreeSlots # {} /\ ~virtual_root(name.path)
  BY DEF OpenRefused, FirstError, OK
<1>2. found # OK => CreateError(name.path) = OK
  BY DEF OpenRefused, FirstError, OK
<1>3. CreateError(name.path) = OK => Unused # {}
  BY DEF CreateError, OK
<1>4. ObjectAt(name.path) = NoObject => found # OK
  BY <1>1 DEF information_error, FirstError, OK
<1> QED
  BY <1>1, <1>2, <1>3, <1>4

\* What switch_mode opens is an object of the media.
LEMMA ReopenObject ==
  ASSUME NEW media, NEW d, NEW x, NEW mode, NEW r \in Reopen(media, d, x, mode),
         r.error = OK
  PROVE  ObjectIn(media, x.path) \in Objects
<1> DEFINE refused == OpenError(media, d, x.path, mode)
<1>1. refused # OK => r.error = refused
  <2>1. refused # OK => r = Outcome(NoHandle, x, refused)
    BY Zenon DEF Reopen
  <2> HIDE DEF refused
  <2> QED
    BY <2>1, OutcomeFields
<1>2. refused = OK
  BY <1>1
<1>3. PICK o : o = ObjectIn(media, x.path)
  OBVIOUS
<1>4. refused = IF o \notin Objects THEN "ENOENT"
                ELSE IF media[o].kind = "dir" THEN "EISDIR"
                ELSE IF media[o].stale THEN "EIO"
                ELSE IF Conflict(d, o, mode) THEN "EACCES"
                ELSE OK
  BY <1>3, Zenon DEF OpenError
<1>5. "ENOENT" # OK
  BY DEF OK
<1> QED
  BY <1>2, <1>3, <1>4, <1>5, Zenon

LEMMA ReopenOutcome ==
  ASSUME NEW media, NEW d, NEW x, NEW mode, NEW r \in Reopen(media, d, x, mode)
  PROVE  IsOutcome(r)
<1>1. \E h, y, e : r = Outcome(h, y, e)
  BY Zenon DEF Reopen
<1> QED
  BY <1>1, OutcomeFields

\* fx_file_extended_truncate_release of a file that is to be emptied.
Emptied(r) ==
  Outcome([r.handle EXCEPT !.offset = 0, !.modified = TRUE],
          [r.descriptor EXCEPT !.position = 0], OK)

LEMMA EmptiedGood ==
  ASSUME NEW x, NEW r, Good(r, x)
  PROVE  Good(Emptied(r), x)
<1>1. PICK z, b : z = 0 /\ b = TRUE
  OBVIOUS
<1>2. Emptied(r) = Outcome(Marked(AtOffset(r.handle, z), b), AtPosition(r.descriptor, z), OK)
  BY <1>1, Zenon DEF Emptied, Marked, AtOffset, AtPosition
<1>3. HandleOK(AtOffset(r.handle, z)) /\ AtOffset(r.handle, z).mode = r.handle.mode
  BY <1>1, HandleOffset DEF Good
<1>4. /\ HandleOK(Marked(AtOffset(r.handle, z), b))
      /\ Marked(AtOffset(r.handle, z), b).mode = r.handle.mode
  BY <1>3, HandleModified
<1>5. /\ DescriptorOK(AtPosition(r.descriptor, z))
      /\ Same(r.descriptor, AtPosition(r.descriptor, z))
      /\ AtPosition(r.descriptor, z).open_mode = r.descriptor.open_mode
  BY <1>1, DescriptorPosition DEF Good
<1>6. Same(x, AtPosition(r.descriptor, z)) /\ r.handle.mode = r.descriptor.open_mode
  BY <1>5, SameTransitive DEF Good
<1> QED
  BY <1>2, <1>4, <1>5, <1>6, MakeGood, GoodModes

LEMMA OpenedBy ==
  ASSUME NEW media, NEW d, NEW x, NEW flags, NEW r \in OpenOutcomes(media, d, x, flags)
  PROVE  \E q \in Reopen(media, d, x, IF x.writable THEN "write" ELSE "read") :
           \/ r = q /\ (q.error # OK \/ ~(x.writable /\ flags.trunc))
           \/ q.error = OK /\ x.writable /\ flags.trunc /\ r = Emptied(q)
           \/ q.error = OK /\ \E e \in Io \ {OK} : r = WithError(q, e)
<1> DEFINE After(q) ==
             IF q.error # OK \/ ~(x.writable /\ flags.trunc) THEN {q}
             ELSE {Emptied(q)} \cup {[q EXCEPT !.error = e] : e \in Io \ {OK}}
<1>1. OpenOutcomes(media, d, x, flags) =
        UNION {After(q) : q \in Reopen(media, d, x, IF x.writable THEN "write" ELSE "read")}
  BY Zenon DEF OpenOutcomes, Emptied
<1>2. \A q : r \in After(q) => \/ r = q /\ (q.error # OK \/ ~(x.writable /\ flags.trunc))
                               \/ q.error = OK /\ x.writable /\ flags.trunc /\ r = Emptied(q)
                               \/ q.error = OK /\ \E e \in Io \ {OK} : r = WithError(q, e)
  BY Zenon DEF WithError
<1> HIDE DEF After
<1> QED
  BY <1>1, <1>2, Zenon

LEMMA OpenStep ==
  ASSUME FileInv, NEW name, NEW flags, Open(name, flags)
  PROVE  FileInv' /\ AppendStep
<1> DEFINE path == name.path
           slot == Min(FreeSlots)
           exists == ObjectAt(path) # NoObject
           o == IF exists THEN ObjectAt(path) ELSE Min(Unused)
           media == IF exists THEN entries ELSE Created("file", path)
           position == IF flags.append THEN Len(media[o].data) ELSE 0
           fresh == NewDescriptor(flags, path, position, o)
           mode == IF fresh.writable THEN "write" ELSE "read"
<1>1. PICK r \in OpenOutcomes(media, slot, fresh, flags) :
        /\ IF r.error = OK
             THEN /\ handles' = [handles EXCEPT ![slot] = r.handle]
                  /\ descriptors' = [descriptors EXCEPT ![slot] = r.descriptor]
             ELSE /\ handles' = [handles EXCEPT ![slot] = CloseOnFailure(r.handle)]
                  /\ UNCHANGED descriptors
        /\ entries' = IF r.error = OK /\ r.descriptor.writable /\ flags.trunc
                        THEN [media EXCEPT ![o].data = <<>>]
                        ELSE media
  BY Zenon DEF Open, NewDescriptor
<1> HIDE DEF path, slot, exists, o, media, position, fresh
<1>2. PICK q \in Reopen(media, slot, fresh, mode) :
        \/ r = q
        \/ q.error = OK /\ r = Emptied(q)
        \/ q.error = OK /\ \E e \in Io \ {OK} : r = WithError(q, e)
  BY OpenedBy DEF mode
<1> HIDE DEF mode
<1>3. /\ FreeSlots # {}
      /\ ~exists => Unused # {}
  BY OpenRefusedOK, Zenon DEF Open, exists, path
<1>4. slot \in Files /\ ~descriptors[slot].allocated
  <2>1. FreeSlots \in SUBSET Nat
    BY FilesystemAssumption DEF FreeSlots
  <2>2. slot \in FreeSlots
    BY <1>3, <2>1, MinIsMember, Zenon DEF slot
  <2> QED
    BY <2>2 DEF FreeSlots
<1>5. ~exists => o \in Objects
  <2>1. Unused \in SUBSET Nat /\ Unused \subseteq Objects
    BY FilesystemAssumption DEF Unused
  <2>2. ~exists => Min(Unused) \in Unused
    BY <1>3, <2>1, MinIsMember, Zenon
  <2> QED
    BY <2>1, <2>2 DEF o
<1>6. /\ MediaOK(media)
      /\ \A x \in Objects : media[x].data = entries[x].data \/ media[x].data = <<>>
  <2>1. CASE exists
    BY <2>1 DEF FileInv, media
  <2>2. CASE ~exists
    BY <2>2, CreatedMedia, Zenon DEF media
  <2> QED
    BY <2>1, <2>2
<1>7. fresh.path = path
  BY NewDescriptorPath DEF fresh
<1>8. exists => o = ObjectIn(media, path)
  BY Zenon DEF ObjectAt, o, media
<1>9. CASE r.error # OK
  <2>1. SlotOK(NoHandle, descriptors[slot])
    <3>1. SlotOK(handles[slot], descriptors[slot])
      BY <1>4, TableBySlots DEF FileInv, Table
    <3> QED
      BY <1>4, <3>1, NoHandleOK DEF SlotOK, Closed
  <2>2. /\ handles' = [handles EXCEPT ![slot] = NoHandle]
        /\ descriptors' = descriptors /\ entries' = media
    BY <1>1, <1>9, Zenon DEF CloseOnFailure
  <2>3. Table'
    BY <1>4, <2>1, <2>2, SlotKeeps
  <2>4. MediaOK(entries') /\ AppendStep
    BY <1>6, <2>2, EmptiedStep, Zenon
  <2> QED
    BY <2>3, <2>4, Together
<1>10. CASE r.error = OK
  <2>1. q.error = OK /\ (r = q \/ r = Emptied(q))
    <3>1. \A e : WithError(q, e).error = e
      BY ReopenOutcome, OutcomeSet, OutcomeFields
    <3>2. \A e \in Io \ {OK} : r # WithError(q, e)
      BY <1>10, <3>1
    <3>3. r = q => q.error = OK
      BY <1>10
    <3> QED
      BY <1>2, <3>2, <3>3, Zenon
  <2>2. o \in Objects
    BY <1>5, <1>7, <1>8, <2>1, ReopenObject
  <2>3. position \in Nat
    <3>1. Len(media[o].data) \in Nat
      BY <1>6, <2>2 DEF MediaOK, EntryOK, IsSequence
    <3> QED
      BY <3>1 DEF position
  <2>4. /\ DescriptorOK(fresh) /\ fresh.open_mode = Closed /\ fresh.allocated
        /\ fresh.readable \/ fresh.writable
        /\ Allows(fresh, mode)
    BY <2>3, NewDescriptorOK, Zenon DEF mode, fresh
  <2>5. Good(q, fresh)
    BY <1>6, <2>4, ReopenGood
  <2>6. Good(r, fresh)
    BY <2>1, <2>5, EmptiedGood
  <2>7. SlotOK(r.handle, r.descriptor)
    BY <2>4, <2>6 DEF Good, Same, SameFlags, SlotOK
  <2>8. /\ handles' = [handles EXCEPT ![slot] = r.handle]
        /\ descriptors' = [descriptors EXCEPT ![slot] = r.descriptor]
        /\ entries' = media \/ entries' = WithData(media, o, <<>>)
    BY <1>1, <1>10, Zenon DEF WithData
  <2>9. Table'
    BY <1>4, <2>7, <2>8, SlotKeeps
  <2>10. /\ MediaOK(entries')
         /\ \A x \in Objects : entries'[x].data = entries[x].data \/ entries'[x].data = <<>>
    <3>1. /\ MediaOK(WithData(media, o, <<>>))
          /\ \A x \in Objects : WithData(media, o, <<>>)[x].data =
                                  IF x = o THEN <<>> ELSE media[x].data
      BY <1>6, EmptyData, MediaData
    <3> QED
      BY <1>6, <2>8, <3>1, Zenon
  <2> QED
    BY <2>9, <2>10, EmptiedStep, Together, Zenon
<1> QED
  BY <1>9, <1>10

-----------------------------------------------------------------------------
(* The theorems about the descriptor table *)

LEMMA InitFile == Init => FileInv
<1> SUFFICES ASSUME Init PROVE FileInv
  OBVIOUS
<1>1. MediaOK(entries)
  BY FreeOK DEF Init, MediaOK
<1>2. SlotOK(NoHandle, NoDescriptor)
  <2>1. DescriptorOK(NoDescriptor) /\ NoDescriptor.open_mode = Closed /\ ~NoDescriptor.allocated
    BY DEF NoDescriptor, DescriptorOK, IsDescriptor
  <2> QED
    BY <2>1, NoHandleOK DEF SlotOK, Closed
<1>3. Table
  BY <1>2, TableBySlots DEF Init
<1> QED
  BY <1>1, <1>3 DEF FileInv, Table

LEMMA DescriptorStep ==
  ASSUME FileInv, DescriptorCall
  PROVE  FileInv' /\ AppendStep
<1>1. PICK d \in Files :
        \/ Close(d) \/ Fsync(d) \/ BadDescriptor(d)
        \/ \E length \in Lengths : Read(d, length) \/ Write(d, length) \/ Ftruncate(d, length)
        \/ \E offset \in Offsets, origin \in {"SEEK_SET", "SEEK_CUR", "SEEK_END"} :
             Lseek(d, offset, origin)
  BY Zenon DEF DescriptorCall
<1>2. CASE Close(d)
  BY <1>2, CloseStep
<1>3. CASE Fsync(d)
  BY <1>3, FsyncStep
<1>4. CASE BadDescriptor(d)
  BY <1>4, RefuseStep DEF BadDescriptor
<1>5. CASE \E length \in Lengths : Read(d, length) \/ Write(d, length) \/ Ftruncate(d, length)
  <2>1. PICK length \in Nat : Read(d, length) \/ Write(d, length) \/ Ftruncate(d, length)
    BY <1>5, FilesystemAssumption
  <2> QED
    BY <2>1, ReadStep, WriteStep, FtruncateStep
<1>6. CASE \E offset \in Offsets, origin \in {"SEEK_SET", "SEEK_CUR", "SEEK_END"} :
             Lseek(d, offset, origin)
  <2>1. PICK offset \in Int, origin \in {"SEEK_SET", "SEEK_CUR", "SEEK_END"} :
          Lseek(d, offset, origin)
    BY <1>6, FilesystemAssumption
  <2> QED
    BY <2>1, LseekStep
<1> QED
  BY <1>1, <1>2, <1>3, <1>4, <1>5, <1>6

\* The calls on paths keep FileInv and the data of append descriptors.
LEMMA PathStep ==
  ASSUME FileInv, PathCall
  PROVE  FileInv' /\ AppendStep
<1>1. PICK path :
        \/ \E flags : Open(path, flags) \/ OpenFails(path, flags)
        \/ Unlink(path) \/ Mkdir(path) \/ Rmdir(path) \/ Chdir(path)
        \/ \E new_path : Rename(path, new_path)
  BY Zenon DEF PathCall
<1>2. CASE \E flags : Open(path, flags) \/ OpenFails(path, flags)
  BY <1>2, OpenStep, RefuseStep DEF OpenFails
<1>3. CASE Unlink(path) \/ Mkdir(path) \/ Rmdir(path) \/ Chdir(path)
  BY <1>3, NameSteps
<1>4. CASE \E new_path : Rename(path, new_path)
  BY <1>4, RenameStep
<1> QED
  BY <1>1, <1>2, <1>3, <1>4

\* Every step keeps FileInv and does what AppendNeverOverwrites asks of it.
LEMMA NextFile == FileInv /\ [Next]_vars => FileInv' /\ AppendStep
<1> SUFFICES ASSUME FileInv, [Next]_vars PROVE FileInv' /\ AppendStep
  OBVIOUS
<1>1. CASE DescriptorCall
  BY <1>1, DescriptorStep
<1>2. CASE PathCall
  BY <1>2, PathStep
<1>3. CASE RenameBackup \/ RenameMove \/ RenameRestore \/ RenameDelete
  BY <1>3, RenameParts
<1>4. CASE UNCHANGED vars
  <2>1. UNCHANGED <<entries, handles, descriptors>>
    BY <1>4 DEF vars, fsVars
  <2> QED
    BY <2>1, TableKept, MediaKept, Together
<1> QED
  BY <1>1, <1>2, <1>3, <1>4 DEF Next

\* FileInv is inductive: through every call and every failing FileX call inside one, the
\* records of the table keep their form, positions and offsets are never negative, an
\* open handle is on an object of the media and a free slot has no open handle.
THEOREM FileInvariant == Spec => []FileInv
<1>1. Init => FileInv
  BY InitFile
<1>2. FileInv /\ [Next]_vars => FileInv'
  BY NextFile
<1> QED
  BY <1>1, <1>2, PTL DEF Spec

\* What the adapter believes of its handles is what FileX has, for any table, any media
\* and any arguments: no path through _open, switch_mode or _close forgets an open
\* FX_FILE or takes a closed one for open.
THEOREM HandlesStayTracked == Spec => []HandlesAreTracked
<1>1. FileInv => HandlesAreTracked
  BY DEF FileInv
<1> QED
  BY <1>1, FileInvariant, PTL

\* A write through a descriptor opened with O_APPEND replaces no byte that was there,
\* for any number of descriptors and after any sequence of seeks and truncations.
THEOREM AppendsKeepData == Spec => AppendNeverOverwrites
<1>1. FileInv /\ [Next]_vars => AppendStep
  BY NextFile
<1>2. AppendStep =>
        \A o \in Objects : \A i \in DOMAIN entries[o].data \cap DOMAIN entries'[o].data :
          LET byte == entries'[o].data[i]
          IN  byte # entries[o].data[i] => byte # 0 /\ ~descriptors[byte].append
  BY Zenon DEF AppendStep, Appended
<1> QED
  BY <1>1, <1>2, FileInvariant, PTL DEF Spec, AppendNeverOverwrites

-----------------------------------------------------------------------------
(* Induction on the length of a path *)

\* A set of numbers that holds 0 and the successor of each member holds them all.
LEMMA NumbersBySteps ==
  ASSUME NEW S \in SUBSET Nat, 0 \in S, \A n \in S : n + 1 \in S
  PROVE  S = Nat
<1> DEFINE R == OpToRel(<, Nat)
           T == Nat \ S
<1>1. IsWellFoundedOn(R, Nat)
  BY NatLessThanWellFounded
<1>2. \A x, y \in Nat : x < y => <<x, y>> \in R
  BY DEF OpToRel
<1> HIDE DEF R
<1> SUFFICES ASSUME T # {} PROVE FALSE
  OBVIOUS
<1>3. PICK x \in T : \A y \in T : ~(<<y, x>> \in R)
  BY <1>1, WFMin
<1>4. x \in Nat /\ x # 0
  OBVIOUS
<1>5. x - 1 \in Nat /\ x - 1 < x
  BY <1>4
<1>6. x - 1 \in S
  BY <1>2, <1>3, <1>4, <1>5
<1>7. (x - 1) + 1 \in S
  BY <1>6
<1> QED
  BY <1>4, <1>7

-----------------------------------------------------------------------------
(* Sequences *)

\* A sequence is one over the set of its elements.
LEMMA SequenceIn ==
  ASSUME NEW s, IsSequence(s)
  PROVE  \E S : s \in Seq(S)
<1> DEFINE S == {s[i] : i \in 1 .. Len(s)}
<1>1. \A i \in 1 .. Len(s) : s[i] \in S
  OBVIOUS
<1> HIDE DEF S
<1>2. s \in [1 .. Len(s) -> S] /\ Len(s) \in Nat
  BY <1>1 DEF IsSequence
<1>3. s \in Seq(S)
  BY <1>2
<1> QED
  BY <1>3

\* Any member of Seq is a sequence.
LEMMA InSequence ==
  ASSUME NEW S, NEW s \in Seq(S)
  PROVE  IsSequence(s) /\ DOMAIN s = 1 .. Len(s)
BY DEF IsSequence

\* Two sequences are over one set.
LEMMA SequencesIn ==
  ASSUME NEW s, IsSequence(s), NEW t, IsSequence(t)
  PROVE  \E S : s \in Seq(S) /\ t \in Seq(S)
<1>1. PICK S, T : s \in Seq(S) /\ t \in Seq(T)
  BY SequenceIn
<1>2. S \subseteq S \cup T /\ T \subseteq S \cup T
  OBVIOUS
<1>3. s \in Seq(S \cup T) /\ t \in Seq(S \cup T)
  BY <1>1, <1>2, SeqMonotonic
<1> QED
  BY <1>3

\* The elements of a concatenation.
LEMMA Joined ==
  ASSUME NEW s, IsSequence(s), NEW t, IsSequence(t)
  PROVE  /\ IsSequence(s \o t) /\ Len(s \o t) = Len(s) + Len(t)
         /\ \A i \in 1 .. Len(s) + Len(t) :
              (s \o t)[i] = IF i <= Len(s) THEN s[i] ELSE t[i - Len(s)]
<1>1. PICK S : s \in Seq(S) /\ t \in Seq(S)
  BY SequencesIn
<1>2. /\ s \o t \in Seq(S) /\ Len(s \o t) = Len(s) + Len(t)
      /\ \A i \in 1 .. Len(s) + Len(t) :
           (s \o t)[i] = IF i <= Len(s) THEN s[i] ELSE t[i - Len(s)]
  BY <1>1, ConcatProperties, Zenon
<1> QED
  BY <1>2, InSequence

\* The elements of a part of a sequence.
LEMMA Part ==
  ASSUME NEW s, IsSequence(s), NEW m \in Nat, m >= 1, NEW n \in Nat, n <= Len(s), m <= n + 1
  PROVE  /\ IsSequence(SubSeq(s, m, n)) /\ Len(SubSeq(s, m, n)) = n - m + 1
         /\ \A i \in 1 .. n - m + 1 : SubSeq(s, m, n)[i] = s[m + i - 1]
<1>1. PICK S : s \in Seq(S)
  BY SequenceIn
<1>2. \A i \in m .. n : s[i] \in S
  BY <1>1
<1>3. /\ SubSeq(s, m, n) \in Seq(S)
      /\ Len(SubSeq(s, m, n)) = IF m <= n THEN n - m + 1 ELSE 0
      /\ \A i \in 1 .. n - m + 1 : SubSeq(s, m, n)[i] = s[m + i - 1]
  <2>1. m \in Int /\ n \in Int
    OBVIOUS
  <2> QED
    BY <1>2, <2>1, SubSeqProperties
<1>4. Len(SubSeq(s, m, n)) = n - m + 1
  BY <1>3
<1> QED
  BY <1>3, <1>4, InSequence

\* All components but the last.
LEMMA FrontPart ==
  ASSUME NEW s, IsSequence(s), Len(s) >= 1
  PROVE  /\ IsSequence(Front(s)) /\ Len(Front(s)) = Len(s) - 1
         /\ \A i \in 1 .. Len(s) - 1 : Front(s)[i] = s[i]
<1>1. PICK n \in Nat : n = Len(s) - 1
  BY DEF IsSequence
<1>2. n <= Len(s) /\ 1 <= n + 1 /\ n - 1 + 1 = n /\ \A i \in 1 .. n : 1 + i - 1 = i
  BY <1>1 DEF IsSequence
<1>3. /\ IsSequence(SubSeq(s, 1, n)) /\ Len(SubSeq(s, 1, n)) = n
      /\ \A i \in 1 .. n : SubSeq(s, 1, n)[i] = s[i]
  BY <1>2, Part
<1> QED
  BY <1>1, <1>3 DEF Front

-----------------------------------------------------------------------------
(* Walking a path *)

\* The objects a path leads through, one for each component.
Walk(media, path) ==
  LET walk[i \in DOMAIN path] ==
        IF i = 1 THEN RootOf(fold_ascii_case(path[1]))
                 ELSE ChildIn(media, walk[i - 1], path[i])
  IN  walk

\* The object at a path is where the walk ends.
LEMMA WalkEnds ==
  ASSUME NEW media, NEW path
  PROVE  ObjectIn(media, path) = Walk(media, path)[Len(path)]
BY Zenon DEF ObjectIn, Walk

\* The i-th object of a walk, given what f says of i - 1.
WalkStep(media, path, f, i) ==
  IF i = 1 THEN RootOf(fold_ascii_case(path[1])) ELSE ChildIn(media, f[i - 1], path[i])

\* There is a walk along the first n components, for every n.
LEMMA WalkExists ==
  ASSUME NEW media, NEW path
  PROVE  \A n \in Nat : \E f : f = [i \in 1 .. n |-> WalkStep(media, path, f, i)]
<1> DEFINE S == {n \in Nat : \E f : f = [i \in 1 .. n |-> WalkStep(media, path, f, i)]}
<1>1. 0 \in S
  <2>1. PICK f : f = [i \in 1 .. 0 |-> 0]
    OBVIOUS
  <2>2. f = [i \in 1 .. 0 |-> WalkStep(media, path, f, i)]
    BY <2>1
  <2> QED
    BY <2>2
<1>2. ASSUME NEW n \in Nat, NEW f, f = [i \in 1 .. n |-> WalkStep(media, path, f, i)]
      PROVE  \E g : g = [i \in 1 .. n + 1 |-> WalkStep(media, path, g, i)]
  <2>1. PICK g : g = [i \in 1 .. n + 1 |->
                        IF i = n + 1 THEN WalkStep(media, path, f, i) ELSE f[i]]
    OBVIOUS
  <2>2. \A i \in 1 .. n : f[i] = WalkStep(media, path, f, i)
    BY <1>2
  <2>3. \A i \in 1 .. n : g[i] = f[i]
    BY <2>1
  <2>4. \A i \in 1 .. n + 1 : i = 1 \/ g[i - 1] = f[i - 1]
    BY <2>3
  <2>5. \A i \in 1 .. n + 1 : WalkStep(media, path, g, i) = WalkStep(media, path, f, i)
    BY <2>4 DEF WalkStep
  <2>6. g[n + 1] = WalkStep(media, path, f, n + 1)
    BY <2>1
  <2>7. \A i \in 1 .. n + 1 : g[i] = WalkStep(media, path, g, i)
    BY <2>2, <2>3, <2>5, <2>6
  <2>8. g = [i \in 1 .. n + 1 |-> g[i]]
    BY <2>1
  <2>9. g = [i \in 1 .. n + 1 |-> WalkStep(media, path, g, i)]
    BY <2>7, <2>8
  <2> QED
    BY <2>9
<1>3. \A n \in S : n + 1 \in S
  BY <1>2
<1> HIDE DEF S
<1>4. S \in SUBSET Nat
  BY DEF S
<1>5. S = Nat
  BY <1>1, <1>3, <1>4, NumbersBySteps
<1> QED
  BY <1>5 DEF S

\* A walk satisfies its recursive definition.
LEMMA WalkDefined ==
  ASSUME NEW media, NEW path, IsSequence(path), NEW i \in 1 .. Len(path)
  PROVE  Walk(media, path)[i] =
           IF i = 1 THEN RootOf(fold_ascii_case(path[1]))
                    ELSE ChildIn(media, Walk(media, path)[i - 1], path[i])
<1>1. PICK f : f = [j \in 1 .. Len(path) |-> WalkStep(media, path, f, j)]
  BY WalkExists DEF IsSequence
<1>2. DOMAIN path = 1 .. Len(path)
  BY DEF IsSequence
<1>3. Walk(media, path) =
        CHOOSE f2 : f2 = [j \in DOMAIN path |-> WalkStep(media, path, f2, j)]
  BY Zenon DEF Walk, WalkStep
<1>4. Walk(media, path) = [j \in DOMAIN path |-> WalkStep(media, path, Walk(media, path), j)]
  <2>1. \E f2 : f2 = [j \in DOMAIN path |-> WalkStep(media, path, f2, j)]
    BY <1>1, <1>2
  <2> QED
    BY <1>3, <2>1, Zenon
<1>5. PICK w : w = Walk(media, path)
  OBVIOUS
<1>6. w[i] = WalkStep(media, path, w, i)
  BY <1>2, <1>4, <1>5
<1> QED
  BY <1>5, <1>6 DEF WalkStep

-----------------------------------------------------------------------------
(* The tree on the media *)

\* What Live and IsDirectory say of the entries, for any media.
LiveIn(media, o) == media[o].kind # "free"
DirectoryIn(media, o) == o < 0 \/ (o > 0 /\ media[o].kind = "dir")

\* o is an entry of the directory parent under the name component, in any spelling.
IsChild(media, parent, component, o) ==
  /\ o \in Objects /\ LiveIn(media, o) /\ media[o].parent = parent
  /\ fold_ascii_case(media[o].name) = fold_ascii_case(component)

\* The kinds of entries.
Kinds(media) == \A o \in Objects : media[o].kind \in {"free", "file", "dir"}

\* An entry is in the root of a volume or in a directory.
Parents(media) ==
  \A o \in Objects :
    LiveIn(media, o) =>
      \/ media[o].parent \in {-1, -2}
      \/ media[o].parent \in Objects /\ media[media[o].parent].kind = "dir"

\* A directory has one entry of each name.
Names(media) ==
  \A o \in Objects :
    LiveIn(media, o) =>
      \A x : IsChild(media, media[o].parent, media[o].name, x) => x = o

\* Whatever part of the tree is taken, its top hangs on something outside it.
Grounded(media) ==
  \A S \in SUBSET Objects :
    S # {} /\ (\A o \in S : LiveIn(media, o)) => \E o \in S : media[o].parent \notin S

\* The tree on the media is whole.
Whole(media) == Kinds(media) /\ Parents(media) /\ Names(media) /\ Grounded(media)

\* The numbers of objects are not NoObject and not those of the roots.
LEMMA ObjectNumbers == Objects \subseteq Nat /\ NoObject \notin Objects /\ NoObject = 0
BY FilesystemAssumption DEF NoObject

LEMMA Roots == \A v : RootOf(v) \in {-1, -2} /\ RootOf(v) \notin Objects /\ RootOf(v) # NoObject
BY ObjectNumbers DEF RootOf

\* The roots of two volumes are two.
LEMMA RootsDiffer ==
  ASSUME NEW u \in Volumes, NEW v \in Volumes, RootOf(u) = RootOf(v)
  PROVE  u = v
BY DEF Volumes, RootOf

\* The entries of the directory parent that have the name component.
Found(media, parent, component) ==
  {o \in Objects : /\ media[o].kind # "free"
                   /\ media[o].parent = parent
                   /\ fold_ascii_case(media[o].name) = fold_ascii_case(component)}

\* ChildIn is the first of them.
LEMMA ChildAmong ==
  ASSUME NEW media, NEW parent, NEW component
  PROVE  ChildIn(media, parent, component) =
           IF Found(media, parent, component) = {} THEN NoObject
                                                   ELSE Min(Found(media, parent, component))
BY Zenon DEF ChildIn, Found

\* They are the children of that name.
LEMMA FoundAre ==
  ASSUME NEW media, NEW parent, NEW component
  PROVE  \A o : o \in Found(media, parent, component) <=> IsChild(media, parent, component, o)
BY DEF Found, IsChild, LiveIn

\* What the search in a directory returns.
LEMMA ChildFound ==
  ASSUME NEW media, NEW parent, NEW component
  PROVE  \/ ChildIn(media, parent, component) = NoObject
         \/ IsChild(media, parent, component, ChildIn(media, parent, component))
<1> DEFINE S == Found(media, parent, component)
<1>1. S \in SUBSET Nat
  BY ObjectNumbers DEF Found
<1>2. S # {} => Min(S) \in S
  BY <1>1, MinIsMember, Zenon
<1> HIDE DEF S
<1>3. ChildIn(media, parent, component) = IF S = {} THEN NoObject ELSE Min(S)
  BY ChildAmong, Zenon DEF S
<1>4. S # {} => IsChild(media, parent, component, Min(S))
  BY <1>2, FoundAre, Zenon DEF S
<1> QED
  BY <1>3, <1>4, Zenon

\* With one entry of each name there is nothing to choose.
LEMMA ChildIs ==
  ASSUME NEW media, Names(media), NEW parent, NEW component, NEW o,
         IsChild(media, parent, component, o)
  PROVE  ChildIn(media, parent, component) = o
<1> DEFINE x == ChildIn(media, parent, component)
           S == Found(media, parent, component)
<1>1. o \in S
  BY FoundAre, Zenon
<1>2. S \in SUBSET Nat
  BY ObjectNumbers DEF Found
<1>3. Min(S) \in S
  BY <1>1, <1>2, MinIsMember, Zenon
<1>4. x = Min(S)
  BY <1>1, ChildAmong, Zenon
<1>5. IsChild(media, parent, component, x)
  BY <1>3, <1>4, FoundAre, Zenon
<1> HIDE DEF x, S
<1>6. IsChild(media, media[o].parent, media[o].name, x)
  BY <1>5 DEF IsChild
<1>7. x = o
  BY <1>6 DEF Names, IsChild
<1> QED
  BY <1>7 DEF x

-----------------------------------------------------------------------------
(* The objects on the way to a path *)

\* w are objects along path, each the child of the one before.
IsChain(media, path, w) ==
  /\ w[1] = RootOf(fold_ascii_case(path[1]))
  /\ \A i \in 2 .. Len(path) : IsChild(media, w[i - 1], path[i], w[i])

\* A path of at least one component, the mount.
IsPlace(path) == IsSequence(path) /\ Len(path) >= 1 /\ Media(path) \in Volumes

\* Past an object that is not there nothing is.
LEMMA WalkStops ==
  ASSUME NEW media, Parents(media), NEW path, IsSequence(path),
         NEW k \in 1 .. Len(path), Walk(media, path)[k] = NoObject
  PROVE  Walk(media, path)[Len(path)] = NoObject
<1> DEFINE w == Walk(media, path)
           S == {n \in Nat : k + n \in 1 .. Len(path) => w[k + n] = NoObject}
<1>1. 0 \in S
  OBVIOUS
<1>2. ASSUME NEW n \in Nat, n \in S PROVE n + 1 \in S
  <2> SUFFICES ASSUME k + (n + 1) \in 1 .. Len(path) PROVE w[k + (n + 1)] = NoObject
    OBVIOUS
  <2>1. PICK j \in 1 .. Len(path) : j = k + (n + 1) /\ j # 1 /\ j - 1 = k + n
    BY DEF IsSequence
  <2>2. k + n \in 1 .. Len(path)
    BY <2>1 DEF IsSequence
  <2>3. w[j - 1] = NoObject
    BY <1>2, <2>1, <2>2
  <2>4. w[j] = ChildIn(media, w[j - 1], path[j])
    BY <2>1, WalkDefined
  <2>5. \A o : ~IsChild(media, NoObject, path[j], o)
    <3>1. \A p : p \in {-1, -2} \/ p \in Objects => p # NoObject
      BY ObjectNumbers
    <3>2. \A o \in Objects : LiveIn(media, o) => media[o].parent # NoObject
      BY <3>1, Zenon DEF Parents
    <3> QED
      BY <3>2, Zenon DEF IsChild
  <2>6. w[j] = NoObject
    BY <2>3, <2>4, <2>5, ChildFound
  <2> QED
    BY <2>1, <2>6
<1> HIDE DEF S
<1>3. S = Nat
  <2>1. S \in SUBSET Nat /\ \A n \in S : n \in Nat
    BY DEF S
  <2> QED
    BY <1>1, <1>2, <2>1, NumbersBySteps
<1>4. PICK n \in Nat : n = Len(path) - k /\ k + n = Len(path)
  BY DEF IsSequence
<1>5. n \in S /\ Len(path) \in 1 .. Len(path)
  BY <1>3 DEF IsSequence
<1> QED
  BY <1>4, <1>5 DEF S

\* The walk to an object that is there is a chain.
LEMMA LeadsAlong ==
  ASSUME NEW media, Parents(media), NEW path, IsSequence(path), Len(path) >= 1,
         ObjectIn(media, path) # NoObject
  PROVE  /\ IsChain(media, path, Walk(media, path))
         /\ Walk(media, path)[Len(path)] = ObjectIn(media, path)
<1> DEFINE w == Walk(media, path)
<1>1. w[Len(path)] = ObjectIn(media, path)
  BY WalkEnds
<1>2. \A k \in 1 .. Len(path) : w[k] # NoObject
  BY <1>1, WalkStops
<1>3. w[1] = RootOf(fold_ascii_case(path[1]))
  <2>1. 1 \in 1 .. Len(path)
    BY DEF IsSequence
  <2> QED
    BY <2>1, WalkDefined
<1>4. ASSUME NEW i \in 2 .. Len(path) PROVE IsChild(media, w[i - 1], path[i], w[i])
  <2>1. i \in 1 .. Len(path) /\ i # 1
    BY DEF IsSequence
  <2>2. w[i] = ChildIn(media, w[i - 1], path[i])
    BY <2>1, WalkDefined
  <2> QED
    BY <1>2, <2>1, <2>2, ChildFound
<1> QED
  BY <1>1, <1>3, <1>4 DEF IsChain

\* Any chain is the one the walk finds.
LEMMA ChainLeads ==
  ASSUME NEW media, Names(media), NEW path, IsSequence(path), Len(path) >= 1,
         NEW w, IsChain(media, path, w)
  PROVE  ObjectIn(media, path) = w[Len(path)]
<1> DEFINE v == Walk(media, path)
           S == {n \in Nat : n + 1 \in 1 .. Len(path) => v[n + 1] = w[n + 1]}
<1>1. 0 \in S
  <2>1. 1 \in 1 .. Len(path)
    BY DEF IsSequence
  <2>2. v[1] = w[1]
    BY <2>1, WalkDefined DEF IsChain
  <2> QED
    BY <2>2
<1>2. ASSUME NEW n \in Nat, n \in S PROVE n + 1 \in S
  <2> SUFFICES ASSUME (n + 1) + 1 \in 1 .. Len(path) PROVE v[(n + 1) + 1] = w[(n + 1) + 1]
    OBVIOUS
  <2>1. PICK j \in 2 .. Len(path) : j = (n + 1) + 1 /\ j # 1 /\ j - 1 = n + 1
    BY DEF IsSequence
  <2>2. n + 1 \in 1 .. Len(path) /\ j \in 1 .. Len(path)
    BY <2>1 DEF IsSequence
  <2>3. v[j - 1] = w[j - 1]
    BY <1>2, <2>1, <2>2
  <2>4. v[j] = ChildIn(media, v[j - 1], path[j])
    BY <2>1, <2>2, WalkDefined
  <2>5. IsChild(media, w[j - 1], path[j], w[j])
    BY DEF IsChain
  <2>6. v[j] = w[j]
    BY <2>3, <2>4, <2>5, ChildIs
  <2> QED
    BY <2>1, <2>6
<1> HIDE DEF S
<1>3. S = Nat
  <2>1. S \in SUBSET Nat /\ \A n \in S : n \in Nat
    BY DEF S
  <2> QED
    BY <1>1, <1>2, <2>1, NumbersBySteps
<1>4. PICK n \in Nat : n = Len(path) - 1 /\ n + 1 = Len(path)
  BY DEF IsSequence
<1>5. n \in S /\ Len(path) \in 1 .. Len(path)
  BY <1>3 DEF IsSequence
<1>6. v[Len(path)] = w[Len(path)]
  BY <1>4, <1>5 DEF S
<1> QED
  BY <1>6, WalkEnds

\* What path_has_prefix compares.
LEMMA PrefixMeans ==
  ASSUME NEW path, NEW prefix, IsSequence(prefix), Len(prefix) >= 1, NEW below
  PROVE  path_has_prefix(path, prefix, below) <=>
           /\ Len(prefix) <= Len(path)
           /\ \A i \in 1 .. Len(prefix) : fold_ascii_case(path[i]) = fold_ascii_case(prefix[i])
           /\ Len(path) = Len(prefix) \/ below
<1>1. DOMAIN prefix = 1 .. Len(prefix)
  BY DEF IsSequence
<1>2. prefix # <<>>
  BY EmptyData
<1> QED
  BY <1>1, <1>2, Zenon DEF path_has_prefix

\* What paths_equal compares.
LEMMA EqualMeans ==
  ASSUME NEW first, NEW second, IsSequence(second), Len(second) >= 1
  PROVE  paths_equal(first, second) <=>
           /\ Len(first) = Len(second) /\ Len(second) <= Len(first)
           /\ \A i \in 1 .. Len(second) : fold_ascii_case(first[i]) = fold_ascii_case(second[i])
<1>1. paths_equal(first, second) = path_has_prefix(first, second, FALSE)
  BY DEF paths_equal
<1>2. \A below : path_has_prefix(first, second, below) <=>
        /\ Len(second) <= Len(first)
        /\ \A i \in 1 .. Len(second) : fold_ascii_case(first[i]) = fold_ascii_case(second[i])
        /\ Len(first) = Len(second) \/ below
  BY PrefixMeans
<1> QED
  BY <1>1, <1>2, Zenon

\* An object is on one path, whatever the spelling.
LEMMA OnePath ==
  ASSUME NEW media, NEW p, IsPlace(p), NEW q, IsPlace(q),
         NEW w, IsChain(media, p, w), NEW v, IsChain(media, q, v)
  PROVE  \A m \in 1 .. Len(p), n \in 1 .. Len(q) :
           w[m] = v[n] =>
             m = n /\ \A i \in 1 .. m : fold_ascii_case(p[i]) = fold_ascii_case(q[i])
<1> SUFFICES ASSUME NEW m \in 1 .. Len(p), NEW n \in 1 .. Len(q), w[m] = v[n]
             PROVE  m = n /\ \A i \in 1 .. m : fold_ascii_case(p[i]) = fold_ascii_case(q[i])
  OBVIOUS
<1> DEFINE Alike(k, j) ==
             j = k /\ \A i \in 1 .. k : fold_ascii_case(p[i]) = fold_ascii_case(q[i])
           S == {k \in Nat : k + 1 \in 1 .. Len(p) =>
                               \A j \in 1 .. Len(q) : w[k + 1] = v[j] => Alike(k + 1, j)}
<1>1. Len(p) \in Nat /\ Len(q) \in Nat
  BY DEF IsPlace, IsSequence
<1>2. w[1] = RootOf(Media(p)) /\ v[1] = RootOf(Media(q))
  BY DEF IsChain, Media
<1>3. /\ \A i \in 2 .. Len(p) : w[i] \in Objects
      /\ \A i \in 2 .. Len(q) : v[i] \in Objects
  BY DEF IsChain, IsChild
<1>4. 0 \in S
  <2> SUFFICES ASSUME NEW j \in 1 .. Len(q), w[1] = v[j] PROVE Alike(1, j)
    OBVIOUS
  <2>1. j = 1
    <3>1. w[1] \notin Objects
      BY <1>2, Roots, Zenon
    <3>2. j # 1 => j \in 2 .. Len(q)
      BY <1>1
    <3> QED
      BY <1>3, <3>1, <3>2
  <2>2. Media(p) = Media(q)
    BY <1>2, <2>1, RootsDiffer DEF IsPlace
  <2> QED
    BY <2>1, <2>2 DEF Media
<1>5. ASSUME NEW k \in Nat, k \in S PROVE k + 1 \in S
  <2> SUFFICES ASSUME (k + 1) + 1 \in 1 .. Len(p), NEW j \in 1 .. Len(q), w[(k + 1) + 1] = v[j]
               PROVE  Alike((k + 1) + 1, j)
    OBVIOUS
  <2>1. PICK c \in 2 .. Len(p) : c = (k + 1) + 1 /\ c - 1 = k + 1
    BY <1>1
  <2>2. w[c] \in Objects /\ w[c] = v[j]
    BY <1>3, <2>1
  <2>3. j \in 2 .. Len(q)
    BY <1>1, <1>2, <2>2, Roots
  <2>4. /\ IsChild(media, w[c - 1], p[c], w[c])
        /\ IsChild(media, v[j - 1], q[j], v[j])
    BY <2>1, <2>3 DEF IsChain
  <2>5. w[c - 1] = v[j - 1] /\ fold_ascii_case(p[c]) = fold_ascii_case(q[j])
    BY <2>2, <2>4 DEF IsChild
  <2>6. k + 1 \in 1 .. Len(p) /\ j - 1 \in 1 .. Len(q)
    BY <1>1, <2>1, <2>3
  <2>7. w[k + 1] = v[j - 1]
    BY <2>1, <2>5
  <2>8. Alike(k + 1, j - 1)
    BY <1>5, <2>6, <2>7, Zenon
  <2>9. j = c
    BY <2>1, <2>3, <2>8
  <2>10. ASSUME NEW i \in 1 .. c PROVE fold_ascii_case(p[i]) = fold_ascii_case(q[i])
    <3>1. i = c \/ i \in 1 .. k + 1
      BY <2>1
    <3> QED
      BY <2>5, <2>8, <2>9, <3>1
  <2> QED
    BY <2>1, <2>9, <2>10
<1> HIDE DEF S
<1>6. S = Nat
  <2>1. S \in SUBSET Nat /\ \A k \in S : k \in Nat
    BY DEF S
  <2> QED
    BY <1>4, <1>5, <2>1, NumbersBySteps
<1>7. PICK k \in Nat : k = m - 1 /\ k + 1 = m
  OBVIOUS
<1>8. k \in S
  BY <1>6
<1> QED
  BY <1>7, <1>8 DEF S

\* Chains that end in one object have one path.
LEMMA SameEnd ==
  ASSUME NEW media, NEW p, IsPlace(p), NEW q, IsPlace(q),
         NEW w, IsChain(media, p, w), NEW v, IsChain(media, q, v)
  PROVE  w[Len(p)] = v[Len(q)] =>
           /\ Len(p) = Len(q)
           /\ \A i \in 1 .. Len(p) : fold_ascii_case(p[i]) = fold_ascii_case(q[i])
<1>1. \A m \in 1 .. Len(p), n \in 1 .. Len(q) :
        w[m] = v[n] => m = n /\ \A i \in 1 .. m : fold_ascii_case(p[i]) = fold_ascii_case(q[i])
  BY OnePath
<1>2. Len(p) \in 1 .. Len(p) /\ Len(q) \in 1 .. Len(q)
  BY DEF IsPlace, IsSequence
<1> QED
  BY <1>1, <1>2, Zenon

\* A path does not lead through an object twice.
LEMMA OncePerPath ==
  ASSUME NEW media, NEW p, IsPlace(p), NEW w, IsChain(media, p, w)
  PROVE  \A m \in 1 .. Len(p), n \in 1 .. Len(p) : w[m] = w[n] => m = n
<1>1. \A m \in 1 .. Len(p), n \in 1 .. Len(p) :
        w[m] = w[n] =>
          m = n /\ \A i \in 1 .. m : fold_ascii_case(p[i]) = fold_ascii_case(p[i])
  BY OnePath
<1> QED
  BY <1>1

\* Paths that begin alike lead the same way.
LEMMA SameWay ==
  ASSUME NEW media, Names(media), NEW p, IsSequence(p), NEW q, IsSequence(q),
         NEW w, IsChain(media, p, w), NEW v, IsChain(media, q, v),
         NEW m \in Nat, m <= Len(p), m <= Len(q),
         \A i \in 1 .. m : fold_ascii_case(p[i]) = fold_ascii_case(q[i])
  PROVE  \A i \in 1 .. m : w[i] = v[i]
<1> DEFINE S == {k \in Nat : k + 1 \in 1 .. m => w[k + 1] = v[k + 1]}
<1>1. Len(p) \in Nat /\ Len(q) \in Nat
  BY DEF IsSequence
<1>2. 0 \in S
  <2> SUFFICES ASSUME 1 \in 1 .. m PROVE w[1] = v[1]
    OBVIOUS
  <2> QED
    BY DEF IsChain
<1>3. ASSUME NEW k \in Nat, k \in S PROVE k + 1 \in S
  <2> SUFFICES ASSUME (k + 1) + 1 \in 1 .. m PROVE w[(k + 1) + 1] = v[(k + 1) + 1]
    OBVIOUS
  <2>1. PICK c \in 2 .. m : c = (k + 1) + 1 /\ c - 1 = k + 1
    OBVIOUS
  <2>2. w[c - 1] = v[c - 1]
    BY <1>3, <2>1
  <2>3. c \in 2 .. Len(p) /\ c \in 2 .. Len(q) /\ c \in 1 .. m
    BY <1>1
  <2>4. /\ IsChild(media, w[c - 1], p[c], w[c])
        /\ IsChild(media, w[c - 1], q[c], v[c])
    BY <2>2, <2>3 DEF IsChain
  <2>5. fold_ascii_case(p[c]) = fold_ascii_case(q[c])
    BY <2>3
  <2>6. IsChild(media, w[c - 1], p[c], v[c])
    BY <2>4, <2>5 DEF IsChild
  <2>7. w[c] = v[c]
    BY <2>4, <2>6, ChildIs
  <2> QED
    BY <2>1, <2>7
<1> HIDE DEF S
<1>4. S = Nat
  <2>1. S \in SUBSET Nat /\ \A k \in S : k \in Nat
    BY DEF S
  <2> QED
    BY <1>2, <1>3, <2>1, NumbersBySteps
<1>5. ASSUME NEW i \in 1 .. m PROVE w[i] = v[i]
  <2>1. PICK k \in Nat : k = i - 1 /\ k + 1 = i
    OBVIOUS
  <2>2. k \in S
    BY <1>4
  <2> QED
    BY <2>1, <2>2 DEF S
<1> QED
  BY <1>5

\* Spelling does not matter.
LEMMA SameObject ==
  ASSUME NEW media, Whole(media), NEW p, IsPlace(p), NEW q, IsPlace(q), paths_equal(p, q)
  PROVE  ObjectIn(media, p) = ObjectIn(media, q)
<1>1. /\ Len(p) = Len(q) /\ Len(q) \in Nat
      /\ \A i \in 1 .. Len(q) : fold_ascii_case(p[i]) = fold_ascii_case(q[i])
  BY EqualMeans DEF IsPlace, IsSequence
<1>2. Parents(media) /\ Names(media)
  BY DEF Whole
<1>3. \A w : IsChain(media, p, w) <=> IsChain(media, q, w)
  <2>1. 1 \in 1 .. Len(q) /\ \A i \in 2 .. Len(q) : i \in 1 .. Len(q)
    BY <1>1 DEF IsPlace
  <2> QED
    BY <1>1, <2>1, Zenon DEF IsChain, IsChild
<1>4. CASE ObjectIn(media, p) # NoObject
  BY <1>1, <1>2, <1>3, <1>4, LeadsAlong, ChainLeads DEF IsPlace
<1>5. CASE ObjectIn(media, q) # NoObject
  BY <1>1, <1>2, <1>3, <1>5, LeadsAlong, ChainLeads DEF IsPlace
<1> QED
  BY <1>4, <1>5

-----------------------------------------------------------------------------
(* Changes of the tree *)

\* The path, walked to its end, does not lead through x.
Avoids(media, path, x) == \A i \in 1 .. Len(path) : Walk(media, path)[i] # x

\* m2 is m1 but for the entry o.
Elsewhere(m1, m2, o) == \A x \in Objects \ {o} : m2[x] = m1[x]

\* A path that does not lead through the entry that changes.
LEMMA WayKept ==
  ASSUME NEW m1, Parents(m1), NEW m2, Names(m2), NEW o, Elsewhere(m1, m2, o),
         NEW path, IsSequence(path), Len(path) >= 1, ObjectIn(m1, path) # NoObject,
         Avoids(m1, path, o)
  PROVE  ObjectIn(m2, path) = ObjectIn(m1, path) /\ IsChain(m2, path, Walk(m1, path))
<1> DEFINE w == Walk(m1, path)
<1>1. IsChain(m1, path, w) /\ w[Len(path)] = ObjectIn(m1, path)
  BY LeadsAlong
<1>2. \A i \in 1 .. Len(path) : w[i] # o
  BY DEF Avoids
<1> HIDE DEF w
<1>3. IsChain(m2, path, w)
  <2>1. \A i \in 2 .. Len(path) : IsChild(m2, w[i - 1], path[i], w[i])
    <3>1. \A i \in 2 .. Len(path) : IsChild(m1, w[i - 1], path[i], w[i]) /\ w[i] # o
      BY <1>1, <1>2 DEF IsChain, IsSequence
    <3> QED
      BY <3>1 DEF IsChild, LiveIn, Elsewhere
  <2> QED
    BY <1>1, <2>1 DEF IsChain
<1>4. ObjectIn(m2, path) = w[Len(path)]
  BY <1>3, ChainLeads
<1> QED
  BY <1>1, <1>3, <1>4 DEF w

\* No entry is in the directory o.
Childless(media, o) == \A x \in Objects : LiveIn(media, x) => media[x].parent # o

\* Nothing leads through an object without children but to it.
LEMMA AvoidsLeaf ==
  ASSUME NEW media, Parents(media), NEW o \in Objects, Childless(media, o),
         NEW path, IsSequence(path), Len(path) >= 1,
         ObjectIn(media, path) # NoObject, ObjectIn(media, path) # o
  PROVE  Avoids(media, path, o)
<1> DEFINE w == Walk(media, path)
<1>1. IsChain(media, path, w) /\ w[Len(path)] = ObjectIn(media, path)
  BY LeadsAlong
<1>2. ASSUME NEW i \in 1 .. Len(path), w[i] = o PROVE FALSE
  <2>1. i # Len(path)
    BY <1>1, <1>2
  <2>2. PICK j \in 2 .. Len(path) : j = i + 1 /\ j - 1 = i
    BY <2>1 DEF IsSequence
  <2>3. IsChild(media, w[j - 1], path[j], w[j])
    BY <1>1 DEF IsChain
  <2>4. IsChild(media, o, path[j], w[j])
    BY <1>2, <2>2, <2>3
  <2> QED
    BY <2>4 DEF IsChild, Childless
<1> QED
  BY <1>2 DEF Avoids

\* A file has no children.
LEMMA FileIsLeaf ==
  ASSUME NEW media, Parents(media), NEW o \in Objects, media[o].kind # "dir"
  PROVE  Childless(media, o)
<1>1. o \notin {-1, -2}
  BY ObjectNumbers
<1> QED
  BY <1>1 DEF Parents, Childless

\* What a path leads to.
LEMMA LeadsTo ==
  ASSUME NEW media, Whole(media), NEW path, IsSequence(path), Len(path) >= 1,
         ObjectIn(media, path) # NoObject
  PROVE  /\ Len(path) = 1 => ObjectIn(media, path) \in {-1, -2}
         /\ Len(path) >= 2 =>
              /\ IsChild(media, ObjectIn(media, Front(path)), Last(path), ObjectIn(media, path))
              /\ ObjectIn(media, Front(path)) # NoObject
<1> DEFINE w == Walk(media, path)
           n == Len(path)
<1>1. IsChain(media, path, w) /\ w[n] = ObjectIn(media, path) /\ n \in Nat
  BY LeadsAlong DEF Whole, IsSequence
<1>2. w[1] \in {-1, -2} /\ w[1] # NoObject
  BY <1>1, Roots DEF IsChain
<1> HIDE DEF w
<1>3. CASE n >= 2
  <2>1. IsChild(media, w[n - 1], path[n], w[n])
    BY <1>1, <1>3 DEF IsChain
  <2>2. /\ IsSequence(Front(path)) /\ Len(Front(path)) = n - 1 /\ n - 1 >= 1
        /\ \A i \in 1 .. n - 1 : Front(path)[i] = path[i]
    BY <1>1, <1>3, FrontPart
  <2>3. IsChain(media, Front(path), w)
    <3>1. Front(path)[1] = path[1]
      BY <1>1, <1>3, <2>2
    <3>2. \A i \in 2 .. n - 1 : i \in 2 .. n /\ Front(path)[i] = path[i]
      BY <1>1, <2>2
    <3> QED
      BY <1>1, <2>2, <3>1, <3>2 DEF IsChain
  <2>4. ObjectIn(media, Front(path)) = w[n - 1]
    BY <2>2, <2>3, ChainLeads DEF Whole
  <2>5. w[n - 1] # NoObject
    <3>1. n - 1 = 1 \/ n - 1 \in 2 .. n
      <4> HIDE DEF n
      <4> QED
        BY <1>1, <1>3
    <3>2. \A i \in 2 .. n : w[i] # NoObject
      BY <1>1, ObjectNumbers DEF IsChain, IsChild
    <3> QED
      BY <1>2, <3>1, <3>2
  <2> QED
    BY <1>1, <1>3, <2>1, <2>4, <2>5 DEF Last
<1> QED
  BY <1>1, <1>2, <1>3

\* A path below a mount.
IsBelow(path) == IsPlace(path) /\ Len(path) >= 2

\* The directory of a path below a mount is a place.
LEMMA FrontPlace ==
  ASSUME NEW path, IsBelow(path)
  PROVE  IsPlace(Front(path)) /\ Len(Front(path)) = Len(path) - 1
<1>1. /\ IsSequence(Front(path)) /\ Len(Front(path)) = Len(path) - 1
      /\ \A i \in 1 .. Len(path) - 1 : Front(path)[i] = path[i]
  BY FrontPart DEF IsBelow, IsPlace
<1>2. Len(path) \in Nat /\ Len(path) >= 2
  BY DEF IsBelow, IsPlace, IsSequence
<1>3. 1 \in 1 .. Len(path) - 1
  BY <1>2
<1>4. Media(Front(path)) = Media(path)
  BY <1>1, <1>3 DEF Media
<1> QED
  BY <1>1, <1>2, <1>4 DEF IsBelow, IsPlace

\* The entry of a directory is at the directory's path with its name.
LEMMA EntryLeads ==
  ASSUME NEW media, Whole(media), NEW path, IsBelow(path),
         ObjectIn(media, Front(path)) # NoObject,
         NEW x, IsChild(media, ObjectIn(media, Front(path)), Last(path), x)
  PROVE  ObjectIn(media, path) = x
<1> DEFINE v == Walk(media, Front(path))
           n == Len(path)
<1>1. n \in Nat /\ n >= 2 /\ IsSequence(path)
  BY DEF IsBelow, IsPlace, IsSequence
<1>2. /\ IsSequence(Front(path)) /\ Len(Front(path)) = n - 1
      /\ \A i \in 1 .. n - 1 : Front(path)[i] = path[i]
  BY <1>1, FrontPart
<1>3. IsChain(media, Front(path), v) /\ v[n - 1] = ObjectIn(media, Front(path))
  BY <1>1, <1>2, LeadsAlong DEF Whole
<1>4. PICK w : w = [i \in 1 .. n |-> IF i = n THEN x ELSE v[i]]
  OBVIOUS
<1> HIDE DEF v, n
<1>5. w[n] = x /\ w[1] = v[1] /\ \A i \in 1 .. n - 1 : w[i] = v[i]
  BY <1>1, <1>4
<1>6. IsChain(media, path, w)
  <2>1. Front(path)[1] = path[1]
    BY <1>1, <1>2
  <2>2. ASSUME NEW i \in 2 .. n PROVE IsChild(media, w[i - 1], path[i], w[i])
    <3>1. CASE i = n
      <4>1. w[i - 1] = ObjectIn(media, Front(path)) /\ path[i] = Last(path) /\ w[i] = x
        BY <1>1, <1>3, <1>5, <3>1 DEF Last, n
      <4> QED
        BY <4>1
    <3>2. CASE i # n
      <4>1. i \in 2 .. n - 1 /\ i - 1 \in 1 .. n - 1 /\ i \in 1 .. n - 1
        BY <1>1, <3>2
      <4>2. IsChild(media, v[i - 1], Front(path)[i], v[i])
        BY <1>2, <1>3, <4>1 DEF IsChain
      <4> QED
        BY <1>2, <1>5, <4>1, <4>2
    <3> QED
      BY <3>1, <3>2
  <2> QED
    BY <1>3, <1>5, <2>1, <2>2 DEF IsChain, n
<1> QED
  BY <1>1, <1>5, <1>6, ChainLeads DEF Whole, n

\* o comes to path to: a new entry, or one that was elsewhere.
Puts(m1, m2, to, o) ==
  /\ IsBelow(to) /\ o \in Objects
  /\ ObjectIn(m1, to) \in {NoObject, o}
  /\ DirectoryIn(m1, ObjectIn(m1, Front(to)))
  /\ Avoids(m1, Front(to), o)
  /\ Elsewhere(m1, m2, o)
  /\ m2[o].kind \in {"file", "dir"}
  /\ LiveIn(m1, o) => m2[o].kind = m1[o].kind
  /\ m2[o].parent = ObjectIn(m1, Front(to))
  /\ m2[o].name = Last(to)

\* A directory of the media.
LEMMA DirectoryMeans ==
  ASSUME NEW media, NEW o \in Objects
  PROVE  DirectoryIn(media, o) <=> media[o].kind = "dir"
<1>1. o \in Nat /\ o # 0
  BY ObjectNumbers
<1>2. o > 0 /\ ~(o < 0)
  BY <1>1
<1> QED
  BY <1>2, Zenon DEF DirectoryIn

\* The directory that o comes to is not o, and nothing else in it has o's name.
LEMMA PutParent ==
  ASSUME NEW m1, Whole(m1), NEW m2, NEW to, NEW o, Puts(m1, m2, to, o)
  PROVE  LET p == ObjectIn(m1, Front(to))
         IN  /\ p # NoObject
             /\ p \in {-1, -2} \/ (p \in Objects /\ p # o /\ m1[p].kind = "dir")
             /\ \A x : IsChild(m1, p, Last(to), x) => x = o
<1> DEFINE p == ObjectIn(m1, Front(to))
<1>1. IsPlace(Front(to)) /\ Len(Front(to)) = Len(to) - 1
  BY FrontPlace DEF Puts
<1>2. p # NoObject
  BY DEF Puts, DirectoryIn, NoObject
<1>3. p \in {-1, -2} \/ p \in Objects
  <2>1. Len(Front(to)) = 1 \/ Len(Front(to)) >= 2
    BY <1>1 DEF IsPlace, IsSequence
  <2> QED
    BY <1>1, <1>2, <2>1, LeadsTo DEF IsPlace, IsChild
<1>4. p \in Objects => m1[p].kind = "dir" /\ p # o
  <2>1. p \in Objects => m1[p].kind = "dir"
    BY DirectoryMeans, Zenon DEF Puts
  <2>2. Walk(m1, Front(to))[Len(Front(to))] = p
    BY WalkEnds
  <2>3. Len(Front(to)) \in 1 .. Len(Front(to))
    BY <1>1 DEF IsPlace, IsSequence
  <2> QED
    BY <2>1, <2>2, <2>3 DEF Puts, Avoids
<1>5. \A x : IsChild(m1, p, Last(to), x) => x = o
  <2>1. \A x : IsChild(m1, p, Last(to), x) => ObjectIn(m1, to) = x
    BY <1>2, EntryLeads DEF Puts
  <2>2. \A x : IsChild(m1, p, Last(to), x) => x # NoObject
    BY ObjectNumbers DEF IsChild
  <2> QED
    BY <2>1, <2>2 DEF Puts
<1> QED
  BY <1>2, <1>3, <1>4, <1>5

\* No cycle is closed and no name is taken twice when o comes to its new place.
LEMMA PutWhole ==
  ASSUME NEW m1, Whole(m1), NEW m2, NEW to, NEW o, Puts(m1, m2, to, o)
  PROVE  Whole(m2)
<1> DEFINE p == ObjectIn(m1, Front(to))
           v == Walk(m1, Front(to))
<1>1. /\ p # NoObject
      /\ p \in {-1, -2} \/ (p \in Objects /\ p # o /\ m1[p].kind = "dir")
      /\ \A x : IsChild(m1, p, Last(to), x) => x = o
  BY PutParent
<1>2. /\ o \in Objects /\ m2[o].kind \in {"file", "dir"}
      /\ m2[o].parent = p /\ m2[o].name = Last(to)
      /\ \A x \in Objects : x # o => m2[x] = m1[x]
  BY DEF Puts, Elsewhere
<1>3. /\ IsChain(m1, Front(to), v) /\ v[Len(Front(to))] = p
      /\ \A i \in 1 .. Len(Front(to)) : v[i] # o
      /\ Len(Front(to)) \in Nat /\ Len(Front(to)) >= 1
  <2>1. IsPlace(Front(to))
    BY FrontPlace DEF Puts
  <2> QED
    BY <1>1, <2>1, LeadsAlong DEF Puts, Avoids, Whole, IsPlace, IsSequence
<1> HIDE DEF p, v
<1>4. \A x \in Objects : m1[x].kind = "dir" => m2[x].kind = "dir"
  BY <1>2 DEF Puts, LiveIn
<1>5. Kinds(m2)
  BY <1>2 DEF Whole, Kinds
<1>6. Parents(m2)
  <2>1. ASSUME NEW x \in Objects, LiveIn(m2, x), x # o
        PROVE  \/ m2[x].parent \in {-1, -2}
               \/ m2[x].parent \in Objects /\ m2[m2[x].parent].kind = "dir"
    <3>1. LiveIn(m1, x) /\ m2[x].parent = m1[x].parent
      BY <1>2, <2>1 DEF LiveIn
    <3> QED
      BY <1>4, <3>1 DEF Whole, Parents
  <2>2. \/ m2[o].parent \in {-1, -2}
        \/ m2[o].parent \in Objects /\ m2[m2[o].parent].kind = "dir"
    BY <1>1, <1>2, <1>4
  <2> QED
    BY <2>1, <2>2 DEF Parents
<1>7. Names(m2)
  <2> SUFFICES ASSUME NEW a \in Objects, LiveIn(m2, a),
                      NEW x, IsChild(m2, m2[a].parent, m2[a].name, x)
               PROVE  x = a
    BY DEF Names
  <2>1. x \in Objects /\ LiveIn(m2, x)
    BY DEF IsChild
  <2>2. (a # o => LiveIn(m1, a) /\ m2[a] = m1[a]) /\ (x # o => LiveIn(m1, x) /\ m2[x] = m1[x])
    BY <1>2, <2>1 DEF LiveIn
  <2>3. CASE a # o /\ x # o
    <3>1. IsChild(m1, m1[a].parent, m1[a].name, x)
      BY <2>2, <2>3 DEF IsChild
    <3> QED
      BY <2>2, <2>3, <3>1 DEF Whole, Names
  <2>4. CASE a = o /\ x # o
    <3>1. m2[a].parent = p /\ m2[a].name = Last(to)
      BY <1>2, <2>4
    <3>2. IsChild(m1, p, Last(to), x)
      BY <2>2, <2>4, <3>1 DEF IsChild
    <3> QED
      BY <1>1, <2>4, <3>2
  <2>5. CASE a # o /\ x = o
    <3>1. m2[x].parent = p /\ m2[x].name = Last(to)
      BY <1>2, <2>5
    <3>2. IsChild(m1, p, Last(to), a)
      BY <2>2, <2>5, <3>1 DEF IsChild
    <3> QED
      BY <1>1, <2>5, <3>2
  <2> QED
    BY <2>3, <2>4, <2>5
<1>8. Grounded(m2)
  <2> SUFFICES ASSUME NEW S \in SUBSET Objects, S # {}, \A x \in S : LiveIn(m2, x),
                      \A x \in S : m2[x].parent \in S
               PROVE  FALSE
    BY DEF Grounded
  <2>1. \A x \in S : x \in Objects /\ (x # o => LiveIn(m1, x) /\ m2[x] = m1[x])
    BY <1>2 DEF LiveIn
  <2>2. CASE o \notin S
    <3>1. \A x \in S : LiveIn(m1, x) /\ m2[x].parent = m1[x].parent
      BY <2>1, <2>2
    <3>2. \E x \in S : m1[x].parent \notin S
      BY <3>1 DEF Whole, Grounded
    <3> QED
      BY <3>1, <3>2
  <2>3. CASE o \in S
    <3> DEFINE n == Len(Front(to))
               T == {x \in S : \E i \in 1 .. n : x = v[i]}
    <3>1. p \in S
      BY <1>2, <2>3
    <3>2. n \in 1 .. n
      BY <1>3
    <3>3. p \in T
      BY <1>3, <3>1, <3>2
    <3>4. T \in SUBSET Objects /\ T # {} /\ \A x \in T : x # o /\ LiveIn(m1, x)
      BY <1>3, <2>1, <3>3
    <3>5. PICK x \in T : m1[x].parent \notin T
      BY <3>4 DEF Whole, Grounded
    <3>6. PICK i \in 1 .. n : x = v[i]
      BY <3>5
    <3>7. x # o /\ x \in S
      BY <1>3, <3>6
    <3>8. m1[x].parent \in S
      BY <2>1, <3>7
    <3>9. i \in 2 .. n
      <4>1. i = 1 => x \notin Objects
        BY <1>3, <3>6, Roots, Zenon DEF IsChain
      <4>2. i # 1
        BY <2>1, <3>7, <4>1
      <4> QED
        BY <1>3, <4>2
    <3>10. m1[x].parent = v[i - 1] /\ i - 1 \in 1 .. n
      BY <1>3, <3>6, <3>9 DEF IsChain, IsChild
    <3> QED
      BY <3>5, <3>8, <3>10
  <2> QED
    BY <2>2, <2>3
<1> QED
  BY <1>5, <1>6, <1>7, <1>8 DEF Whole

\* o is found at the path it was put at.
LEMMA PutArrives ==
  ASSUME NEW m1, Whole(m1), NEW m2, NEW to, NEW o, Puts(m1, m2, to, o)
  PROVE  ObjectIn(m2, to) = o
<1> DEFINE p == ObjectIn(m1, Front(to))
<1>1. p # NoObject
  BY PutParent
<1>2. Whole(m2)
  BY PutWhole
<1>3. ObjectIn(m2, Front(to)) = p
  <2>1. IsPlace(Front(to))
    BY FrontPlace DEF Puts
  <2> QED
    BY <1>1, <1>2, <2>1, WayKept DEF Puts, Whole, IsPlace
<1>4. IsChild(m2, p, Last(to), o)
  BY DEF Puts, IsChild, LiveIn
<1> QED
  BY <1>1, <1>2, <1>3, <1>4, EntryLeads DEF Puts

\* fx_file_rename and fx_directory_rename, when they are allowed to.
Moves(m1, m2, from, to, o) ==
  /\ Puts(m1, m2, to, o)
  /\ IsBelow(from) /\ ObjectIn(m1, from) = o

\* Whatever was found at a path is found at the path that migrate_path makes of it.
LEMMA MoveMigrates ==
  ASSUME NEW m1, Whole(m1), NEW m2, NEW from, NEW to, NEW o, Moves(m1, m2, from, to, o),
         NEW path, IsPlace(path), ObjectIn(m1, path) # NoObject
  PROVE  ObjectIn(m2, migrate_path(path, from, to, m1[o].kind = "dir")) = ObjectIn(m1, path)
<1> DEFINE w == Walk(m1, path)
           u == Walk(m1, from)
           k == Len(from)
           directory == m1[o].kind = "dir"
<1>1. IsPlace(from) /\ IsPlace(to) /\ o \in Objects /\ ObjectIn(m1, from) = o
  BY DEF Moves, Puts, IsBelow
<1>2. /\ IsChain(m1, path, w) /\ w[Len(path)] = ObjectIn(m1, path)
      /\ IsChain(m1, from, u) /\ u[k] = o
  BY <1>1, ObjectNumbers, LeadsAlong DEF Whole, IsPlace
<1>3. Len(path) \in Nat /\ k \in Nat /\ k >= 1 /\ IsSequence(path) /\ IsSequence(from)
  BY <1>1 DEF IsPlace, IsSequence
<1>4. Whole(m2)
  BY PutWhole DEF Moves
<1> HIDE DEF w, u, k
<1>5. CASE \A i \in 1 .. Len(path) : w[i] # o
  <2>1. ObjectIn(m2, path) = ObjectIn(m1, path)
    <3>1. Avoids(m1, path, o)
      BY <1>5 DEF Avoids, w
    <3> QED
      BY <1>4, <3>1, WayKept DEF Moves, Puts, Whole, IsPlace
  <2>2. ~path_has_prefix(path, from, directory)
    <3> SUFFICES ASSUME k <= Len(path),
                        \A i \in 1 .. k : fold_ascii_case(path[i]) = fold_ascii_case(from[i])
                 PROVE  FALSE
      BY <1>1, PrefixMeans, Zenon DEF IsPlace, k
    <3>1. w[k] = u[k]
      BY <1>2, <1>3, SameWay DEF Whole, k
    <3> QED
      BY <1>2, <1>3, <1>5, <3>1
  <2>3. migrate_path(path, from, to, directory) = path
    BY <2>2, Zenon DEF migrate_path
  <2> QED
    BY <2>1, <2>3
<1>6. CASE \E i \in 1 .. Len(path) : w[i] = o
  <2>1. /\ k \in 1 .. Len(path) /\ w[k] = o
        /\ \A i \in 1 .. k : fold_ascii_case(path[i]) = fold_ascii_case(from[i])
    <3>1. PICK i \in 1 .. Len(path) : w[i] = o
      BY <1>6
    <3>2. k \in 1 .. Len(from) /\ w[i] = u[k]
      BY <1>2, <1>3, <3>1 DEF k
    <3>3. \A m \in 1 .. Len(path), n \in 1 .. Len(from) :
            w[m] = u[n] =>
              m = n /\ \A j \in 1 .. m : fold_ascii_case(path[j]) = fold_ascii_case(from[j])
      BY <1>1, <1>2, OnePath
    <3>4. i = k /\ \A j \in 1 .. i : fold_ascii_case(path[j]) = fold_ascii_case(from[j])
      BY <3>2, <3>3
    <3> QED
      BY <3>1, <3>4
  <2>2. k = Len(path) \/ m1[o].kind = "dir"
    <3> SUFFICES ASSUME k # Len(path), m1[o].kind # "dir" PROVE FALSE
      OBVIOUS
    <3>1. Childless(m1, o)
      BY <1>1, FileIsLeaf DEF Whole
    <3>2. k + 1 \in 2 .. Len(path) /\ (k + 1) - 1 = k
      BY <1>3, <2>1
    <3>3. IsChild(m1, w[k], path[k + 1], w[k + 1])
      BY <1>2, <3>2 DEF IsChain
    <3> QED
      BY <2>1, <3>1, <3>3 DEF IsChild, Childless
  <2>3. path_has_prefix(path, from, directory)
    <3>1. Len(path) = k \/ directory
      BY <2>2
    <3>2. k <= Len(path)
      BY <1>3, <2>1
    <3> HIDE DEF directory
    <3> QED
      BY <1>1, <2>1, <3>1, <3>2, PrefixMeans, Zenon DEF IsPlace, k
  <2> DEFINE rest == SubSeq(path, k + 1, Len(path))
             q == to \o rest
             n == Len(to)
             t == Walk(m2, to)
  <2>4. migrate_path(path, from, to, directory) = q
    BY <2>3, Zenon DEF migrate_path, k
  <2>5. n \in Nat /\ n >= 2 /\ IsSequence(to)
    BY DEF Moves, Puts, IsBelow, IsPlace, IsSequence
  <2>6. /\ IsSequence(rest) /\ Len(rest) = Len(path) - k
        /\ \A i \in 1 .. Len(path) - k : rest[i] = path[k + i]
    <3>1. /\ k + 1 \in Nat /\ k + 1 >= 1 /\ Len(path) <= Len(path) /\ k + 1 <= Len(path) + 1
          /\ Len(path) - (k + 1) + 1 = Len(path) - k
          /\ \A i \in 1 .. Len(path) - k : (k + 1) + i - 1 = k + i
      BY <1>3, <2>1
    <3>2. PICK a \in Nat, b \in Nat : a = k + 1 /\ b = Len(path)
      BY <1>3, <3>1
    <3>3. a >= 1 /\ b <= Len(path) /\ a <= b + 1
      BY <1>3, <3>1, <3>2
    <3>4. /\ IsSequence(SubSeq(path, a, b))
          /\ Len(SubSeq(path, a, b)) = b - a + 1
          /\ \A i \in 1 .. b - a + 1 : SubSeq(path, a, b)[i] = path[a + i - 1]
      BY <1>3, <3>3, Part
    <3> QED
      BY <3>1, <3>2, <3>4
  <2>7. /\ IsSequence(q) /\ Len(q) = n + (Len(path) - k)
        /\ \A i \in 1 .. n : q[i] = to[i]
        /\ \A j \in k + 1 .. Len(path) : q[n + (j - k)] = path[j]
    <3> HIDE DEF rest
    <3>1. /\ IsSequence(q) /\ Len(q) = n + Len(rest)
          /\ \A i \in 1 .. n + Len(rest) : q[i] = IF i <= n THEN to[i] ELSE rest[i - n]
      BY <2>5, <2>6, Joined
    <3> HIDE DEF q, n
    <3>2. \A i \in 1 .. n : q[i] = to[i]
      BY <1>3, <2>1, <2>5, <2>6, <3>1
    <3>3. ASSUME NEW j \in k + 1 .. Len(path) PROVE q[n + (j - k)] = path[j]
      <4>1. PICK c \in 1 .. Len(path) - k : c = j - k /\ k + c = j
        BY <1>3, <2>1
      <4>2. n + c \in 1 .. n + Len(rest) /\ ~(n + c <= n) /\ (n + c) - n = c
        BY <1>3, <2>1, <2>5, <2>6
      <4> QED
        BY <2>6, <3>1, <4>1, <4>2
    <3> QED
      BY <2>6, <3>1, <3>2, <3>3
  <2>8. IsChain(m2, to, t) /\ t[n] = o
    <3>1. ObjectIn(m2, to) = o
      BY PutArrives DEF Moves
    <3> QED
      BY <1>1, <1>4, <2>5, <3>1, ObjectNumbers, LeadsAlong DEF Whole
  <2> HIDE DEF rest, q, n, t
  <2>9. \A j \in k + 1 .. Len(path) : IsChild(m2, w[j - 1], path[j], w[j])
    <3> SUFFICES ASSUME NEW j \in k + 1 .. Len(path) PROVE IsChild(m2, w[j - 1], path[j], w[j])
      OBVIOUS
    <3>1. j \in 2 .. Len(path) /\ j \in 1 .. Len(path) /\ j # k
      BY <1>3
    <3>2. IsChild(m1, w[j - 1], path[j], w[j])
      BY <1>2, <3>1 DEF IsChain
    <3>3. w[j] # o
      <4> SUFFICES ASSUME w[j] = w[k] PROVE FALSE
        BY <2>1
      <4>1. \A m \in 1 .. Len(path), l \in 1 .. Len(path) : w[m] = w[l] => m = l
        BY <1>2, OncePerPath
      <4> QED
        BY <2>1, <3>1, <4>1
    <3> QED
      BY <3>2, <3>3 DEF Moves, Puts, Elsewhere, IsChild, LiveIn
  <2>10. PICK z : z = [i \in 1 .. Len(q) |-> IF i <= n THEN t[i] ELSE w[k + (i - n)]]
    OBVIOUS
  <2>11. /\ \A i \in 1 .. n : z[i] = t[i]
         /\ \A j \in k .. Len(path) : z[n + (j - k)] = w[j]
    <3>1. \A i \in 1 .. n : z[i] = t[i]
      BY <1>3, <2>1, <2>5, <2>7, <2>10
    <3>2. ASSUME NEW j \in k .. Len(path) PROVE z[n + (j - k)] = w[j]
      <4>1. CASE j = k
        <5>1. n + (j - k) = n /\ n \in 1 .. n
          BY <1>3, <2>5, <4>1
        <5> QED
          BY <2>1, <2>8, <3>1, <4>1, <5>1
      <4>2. CASE j # k
        <5>1. PICK i \in 1 .. Len(q) : i = n + (j - k) /\ ~(i <= n) /\ k + (i - n) = j
          BY <1>3, <2>1, <2>5, <2>7, <4>2
        <5> QED
          BY <2>10, <5>1
      <4> QED
        BY <4>1, <4>2
    <3> QED
      BY <3>1, <3>2
  <2>12. IsChain(m2, q, z)
    <3>1. z[1] = RootOf(fold_ascii_case(q[1]))
      <4>1. 1 \in 1 .. n
        BY <2>5
      <4> QED
        BY <2>7, <2>8, <2>11, <4>1 DEF IsChain
    <3>2. ASSUME NEW i \in 2 .. Len(q) PROVE IsChild(m2, z[i - 1], q[i], z[i])
      <4>1. CASE i <= n
        <5>1. i \in 2 .. n /\ i \in 1 .. n /\ i - 1 \in 1 .. n
          BY <2>5, <4>1
        <5>2. IsChild(m2, t[i - 1], to[i], t[i])
          BY <2>8, <5>1 DEF IsChain, n
        <5> QED
          BY <2>7, <2>11, <5>1, <5>2
      <4>2. CASE ~(i <= n)
        <5>1. PICK j \in k + 1 .. Len(path) : /\ i = n + (j - k) /\ i - 1 = n + ((j - 1) - k)
                                              /\ j - 1 \in k .. Len(path) /\ j \in k .. Len(path)
          <6>1. PICK c \in 1 .. Len(path) - k : c = i - n
            BY <1>3, <2>1, <2>5, <2>7, <4>2
          <6>2. PICK j \in k + 1 .. Len(path) : j = c + k
            BY <1>3, <2>1, <6>1
          <6> QED
            BY <1>3, <2>1, <2>5, <6>1, <6>2
        <5>2. z[i - 1] = w[j - 1] /\ z[i] = w[j] /\ q[i] = path[j]
          BY <2>7, <2>11, <5>1
        <5> QED
          BY <2>9, <5>2
      <4> QED
        BY <4>1, <4>2
    <3> QED
      BY <3>1, <3>2 DEF IsChain
  <2>13. ObjectIn(m2, q) = z[Len(q)]
    <3>1. Len(q) >= 1
      BY <1>3, <2>1, <2>5, <2>7
    <3> QED
      BY <1>4, <2>7, <2>12, <3>1, ChainLeads DEF Whole
  <2>14. z[Len(q)] = w[Len(path)]
    <3>1. Len(path) \in k .. Len(path)
      BY <1>3, <2>1
    <3> QED
      BY <2>7, <2>11, <3>1
  <2> QED
    BY <1>2, <2>4, <2>13, <2>14
<1> QED
  BY <1>5, <1>6

\* The old name is free again.
LEMMA MoveLeaves ==
  ASSUME NEW m1, Whole(m1), NEW m2, NEW from, NEW to, NEW o, Moves(m1, m2, from, to, o),
         ~paths_equal(from, to)
  PROVE  ObjectIn(m2, from) = NoObject
<1> SUFFICES ASSUME ObjectIn(m2, from) # NoObject PROVE FALSE
  OBVIOUS
<1> DEFINE f == Walk(m2, from)
           t == Walk(m2, to)
           u == Walk(m1, from)
<1>1. IsPlace(from) /\ IsPlace(to) /\ o \in Objects /\ ObjectIn(m1, from) = o /\ o # NoObject
  BY ObjectNumbers DEF Moves, Puts, IsBelow
<1>2. Whole(m2) /\ ObjectIn(m2, to) = o
  BY PutWhole, PutArrives DEF Moves
<1>3. /\ IsChain(m2, from, f) /\ f[Len(from)] = ObjectIn(m2, from)
      /\ IsChain(m2, to, t) /\ t[Len(to)] = o
      /\ IsChain(m1, from, u) /\ u[Len(from)] = o
  BY <1>1, <1>2, LeadsAlong DEF Whole, IsPlace
<1>4. /\ Len(from) \in Nat /\ Len(to) \in Nat /\ Len(from) >= 2 /\ Len(to) >= 2
      /\ IsSequence(from) /\ IsSequence(to)
  BY DEF Moves, Puts, IsBelow, IsPlace, IsSequence
<1>5. CASE \A i \in 1 .. Len(from) : f[i] # o
  <2>1. Elsewhere(m2, m1, o)
    BY DEF Moves, Puts, Elsewhere
  <2>2. Avoids(m2, from, o)
    BY <1>5 DEF Avoids
  <2>3. Len(from) >= 1 /\ Parents(m2) /\ Names(m1)
    BY <1>2, <1>4 DEF Whole
  <2>4. ObjectIn(m1, from) = ObjectIn(m2, from)
    BY <1>4, <2>1, <2>2, <2>3, WayKept
  <2>5. Len(from) \in 1 .. Len(from)
    BY <1>4
  <2> QED
    BY <1>1, <1>3, <1>5, <2>4, <2>5
<1> HIDE DEF f, t, u
<1>6. CASE \E i \in 1 .. Len(from) : f[i] = o
  <2>1. PICK k \in 1 .. Len(from) : f[k] = o
    BY <1>6
  <2>2. Len(to) \in 1 .. Len(to)
    BY <1>4
  <2>3. k = Len(to) /\ \A i \in 1 .. k : fold_ascii_case(from[i]) = fold_ascii_case(to[i])
    <3>1. \A m \in 1 .. Len(from), n \in 1 .. Len(to) :
            f[m] = t[n] =>
              m = n /\ \A i \in 1 .. m : fold_ascii_case(from[i]) = fold_ascii_case(to[i])
      BY <1>1, <1>3, OnePath
    <3> QED
      BY <1>3, <2>1, <2>2, <3>1
  <2>4. k # Len(from)
    <3> SUFFICES ASSUME k = Len(from) PROVE FALSE
      OBVIOUS
    <3>1. Len(from) = Len(to) /\ Len(to) <= Len(from) /\ Len(to) >= 1
      BY <1>4, <2>3
    <3>2. paths_equal(from, to)
      BY <1>4, <2>3, <3>1, EqualMeans
    <3> QED
      BY <3>2
  <2>5. u[k] # o
    <3> SUFFICES ASSUME u[k] = u[Len(from)] PROVE FALSE
      BY <1>3
    <3>1. Len(from) \in 1 .. Len(from)
      BY <1>4
    <3>2. \A m \in 1 .. Len(from), n \in 1 .. Len(from) : u[m] = u[n] => m = n
      BY <1>1, <1>3, OncePerPath
    <3> QED
      BY <2>1, <2>4, <3>1, <3>2
  <2>6. IsChain(m1, to, u)
    <3>1. 1 \in 1 .. k /\ \A i \in 2 .. Len(to) : i \in 1 .. k /\ i \in 2 .. Len(from)
      BY <1>4, <2>1, <2>3
    <3> QED
      BY <1>3, <2>3, <3>1 DEF IsChain, IsChild
  <2>7. ObjectIn(m1, to) = u[k]
    <3>1. Len(to) >= 1
      BY <1>4
    <3> QED
      BY <1>4, <2>3, <2>6, <3>1, ChainLeads DEF Whole
  <2>8. u[k] # NoObject
    <3>1. k \in 2 .. Len(to)
      BY <1>4, <2>3
    <3> QED
      BY <2>6, <3>1, ObjectNumbers DEF IsChain, IsChild
  <2> QED
    BY <2>5, <2>7, <2>8 DEF Moves, Puts
<1> QED
  BY <1>5, <1>6

\* What was elsewhere stays where it was.
LEMMA PutKeeps ==
  ASSUME NEW m1, Whole(m1), NEW m2, NEW to, NEW o, Puts(m1, m2, to, o),
         NEW path, IsPlace(path), ObjectIn(m1, path) # NoObject, Avoids(m1, path, o)
  PROVE  ObjectIn(m2, path) = ObjectIn(m1, path)
<1>1. Whole(m2)
  BY PutWhole
<1> QED
  BY <1>1, WayKept DEF Puts, Whole, IsPlace

\* No path leads through an entry that is free.
LEMMA AvoidsFree ==
  ASSUME NEW media, Whole(media), NEW path, IsPlace(path), ObjectIn(media, path) # NoObject,
         NEW o \in Objects, ~LiveIn(media, o)
  PROVE  Avoids(media, path, o)
<1> DEFINE w == Walk(media, path)
<1>1. IsChain(media, path, w)
  BY LeadsAlong DEF Whole, IsPlace
<1> HIDE DEF w
<1>2. w[1] # o
  BY <1>1, Roots DEF IsChain
<1>3. \A i \in 2 .. Len(path) : w[i] # o
  BY <1>1 DEF IsChain, IsChild
<1>4. \A i \in 1 .. Len(path) : i = 1 \/ i \in 2 .. Len(path)
  BY DEF IsPlace, IsSequence
<1> QED
  BY <1>2, <1>3, <1>4 DEF Avoids, w

\* An object without children goes.
Deletes(m1, m2, o) ==
  o \in Objects /\ Childless(m1, o) /\ Elsewhere(m1, m2, o) /\ m2[o].kind = "free"

\* The tree stays whole when an object without children goes.
LEMMA DeleteWhole ==
  ASSUME NEW m1, Whole(m1), NEW m2, NEW o, Deletes(m1, m2, o)
  PROVE  Whole(m2)
<1>1. /\ \A x \in Objects : x # o => m2[x] = m1[x]
      /\ \A x \in Objects : LiveIn(m2, x) => x # o /\ LiveIn(m1, x)
  BY DEF Deletes, Elsewhere, LiveIn
<1>2. Kinds(m2)
  BY <1>1 DEF Whole, Kinds, Deletes
<1>3. Parents(m2)
  <2> SUFFICES ASSUME NEW x \in Objects, LiveIn(m2, x)
               PROVE  \/ m2[x].parent \in {-1, -2}
                      \/ m2[x].parent \in Objects /\ m2[m2[x].parent].kind = "dir"
    BY DEF Parents
  <2>1. LiveIn(m1, x) /\ m2[x] = m1[x]
    BY <1>1
  <2>2. m1[x].parent # o
    BY <2>1 DEF Deletes, Childless
  <2> QED
    BY <1>1, <2>1, <2>2 DEF Whole, Parents
<1>4. Names(m2)
  <2> SUFFICES ASSUME NEW a \in Objects, LiveIn(m2, a),
                      NEW x, IsChild(m2, m2[a].parent, m2[a].name, x)
               PROVE  x = a
    BY DEF Names
  <2>1. x \in Objects /\ LiveIn(m2, x)
    BY DEF IsChild
  <2>2. m2[a] = m1[a] /\ m2[x] = m1[x] /\ LiveIn(m1, a) /\ LiveIn(m1, x)
    BY <1>1, <2>1
  <2>3. IsChild(m1, m1[a].parent, m1[a].name, x)
    BY <2>2 DEF IsChild
  <2> QED
    BY <2>2, <2>3 DEF Whole, Names
<1>5. Grounded(m2)
  <2> SUFFICES ASSUME NEW S \in SUBSET Objects, S # {}, \A x \in S : LiveIn(m2, x)
               PROVE  \E x \in S : m2[x].parent \notin S
    BY DEF Grounded
  <2>1. \A x \in S : LiveIn(m1, x) /\ m2[x] = m1[x]
    BY <1>1
  <2>2. \E x \in S : m1[x].parent \notin S
    BY <2>1 DEF Whole, Grounded
  <2> QED
    BY <2>1, <2>2
<1> QED
  BY <1>2, <1>3, <1>4, <1>5 DEF Whole

\* What was elsewhere stays where it was.
LEMMA DeleteKeeps ==
  ASSUME NEW m1, Whole(m1), NEW m2, NEW o, Deletes(m1, m2, o),
         NEW path, IsPlace(path), ObjectIn(m1, path) # NoObject, ObjectIn(m1, path) # o
  PROVE  ObjectIn(m2, path) = ObjectIn(m1, path)
<1>1. Whole(m2)
  BY DeleteWhole
<1>2. Avoids(m1, path, o)
  BY AvoidsLeaf DEF Deletes, Whole, IsPlace
<1> QED
  BY <1>1, <1>2, WayKept DEF Deletes, Whole, IsPlace

\* Contents change, names do not.
SameTree(m1, m2) ==
  \A x \in Objects : /\ m2[x].kind = m1[x].kind /\ m2[x].parent = m1[x].parent
                     /\ m2[x].name = m1[x].name

\* A change of contents keeps the tree whole.
LEMMA SameWhole ==
  ASSUME NEW m1, Whole(m1), NEW m2, SameTree(m1, m2)
  PROVE  Whole(m2)
<1>1. \A p, c, x : IsChild(m2, p, c, x) <=> IsChild(m1, p, c, x)
  BY DEF SameTree, IsChild, LiveIn
<1>2. \A x \in Objects : LiveIn(m2, x) <=> LiveIn(m1, x)
  BY DEF SameTree, LiveIn
<1>3. Kinds(m2) /\ Parents(m2)
  BY <1>2 DEF SameTree, Whole, Kinds, Parents
<1>4. Names(m2)
  BY <1>1, <1>2 DEF SameTree, Whole, Names
<1>5. Grounded(m2)
  <2> SUFFICES ASSUME NEW S \in SUBSET Objects, S # {}, \A x \in S : LiveIn(m2, x)
               PROVE  \E x \in S : m2[x].parent \notin S
    BY DEF Grounded
  <2>1. \E x \in S : m1[x].parent \notin S
    BY <1>2 DEF Whole, Grounded
  <2> QED
    BY <2>1 DEF SameTree
<1> QED
  BY <1>3, <1>4, <1>5 DEF Whole

\* A change of contents moves nothing.
LEMMA SameLeads ==
  ASSUME NEW m1, Whole(m1), NEW m2, SameTree(m1, m2), NEW path, IsPlace(path)
  PROVE  ObjectIn(m2, path) = ObjectIn(m1, path)
<1>1. Whole(m2)
  BY SameWhole
<1>2. \A p, c, x : IsChild(m2, p, c, x) <=> IsChild(m1, p, c, x)
  BY DEF SameTree, IsChild, LiveIn
<1>3. \A w : IsChain(m2, path, w) <=> IsChain(m1, path, w)
  BY <1>2, Zenon DEF IsChain
<1>4. CASE ObjectIn(m1, path) # NoObject
  BY <1>1, <1>3, <1>4, LeadsAlong, ChainLeads DEF Whole, IsPlace
<1>5. CASE ObjectIn(m2, path) # NoObject
  BY <1>1, <1>3, <1>5, LeadsAlong, ChainLeads DEF Whole, IsPlace
<1> QED
  BY <1>4, <1>5

-----------------------------------------------------------------------------
(* What each edit of an outcome leaves alone *)

\* The position is the only member AtPosition sets.
LEMMA PositionSet ==
  ASSUME NEW x, DescriptorOK(x), NEW v
  PROVE  AtPosition(x, v).position = v
<1>1. PICK y : y = [x EXCEPT !.position = v]
  OBVIOUS
<1>2. y.position = v
  BY <1>1 DEF DescriptorOK, IsDescriptor
<1> QED
  BY <1>1, <1>2, Zenon DEF AtPosition

\* InMode leaves the position alone.
LEMMA ModePosition ==
  ASSUME NEW x, DescriptorOK(x), NEW v
  PROVE  InMode(x, v).position = x.position
<1>1. PICK y : y = [x EXCEPT !.open_mode = v]
  OBVIOUS
<1>2. y.position = x.position
  BY <1>1 DEF DescriptorOK, IsDescriptor
<1> QED
  BY <1>1, <1>2, Zenon DEF InMode

\* What each edit of an outcome sets and what it leaves.
LEMMA SetFields ==
  ASSUME NEW r, IsOutcome(r), HandleOK(r.handle), DescriptorOK(r.descriptor), NEW v
  PROVE  /\ WithError(r, v).handle = r.handle /\ WithError(r, v).descriptor = r.descriptor
         /\ WithError(r, v).error = v
         /\ SameFile(r.handle, SetModified(r, v).handle)
         /\ SetModified(r, v).error = r.error
         /\ SetHandle(r, v).handle = v /\ SetHandle(r, v).error = r.error
         /\ SetHandle(r, v).descriptor = r.descriptor
         /\ SetPosition(r, v).descriptor.position = v
         /\ SetPosition(r, v).handle = r.handle /\ SetPosition(r, v).error = r.error
         /\ v \in Nat => SameFile(r.handle, SetOffset(r, v).handle)
         /\ SetOffset(r, v).error = r.error
<1>1. AtPosition(r.descriptor, v).position = v
  BY PositionSet
<1>2. SameFile(r.handle, Marked(r.handle, v))
  BY HandleModified, Zenon DEF SameFile
<1>3. v \in Nat => SameFile(r.handle, AtOffset(r.handle, v))
  BY HandleOffset, Zenon DEF SameFile
<1>4. /\ WithError(r, v) = Outcome(r.handle, r.descriptor, v)
      /\ SetPosition(r, v) = Outcome(r.handle, AtPosition(r.descriptor, v), r.error)
      /\ SetOffset(r, v) = Outcome(AtOffset(r.handle, v), r.descriptor, r.error)
      /\ SetModified(r, v) = Outcome(Marked(r.handle, v), r.descriptor, r.error)
      /\ SetHandle(r, v) = Outcome(v, r.descriptor, r.error)
  BY OutcomeSet
<1>5. \A h, x, e : /\ Outcome(h, x, e).handle = h /\ Outcome(h, x, e).descriptor = x
                   /\ Outcome(h, x, e).error = e
  BY OutcomeFields
<1>6. /\ WithError(r, v).handle = r.handle /\ WithError(r, v).descriptor = r.descriptor
      /\ WithError(r, v).error = v
  BY <1>4, <1>5
<1>7. SameFile(r.handle, SetModified(r, v).handle) /\ SetModified(r, v).error = r.error
  BY <1>2, <1>4, <1>5
<1>8. /\ SetHandle(r, v).handle = v /\ SetHandle(r, v).error = r.error
      /\ SetHandle(r, v).descriptor = r.descriptor
  BY <1>4, <1>5
<1>9. /\ SetPosition(r, v).descriptor.position = v /\ SetPosition(r, v).handle = r.handle
      /\ SetPosition(r, v).error = r.error
  BY <1>1, <1>4, <1>5
<1>10. /\ v \in Nat => SameFile(r.handle, SetOffset(r, v).handle)
       /\ SetOffset(r, v).error = r.error
  BY <1>3, <1>4, <1>5
<1> QED
  BY <1>6, <1>7, <1>8, <1>9, <1>10, Zenon

\* MovedTo sets the offset and the position to the same value.
LEMMA MovedFields ==
  ASSUME NEW x, NEW r, Good(r, x), NEW v \in Nat, NEW e
  PROVE  /\ SameFile(r.handle, MovedTo(r, v, e).handle) /\ MovedTo(r, v, e).error = e
         /\ MovedTo(r, v, e).handle.offset = v /\ MovedTo(r, v, e).descriptor.position = v
<1>1. MovedTo(r, v, e) = Outcome(AtOffset(r.handle, v), AtPosition(r.descriptor, v), e)
  BY Zenon DEF MovedTo, AtOffset, AtPosition
<1>2. IsOutcome(r) /\ HandleOK(r.handle) /\ DescriptorOK(r.descriptor)
  BY DEF Good
<1>3. SameFile(r.handle, AtOffset(r.handle, v)) /\ AtOffset(r.handle, v).offset = v
  BY <1>2, HandleOffset, Zenon DEF SameFile
<1>4. AtPosition(r.descriptor, v).position = v
  BY <1>2, PositionSet
<1> QED
  BY <1>1, <1>3, <1>4, OutcomeFields

\* SeekTo stops at the end of the file.
LEMMA SoughtFields ==
  ASSUME NEW x, NEW r, Good(r, x), NEW v \in Nat, NEW size \in Nat
  PROVE  /\ SameFile(r.handle, SeekTo(r.handle, v, size))
         /\ SeekTo(r.handle, v, size).offset = Min({v, size})
<1>1. Min({v, size}) \in Nat
  BY MinOfTwo
<1>2. PICK u \in Nat : u = Min({v, size})
  BY <1>1
<1>3. SeekTo(r.handle, v, size) = AtOffset(r.handle, u)
  BY <1>2, Zenon DEF SeekTo, AtOffset
<1>4. SameFile(r.handle, AtOffset(r.handle, u)) /\ AtOffset(r.handle, u).offset = u
  BY HandleOffset, Zenon DEF SameFile, Good
<1> QED
  BY <1>2, <1>3, <1>4

\* _ftruncate ends with the offset at the position or at the end of the file.
LEMMA BackIntoFields ==
  ASSUME NEW x, NEW r, Good(r, x), NEW length \in Nat, NEW size \in Nat,
         NEW q \in BackInto(r, length, size)
  PROVE  /\ SameFile(r.handle, q.handle)
         /\ q.error = OK => q.handle.offset = Min({q.descriptor.position, size})
<1> DEFINE p == Min({r.descriptor.position, length})
           moved == SetPosition(r, p)
<1>1. \/ q = SetHandle(moved, SeekTo(moved.handle, p, size))
      \/ \E e \in Io \ {OK} : q = WithError(moved, e)
  BY Zenon DEF BackInto, SetPosition, SetHandle, WithError
<1>2. p \in Nat
  <2>1. r.descriptor.position \in Nat
    BY DEF Good, DescriptorOK
  <2> QED
    BY <2>1, MinOfTwo
<1> HIDE DEF p
<1>3. Good(moved, x) /\ moved.handle = r.handle
  BY <1>2, GoodSet
<1>4. moved.descriptor.position = p
  BY <1>2, SetFields DEF Good
<1> HIDE DEF moved
<1>5. IsOutcome(moved) /\ HandleOK(moved.handle) /\ DescriptorOK(moved.descriptor)
  BY <1>3 DEF Good
<1>6. CASE q = SetHandle(moved, SeekTo(moved.handle, p, size))
  <2>1. /\ SameFile(r.handle, SeekTo(r.handle, p, size))
        /\ SeekTo(r.handle, p, size).offset = Min({p, size})
    BY <1>2, SoughtFields
  <2>2. \A h : SetHandle(moved, h).handle = h /\ SetHandle(moved, h).descriptor = moved.descriptor
    BY <1>5, SetFields
  <2>3. q.handle = SeekTo(r.handle, p, size) /\ q.descriptor = moved.descriptor
    BY <1>3, <1>6, <2>2, Zenon
  <2> QED
    BY <1>4, <2>1, <2>3, Zenon
<1>7. CASE \E e \in Io \ {OK} : q = WithError(moved, e)
  <2>1. \A e : WithError(moved, e).handle = moved.handle /\ WithError(moved, e).error = e
    BY <1>5, SetFields
  <2>2. q.handle = r.handle /\ q.error # OK
    BY <1>3, <1>7, <2>1
  <2> QED
    BY <2>2, Zenon DEF SameFile
<1> QED
  BY <1>1, <1>6, <1>7

\* Going to the end of the file keeps the handle on it.
LEMMA AtEndFields ==
  ASSUME NEW d, NEW x, NEW s, Good(s, x), NEW size \in Nat, NEW r \in AtEnd(d, s, size)
  PROVE  SameFile(s.handle, r.handle)
<1> DEFINE moved == SetPosition(s, size)
<1>1. \/ r = s
      \/ r = SetOffset(moved, size)
      \/ \E e \in Io \ {OK} : r = WithError(moved, e)
  BY Zenon DEF AtEnd, SetPosition, SetOffset, WithError
<1>2. Good(moved, x) /\ moved.handle = s.handle
  BY GoodSet
<1> HIDE DEF moved
<1>3. IsOutcome(moved) /\ HandleOK(moved.handle) /\ DescriptorOK(moved.descriptor)
  BY <1>2 DEF Good
<1>4. SameFile(moved.handle, SetOffset(moved, size).handle)
  BY <1>3, SetFields
<1>5. \A e : WithError(moved, e).handle = moved.handle
  BY <1>3, SetFields
<1>6. SameFile(s.handle, s.handle)
  BY Zenon DEF SameFile
<1> QED
  BY <1>1, <1>2, <1>4, <1>5, <1>6, Zenon

\* Truncation in _open leaves offset and position at 0.
LEMMA EmptiedFields ==
  ASSUME NEW x, NEW r, Good(r, x)
  PROVE  /\ SameFile(r.handle, Emptied(r).handle) /\ Emptied(r).error = OK
         /\ Emptied(r).handle.offset = 0 /\ Emptied(r).descriptor.position = 0
<1>1. PICK z, b : z = 0 /\ b = TRUE
  OBVIOUS
<1>2. Emptied(r) = Outcome(Marked(AtOffset(r.handle, z), b), AtPosition(r.descriptor, z), OK)
  BY <1>1, Zenon DEF Emptied, Marked, AtOffset, AtPosition
<1>3. /\ HandleOK(AtOffset(r.handle, z)) /\ SameFile(r.handle, AtOffset(r.handle, z))
      /\ AtOffset(r.handle, z).offset = z
  BY <1>1, HandleOffset DEF Good, SameFile
<1>4. /\ SameFile(AtOffset(r.handle, z), Marked(AtOffset(r.handle, z), b))
      /\ Marked(AtOffset(r.handle, z), b).offset = z
  BY <1>3, HandleModified DEF SameFile
<1>5. AtPosition(r.descriptor, z).position = z
  BY PositionSet DEF Good
<1>6. SameFile(r.handle, Marked(AtOffset(r.handle, z), b))
  BY <1>3, <1>4, Zenon DEF SameFile
<1> QED
  <2> DEFINE g == Marked(AtOffset(r.handle, z), b)
             y == AtPosition(r.descriptor, z)
  <2>1. /\ Outcome(g, y, OK).handle = g /\ Outcome(g, y, OK).descriptor = y
        /\ Outcome(g, y, OK).error = OK
    BY OutcomeFields
  <2>2. Emptied(r).handle = g /\ Emptied(r).descriptor = y /\ Emptied(r).error = OK
    BY <1>2, <2>1
  <2> HIDE DEF g, y
  <2>3. SameFile(r.handle, g) /\ g.offset = 0 /\ y.position = 0
    BY <1>1, <1>4, <1>5, <1>6, Zenon DEF g, y
  <2> QED
    BY <2>2, <2>3

-----------------------------------------------------------------------------
(* The layer between two calls *)

\* What a slot of the table is on, when its path is where.
SlotPlaced(media, where, h, x) ==
  /\ x.allocated => /\ IsBelow(x.path) /\ x.object \in Objects
                    /\ LiveIn(media, x.object) => ObjectIn(media, where) = x.object
  /\ h.mode = Closed => h.object = NoObject
  /\ h.mode # Closed => /\ x.allocated
                        /\ h.object \in Objects /\ media[h.object].kind = "file"
                        /\ ObjectIn(media, where) = h.object

\* A file that is open for writing is open once.
AloneAt(hs) ==
  \A c, d \in Files : c # d /\ hs[c].mode = "write" => hs[d].object # hs[c].object

\* The working directory is the virtual root or a directory.
DirectoryAt(media, cwd, where) ==
  /\ IsSequence(cwd)
  /\ virtual_root(cwd) \/ (IsPlace(cwd) /\ DirectoryIn(media, ObjectIn(media, where)))

\* No directory entry is stale.
Current(media) == \A o \in Objects : ~media[o].stale

\* What holds between two calls: the tree is whole, each descriptor is on its file, and
\* the working directory is a directory.
Calm(media, hs, ds, cwd) ==
  /\ Whole(media) /\ Current(media)
  /\ \A d \in Files : SlotPlaced(media, ds[d].path, hs[d], ds[d])
  /\ AloneAt(hs)
  /\ DirectoryAt(media, cwd, cwd)

\* A handle that the descriptor d may have on the file at path.
Sits(media, d, path, h) ==
  /\ h.mode = Closed => h.object = NoObject
  /\ h.mode # Closed => /\ h.object \in Objects /\ media[h.object].kind = "file"
                        /\ ObjectIn(media, path) = h.object
                        /\ ~Conflict(d, h.object, h.mode)

\* Only the file and the mode of a handle count.
LEMMA SitsSame ==
  ASSUME NEW media, NEW d, NEW path, NEW h, NEW g, Sits(media, d, path, h), SameFile(h, g)
  PROVE  Sits(media, d, path, g)
BY Zenon DEF Sits, SameFile

\* A closed handle is on nothing.
LEMMA NoHandleSits == ASSUME NEW media, NEW d, NEW path PROVE Sits(media, d, path, NoHandle)
<1>1. NoHandle.mode = Closed /\ NoHandle.object = NoObject
  BY DEF NoHandle
<1> QED
  BY <1>1, Zenon DEF Sits

\* The handle that fx_file_open fills.
LEMMA FreshFields ==
  ASSUME NEW m, NEW o
  PROVE  Fresh(m, o).mode = m /\ Fresh(m, o).object = o
<1>1. PICK h : h = NoHandle
  OBVIOUS
<1>2. IsHandle(h)
  BY <1>1 DEF NoHandle, IsHandle
<1>3. PICK g : g = [h EXCEPT !.mode = m, !.object = o]
  OBVIOUS
<1>4. g.mode = m /\ g.object = o
  BY <1>2, <1>3 DEF IsHandle
<1> QED
  BY <1>1, <1>3, <1>4, Zenon DEF Fresh

\* What is found at a path is there, and below a mount.
LEMMA FoundLives ==
  ASSUME NEW media, Whole(media), NEW path, IsPlace(path), ObjectIn(media, path) \in Objects
  PROVE  LiveIn(media, ObjectIn(media, path)) /\ Len(path) >= 2
<1>1. PICK o : o = ObjectIn(media, path)
  OBVIOUS
<1>2. o # NoObject /\ o \notin {-1, -2}
  BY <1>1, ObjectNumbers
<1>3. IsSequence(path) /\ Len(path) >= 1 /\ Len(path) \in Nat
  BY DEF IsPlace, IsSequence
<1>4. Len(path) >= 2
  <2>1. ObjectIn(media, path) # NoObject
    BY <1>1, <1>2
  <2>2. Len(path) = 1 => ObjectIn(media, path) \in {-1, -2}
    BY <1>3, <2>1, LeadsTo, Zenon
  <2>3. Len(path) # 1
    BY <1>1, <1>2, <2>2, Zenon
  <2>4. \A n \in Nat : n >= 1 /\ n # 1 => n >= 2
    OBVIOUS
  <2> QED
    BY <1>3, <2>3, <2>4, Zenon
<1>5. IsChild(media, ObjectIn(media, Front(path)), Last(path), o)
  BY <1>1, <1>2, <1>3, <1>4, LeadsTo
<1> QED
  BY <1>1, <1>4, <1>5, Zenon DEF IsChild

\* What switch_mode opens is the file at the path, and no one else's in a way that
\* excludes it.
LEMMA ReopenSits ==
  ASSUME NEW media, MediaOK(media), Whole(media), NEW d, NEW x, DescriptorOK(x),
         IsPlace(x.path), NEW mode, mode \in {"read", "write"}, NEW r \in Reopen(media, d, x, mode)
  PROVE  /\ Sits(media, d, x.path, r.handle)
         /\ r.error = OK =>
              r.handle.offset = Min({r.descriptor.position, Len(media[r.handle.object].data)})
<1> DEFINE o == ObjectIn(media, x.path)
           opened == Fresh(mode, o)
           now_open == InMode(x, mode)
           refused == OpenError(media, d, x.path, mode)
           sought == SeekTo(opened, x.position, Len(media[o].data))
<1>1. \/ refused # OK /\ r = Outcome(NoHandle, x, refused)
      \/ refused = OK /\ \E e \in Io \ {OK} : r = Outcome(NoHandle, x, e)
      \/ refused = OK /\ \E e \in Io \ {OK} : r = Outcome(opened, now_open, e)
      \/ refused = OK /\ r = Outcome(sought, now_open, OK)
  BY Zenon DEF Reopen, Fresh, InMode
<1>2. refused = OK => o \in Objects /\ media[o].kind # "dir" /\ ~Conflict(d, o, mode)
  <2> DEFINE oo == o
  <2> HIDE DEF oo
  <2>1. refused = IF oo \notin Objects THEN "ENOENT"
                  ELSE IF media[oo].kind = "dir" THEN "EISDIR"
                  ELSE IF media[oo].stale THEN "EIO"
                  ELSE IF Conflict(d, oo, mode) THEN "EACCES"
                  ELSE OK
    BY Zenon DEF OpenError, oo
  <2>2. "ENOENT" # OK /\ "EISDIR" # OK /\ "EIO" # OK /\ "EACCES" # OK
    BY DEF OK
  <2>3. refused = OK => oo \in Objects /\ media[oo].kind # "dir" /\ ~Conflict(d, oo, mode)
    BY <2>1, <2>2, Zenon
  <2> QED
    BY <2>3, Zenon DEF oo
<1>3. opened.mode = mode /\ opened.object = o
  BY FreshFields
<1>4. mode # Closed
  BY DEF Closed
<1>x. \A h, y, e : /\ Outcome(h, y, e).handle = h /\ Outcome(h, y, e).descriptor = y
                   /\ Outcome(h, y, e).error = e
  BY OutcomeFields
<1> HIDE DEF refused, opened, sought, o
<1>5. CASE \E e : e # OK /\ r = Outcome(NoHandle, x, e)
  BY <1>5, <1>x, NoHandleSits
<1>6. ASSUME refused = OK
      PROVE  \A h : SameFile(opened, h) => Sits(media, d, x.path, h)
  <2>1. LiveIn(media, o)
    BY <1>2, <1>6, FoundLives, Zenon DEF o
  <2>2. media[o].kind = "file"
    BY <1>2, <1>6, <2>1 DEF Whole, Kinds, LiveIn
  <2>3. Sits(media, d, x.path, opened)
    BY <1>2, <1>3, <1>4, <1>6, <2>2, Zenon DEF Sits, o
  <2> QED
    BY <2>3, SitsSame
<1>7. CASE refused = OK /\ \E e \in Io \ {OK} : r = Outcome(opened, now_open, e)
  <2>1. r.handle = opened /\ r.error # OK
    BY <1>7, <1>x
  <2> QED
    BY <1>6, <1>7, <2>1, Zenon DEF SameFile
<1>8. CASE refused = OK /\ r = Outcome(sought, now_open, OK)
  <2>1. o \in Objects /\ x.position \in Nat /\ Len(media[o].data) \in Nat
    BY <1>2, <1>8 DEF DescriptorOK, MediaOK, EntryOK, IsSequence
  <2>2. HandleOK(opened)
    BY <2>1, FreshOK DEF opened
  <2>3. PICK u \in Nat : u = Min({x.position, Len(media[o].data)})
    BY <2>1, MinOfTwo
  <2>4. sought = AtOffset(opened, u)
    BY <2>3, Zenon DEF SeekTo, AtOffset, sought
  <2>5. SameFile(opened, sought) /\ sought.offset = u
    BY <2>2, <2>4, HandleOffset DEF SameFile
  <2>6. now_open.position = x.position
    BY ModePosition
  <2>7. r.handle = sought /\ r.descriptor = now_open
    BY <1>8, <1>x
  <2>8. r.handle.object = o
    BY <1>3, <2>5, <2>7 DEF SameFile
  <2> HIDE DEF now_open
  <2>9. Sits(media, d, x.path, r.handle)
    BY <1>6, <1>8, <2>5, <2>7, Zenon
  <2> QED
    BY <2>3, <2>5, <2>6, <2>7, <2>8, <2>9
<1> QED
  BY <1>1, <1>5, <1>7, <1>8

\* A call keeps hold of the file its descriptor is on, or lets it go.
LEMMA SwitchSits ==
  ASSUME FileInv, Calm(entries, handles, descriptors, current_directory),
         NEW d \in Files, descriptors[d].allocated, NEW mode, Allows(descriptors[d], mode),
         NEW r \in switch_mode(d, mode)
  PROVE  Sits(entries, d, descriptors[d].path, r.handle)
<1> DEFINE x == descriptors[d]
           h == handles[d]
           detached == InMode(AtPosition(x, h.offset), Closed)
<1>1. \/ x.open_mode = mode /\ r = Outcome(h, x, OK)
      \/ x.open_mode = Closed /\ r \in Reopen(entries, d, x, mode)
      \/ \E e \in Io \ {OK} : r = Outcome(NoHandle, detached, e)
      \/ r \in Reopen(entries, d, detached, mode)
  BY Zenon DEF switch_mode, InMode, AtPosition
<1>2. HandleOK(h) /\ DescriptorOK(x) /\ h.offset \in Nat /\ MediaOK(entries)
  BY DEF FileInv, TableInv, HandleOK
<1>3. Whole(entries) /\ IsPlace(x.path) /\ mode \in {"read", "write"}
  BY DEF Calm, SlotPlaced, IsBelow, Allows
<1>4. DescriptorOK(detached) /\ detached.path = x.path
  <2>1. DescriptorOK(AtPosition(x, h.offset)) /\ AtPosition(x, h.offset).path = x.path
    BY <1>2, DescriptorPosition DEF Same
  <2>2. DescriptorOK(detached) /\ detached.path = AtPosition(x, h.offset).path
    BY <2>1, DescriptorMode DEF Same
  <2> QED
    BY <2>1, <2>2
<1>5. SlotPlaced(entries, x.path, h, x) /\ AloneAt(handles)
  BY Zenon DEF Calm
<1> SUFFICES Sits(entries, d, x.path, r.handle)
  OBVIOUS
<1> HIDE DEF detached
<1>6. CASE x.open_mode = mode /\ r = Outcome(h, x, OK)
  <2>1. h.mode # Closed => ~Conflict(d, h.object, h.mode)
    BY <1>5, Zenon DEF AloneAt, Conflict
  <2>2. Sits(entries, d, x.path, h)
    BY <1>5, <2>1, Zenon DEF SlotPlaced, Sits
  <2>3. r.handle = h
    BY <1>6, OutcomeFields
  <2> QED
    BY <2>2, <2>3, Zenon
<1>7. CASE x.open_mode = Closed /\ r \in Reopen(entries, d, x, mode)
  BY <1>2, <1>3, <1>7, ReopenSits
<1>8. CASE \E e \in Io \ {OK} : r = Outcome(NoHandle, detached, e)
  BY <1>8, NoHandleSits, OutcomeFields
<1>9. CASE r \in Reopen(entries, d, detached, mode)
  BY <1>2, <1>3, <1>4, <1>9, ReopenSits
<1> QED
  BY <1>1, <1>6, <1>7, <1>8, <1>9

-----------------------------------------------------------------------------
(* What a call on a descriptor leaves *)

\* The data of the file a handle may write.
Writes(m1, m2, h) ==
  m2 = m1 \/ (h.mode = "write" /\ \E g : IsSequence(g) /\ m2 = WithData(m1, h.object, g))

\* FileX stands where the descriptor says, on media where files have those sizes.
AgreesOn(media, h, x) == h.offset = Min({x.position, Len(media[h.object].data)})

\* The step of a call that leaves r: the handle is on the file of the path, nothing but
\* the data of that file changes, and a success leaves handle and descriptor in step.
Leaves(d, r) ==
  /\ Good(r, descriptors[d]) /\ Finish(d, r)
  /\ Sits(entries, d, descriptors[d].path, r.handle)
  /\ Writes(entries, entries', r.handle)
  /\ r.error = OK => AgreesOn(entries', r.handle, r.descriptor)

\* A call that fails where it stands keeps what it has.
LEMMA LeavesFailed ==
  ASSUME FileInv, NEW d, NEW s, Good(s, descriptors[d]),
         Sits(entries, d, descriptors[d].path, s.handle), UNCHANGED entries
  PROVE  /\ s.error # OK /\ Finish(d, s) => Leaves(d, s)
         /\ \A e : e # OK /\ Finish(d, WithError(s, e)) => Leaves(d, WithError(s, e))
<1>1. Writes(entries, entries', s.handle)
  BY Zenon DEF Writes
<1>2. \A e : /\ Good(WithError(s, e), descriptors[d]) /\ WithError(s, e).handle = s.handle
             /\ WithError(s, e).error = e
  BY GoodSet, SetFields DEF Good
<1> QED
  BY <1>1, <1>2, Zenon DEF Leaves

\* Seeking to where one stands moves nothing.
LEMMA MinOfSmaller ==
  ASSUME NEW a \in Nat, NEW b \in Nat
  PROVE  /\ Min({Min({a, b}), b}) = Min({a, b})
         /\ a <= b => Min({a, b}) = a
<1>1. Min({a, b}) = IF a <= b THEN a ELSE b
  BY MinOfTwo
<1>2. PICK c \in Nat : c = Min({a, b})
  BY <1>1
<1>3. c <= b
  BY <1>1, <1>2
<1>4. Min({c, b}) = c
  BY <1>3, MinOfTwo
<1> QED
  BY <1>1, <1>2, <1>4

\* What _read leaves.
LEMMA ReadCall ==
  ASSUME FileInv, Calm(entries, handles, descriptors, current_directory),
         NEW d \in Files, NEW length \in Nat, Read(d, length)
  PROVE  \E r : Leaves(d, r)
<1>1. UNCHANGED entries
  BY DEF Read
<1>2. descriptors[d].allocated /\ Allows(descriptors[d], "read")
  BY DEF Read, Allows
<1>3. PICK r \in switch_mode(d, "read") :
        IF r.error # OK THEN Finish(d, r)
        ELSE \E e \in Io :
               Finish(d, MovedTo(r, IF e = OK
                                      THEN Min({r.handle.offset + length,
                                                Len(entries[r.handle.object].data)})
                                      ELSE r.handle.offset, e))
  BY Zenon DEF Read
<1>4. Good(r, descriptors[d]) /\ (r.error = OK => r.handle.mode = "read")
  BY <1>2, SwitchGood
<1>5. Sits(entries, d, descriptors[d].path, r.handle)
  BY <1>2, SwitchSits
<1>6. CASE r.error # OK
  BY <1>1, <1>3, <1>4, <1>5, <1>6, LeavesFailed
<1>7. CASE r.error = OK
  <2>1. PICK offset \in Nat, size \in Nat :
          offset = r.handle.offset /\ size = Len(entries[r.handle.object].data)
    BY <1>4, <1>7, GoodSize DEF Closed
  <2>2. offset + length \in Nat
    OBVIOUS
  <2>3. PICK v \in Nat : v = Min({offset + length, size})
    BY <2>2, MinOfTwo
  <2>4. Min({v, size}) = v
    BY <2>2, <2>3, MinOfSmaller
  <2>5. PICK u \in Nat, e \in Io : Finish(d, MovedTo(r, u, e)) /\ (e = OK => u = v)
    <3>1. PICK e \in Io :
            Finish(d, MovedTo(r, IF e = OK THEN Min({r.handle.offset + length,
                                                     Len(entries[r.handle.object].data)})
                                           ELSE r.handle.offset, e))
      BY <1>3, <1>7, Zenon
    <3>2. PICK u : u = IF e = OK THEN v ELSE offset
      OBVIOUS
    <3>3. Finish(d, MovedTo(r, u, e)) /\ u \in Nat
      BY <2>1, <2>3, <3>1, <3>2, Zenon
    <3> QED
      BY <3>2, <3>3
  <2> DEFINE q == MovedTo(r, u, e)
  <2>6. Good(q, descriptors[d])
    BY <1>4, MovedGood
  <2>7. /\ SameFile(r.handle, q.handle) /\ q.error = e
        /\ q.handle.offset = u /\ q.descriptor.position = u
    BY <1>4, MovedFields
  <2> HIDE DEF q
  <2>8. Sits(entries, d, descriptors[d].path, q.handle)
    BY <1>5, <2>7, SitsSame
  <2>9. q.error = OK => AgreesOn(entries', q.handle, q.descriptor)
    BY <1>1, <2>1, <2>4, <2>5, <2>7, Zenon DEF AgreesOn, SameFile
  <2>10. Writes(entries, entries', q.handle)
    BY <1>1, Zenon DEF Writes
  <2>11. Finish(d, q)
    BY <2>5 DEF q
  <2> QED
    BY <2>6, <2>8, <2>9, <2>10, <2>11, Zenon DEF Leaves
<1> QED
  BY <1>6, <1>7

\* The handle _lseek works on is one that switch_mode gives.
LEMMA SeekableMode ==
  ASSUME FileInv, NEW d \in Files, descriptors[d].allocated, NEW r \in SeekableHandle(d)
  PROVE  \E mode : Allows(descriptors[d], mode) /\ r \in switch_mode(d, mode)
<1> DEFINE mode == IF descriptors[d].readable THEN "read" ELSE "write"
<1>1. CASE descriptors[d].open_mode # Closed
  <2>1. r = Outcome(handles[d], descriptors[d], OK)
    BY <1>1, Zenon DEF SeekableHandle
  <2>2. r \in switch_mode(d, descriptors[d].open_mode)
    BY <2>1, Zenon DEF switch_mode
  <2>3. Allows(descriptors[d], descriptors[d].open_mode)
    BY <1>1 DEF FileInv, TableInv, HandleOK, HandlesAreTracked, Allows
  <2> QED
    BY <2>2, <2>3
<1>2. CASE descriptors[d].open_mode = Closed
  <2>1. r \in switch_mode(d, mode)
    BY <1>2, Zenon DEF SeekableHandle
  <2>2. descriptors[d].readable \/ descriptors[d].writable
    BY DEF FileInv, TableInv
  <2>3. Allows(descriptors[d], mode)
    BY <2>2 DEF Allows
  <2> QED
    BY <2>1, <2>3, Zenon
<1> QED
  BY <1>1, <1>2

\* What _lseek leaves.
LEMMA LseekCall ==
  ASSUME FileInv, Calm(entries, handles, descriptors, current_directory),
         NEW d \in Files, NEW offset \in Int,
         NEW origin \in {"SEEK_SET", "SEEK_CUR", "SEEK_END"}, Lseek(d, offset, origin)
  PROVE  \E r : Leaves(d, r)
<1>1. UNCHANGED entries /\ descriptors[d].allocated
  BY DEF Lseek
<1>2. "EOVERFLOW" # OK /\ "EINVAL" # OK
  BY DEF OK
<1>3. PICK r \in SeekableHandle(d) :
        \/ r.error # OK /\ Finish(d, r)
        \/ \E e : e # OK /\ Finish(d, WithError(r, e))
        \/ r.error = OK /\ \E target :
             /\ target = (CASE origin = "SEEK_SET" -> 0
                            [] origin = "SEEK_CUR" -> r.descriptor.position
                            [] origin = "SEEK_END" -> Len(entries[r.handle.object].data))
                         + offset
             /\ ~(target < 0)
             /\ Finish(d, Outcome(SeekTo(r.handle, target, Len(entries[r.handle.object].data)),
                                  AtPosition(r.descriptor, target), OK))
  BY <1>2, Zenon DEF Lseek, WithError, AtPosition
<1>4. Good(r, descriptors[d]) /\ (r.error = OK => r.handle.mode # Closed)
  BY <1>1, SeekableGood
<1>5. Sits(entries, d, descriptors[d].path, r.handle)
  BY <1>1, SeekableMode, SwitchSits
<1>6. CASE r.error # OK /\ Finish(d, r)
  BY <1>1, <1>4, <1>5, <1>6, LeavesFailed
<1>7. CASE \E e : e # OK /\ Finish(d, WithError(r, e))
  BY <1>1, <1>4, <1>5, <1>7, LeavesFailed
<1>8. ASSUME r.error = OK, NEW target, ~(target < 0),
             target = (CASE origin = "SEEK_SET" -> 0
                         [] origin = "SEEK_CUR" -> r.descriptor.position
                         [] origin = "SEEK_END" -> Len(entries[r.handle.object].data))
                      + offset,
             Finish(d, Outcome(SeekTo(r.handle, target, Len(entries[r.handle.object].data)),
                               AtPosition(r.descriptor, target), OK))
      PROVE  \E q : Leaves(d, q)
  <2>1. PICK size \in Nat : size = Len(entries[r.handle.object].data)
    BY <1>4, <1>8, GoodSize
  <2>2. target \in Nat
    <3>1. r.descriptor.position \in Nat
      BY <1>4, <1>8, GoodSize
    <3>2. PICK base \in Nat : target = base + offset
      BY <1>8, <2>1, <3>1
    <3> QED
      BY <1>8, <3>2
  <2> DEFINE q == Outcome(SeekTo(r.handle, target, size), AtPosition(r.descriptor, target), OK)
  <2>3. Good(q, descriptors[d])
    BY <1>4, <2>2, SoughtGood
  <2>4. /\ q.handle = SeekTo(r.handle, target, size)
        /\ q.descriptor = AtPosition(r.descriptor, target)
    BY OutcomeFields
  <2>5. Finish(d, q)
    BY <1>8, <2>1, Zenon
  <2> HIDE DEF q
  <2>6. SameFile(r.handle, q.handle) /\ q.handle.offset = Min({target, size})
    BY <1>4, <2>2, <2>4, SoughtFields
  <2>7. q.descriptor.position = target
    BY <1>4, <2>4, PositionSet DEF Good
  <2>8. Sits(entries, d, descriptors[d].path, q.handle)
    BY <1>5, <2>6, SitsSame
  <2>9. AgreesOn(entries', q.handle, q.descriptor)
    BY <1>1, <2>1, <2>6, <2>7, Zenon DEF AgreesOn, SameFile
  <2>10. Writes(entries, entries', q.handle)
    BY <1>1, Zenon DEF Writes
  <2> QED
    BY <2>3, <2>5, <2>8, <2>9, <2>10, Zenon DEF Leaves
<1> QED
  BY <1>3, <1>6, <1>7, <1>8, Zenon

\* The larger of two numbers.
LEMMA MaxIs ==
  ASSUME NEW a \in Nat, NEW b \in Nat
  PROVE  Max({a, b}) = IF a >= b THEN a ELSE b
<1>1. \E x \in {a, b} : \A y \in {a, b} : x >= y
  OBVIOUS
<1>2. Max({a, b}) \in {a, b} /\ \A y \in {a, b} : Max({a, b}) >= y
  BY <1>1, Zenon DEF Max
<1> QED
  BY <1>2

\* The file ends where it did or where the write ends.
LEMMA OverwrittenLength ==
  ASSUME NEW f, IsSequence(f), NEW offset \in Nat, NEW count \in Nat, NEW byte
  PROVE  Len(Overwritten(f, offset, count, byte)) = Max({Len(f), offset + count})
<1> DEFINE m == Max({Len(f), offset + count})
           g == Overwritten(f, offset, count, byte)
<1>1. m \in Nat
  <2>1. Len(f) \in Nat /\ offset + count \in Nat
    BY DEF IsSequence
  <2> QED
    BY <2>1, MaxOfTwo, Zenon
<1>2. g = [i \in 1 .. m |-> IF i > offset /\ i <= offset + count THEN byte ELSE f[i]]
  BY DEF Overwritten
<1> HIDE DEF m, g
<1>3. g = [i \in 1 .. m |-> g[i]]
  BY <1>2
<1>4. Len(g) = m
  BY <1>1, <1>3, MakeData
<1> QED
  BY <1>4 DEF g, m

\* The bytes of the file of a handle open for writing are replaced by g.
LEMMA WritesData ==
  ASSUME FileInv, NEW h, h.mode = "write", h.object \in Objects, NEW g, IsSequence(g),
         entries' = WithData(entries, h.object, g)
  PROVE  Writes(entries, entries', h) /\ entries'[h.object].data = g
<1>1. MediaOK(entries)
  BY DEF FileInv
<1>2. \A x \in Objects : WithData(entries, h.object, g)[x].data =
                           IF x = h.object THEN g ELSE entries[x].data
  BY <1>1, MediaData
<1> QED
  BY <1>2, Zenon DEF Writes

\* What _write leaves.
LEMMA WriteCall ==
  ASSUME FileInv, Calm(entries, handles, descriptors, current_directory),
         NEW d \in Files, NEW length \in Nat, Write(d, length)
  PROVE  \E r : Leaves(d, r)
<1>1. descriptors[d].allocated /\ Allows(descriptors[d], "write")
  BY DEF Write, Allows
<1>2. PICK s \in switch_mode(d, "write") :
        IF s.error # OK THEN Finish(d, s) /\ UNCHANGED entries
        ELSE \E r \in AtEnd(d, s, Len(entries[s.handle.object].data)) :
               IF r.error # OK THEN Finish(d, r) /\ UNCHANGED entries
               ELSE \E w \in WrittenCounts(r.handle.offset, length) :
                 /\ entries' = WithData(entries, s.handle.object,
                                 Overwritten(entries[s.handle.object].data,
                                             r.handle.offset, w[1], d))
                 /\ Finish(d, MovedTo(SetModified(r, r.handle.modified \/ w[1] > 0),
                                      r.handle.offset + w[1], w[2]))
  BY Zenon DEF Write, WithData, SetModified
<1>3. Good(s, descriptors[d]) /\ (s.error = OK => s.handle.mode = "write")
  BY <1>1, SwitchGood
<1>4. Sits(entries, d, descriptors[d].path, s.handle)
  BY <1>1, SwitchSits
<1>5. CASE s.error # OK
  BY <1>2, <1>3, <1>4, <1>5, LeavesFailed
<1>6. CASE s.error = OK
  <2> DEFINE o == s.handle.object
             data == entries[o].data
  <2>1. o \in Objects /\ IsSequence(data) /\ Len(data) \in Nat
    BY <1>3, <1>6, GoodSize DEF Closed
  <2>2. PICK r \in AtEnd(d, s, Len(data)) :
          IF r.error # OK THEN Finish(d, r) /\ UNCHANGED entries
          ELSE \E w \in WrittenCounts(r.handle.offset, length) :
            /\ entries' = WithData(entries, o, Overwritten(data, r.handle.offset, w[1], d))
            /\ Finish(d, MovedTo(SetModified(r, r.handle.modified \/ w[1] > 0),
                                 r.handle.offset + w[1], w[2]))
    BY <1>2, <1>6, Zenon
  <2> HIDE DEF data
  <2>3. Good(r, descriptors[d]) /\ SameFile(s.handle, r.handle)
    <3>1. PICK n \in Nat : n = Len(data)
      BY <2>1
    <3>2. r \in AtEnd(d, s, n)
      BY <3>1
    <3>3. Good(s, descriptors[d])
      BY <1>3
    <3>4. Good(r, descriptors[d])
      BY <1>6, <3>2, <3>3, AtEndGood
    <3>5. SameFile(s.handle, r.handle)
      BY <3>2, <3>3, AtEndFields
    <3> QED
      BY <3>4, <3>5
  <2>4. Sits(entries, d, descriptors[d].path, r.handle)
    BY <1>4, <2>3, SitsSame
  <2>5. CASE r.error # OK
    BY <2>2, <2>3, <2>4, <2>5, LeavesFailed
  <2>6. CASE r.error = OK
    <3>1. PICK w \in WrittenCounts(r.handle.offset, length) :
            /\ entries' = WithData(entries, o, Overwritten(data, r.handle.offset, w[1], d))
            /\ Finish(d, MovedTo(SetModified(r, r.handle.modified \/ w[1] > 0),
                                 r.handle.offset + w[1], w[2]))
      BY <2>2, <2>6, Zenon
    <3>2. r.handle.offset \in Nat /\ w[1] \in Nat
      <4>1. w[1] \in Nat
        BY <3>1 DEF WrittenCounts
      <4> QED
        BY <2>3, <4>1 DEF Good, HandleOK
    <3>3. PICK m : m = SetModified(r, r.handle.modified \/ w[1] > 0)
      OBVIOUS
    <3>4. Good(m, descriptors[d]) /\ SameFile(r.handle, m.handle)
      BY <2>3, <3>3, GoodSet, SetFields DEF Good
    <3>5. PICK v \in Nat : v = r.handle.offset + w[1]
      BY <3>2
    <3> DEFINE q == MovedTo(m, v, w[2])
               g == Overwritten(data, r.handle.offset, w[1], d)
    <3>6. /\ Good(q, descriptors[d]) /\ SameFile(m.handle, q.handle)
          /\ q.handle.offset = v /\ q.descriptor.position = v
      BY <3>4, MovedGood, MovedFields
    <3>7. Finish(d, q)
      BY <3>1, <3>3, <3>5, Zenon
    <3>8. IsSequence(g) /\ Len(g) = Max({Len(data), v})
      <4>1. /\ IsSequence(g)
            /\ \A i \in DOMAIN data \cap DOMAIN g :
                 g[i] # data[i] => g[i] = d /\ i > r.handle.offset /\ i \in 1 .. Len(data)
        BY <2>1, <3>2, OverwrittenData
      <4>2. Len(g) = Max({Len(data), r.handle.offset + w[1]})
        <5>1. \A offset \in Nat, count \in Nat : \A byte :
                Len(Overwritten(data, offset, count, byte)) = Max({Len(data), offset + count})
          BY <2>1, OverwrittenLength
        <5> QED
          BY <3>2, <5>1, Zenon
      <4> QED
        BY <3>5, <4>1, <4>2, Zenon
    <3>9. entries' = WithData(entries, o, g)
      BY <3>1, Zenon
    <3> HIDE DEF q, g
    <3>10. q.handle.mode = "write" /\ q.handle.object = o
      BY <1>3, <1>6, <2>3, <3>4, <3>6 DEF SameFile
    <3>11. Sits(entries, d, descriptors[d].path, q.handle)
      BY <2>4, <3>4, <3>6, SitsSame
    <3>12. Writes(entries, entries', q.handle) /\ entries'[q.handle.object].data = g
      BY <2>1, <3>8, <3>9, <3>10, WritesData
    <3>13. AgreesOn(entries', q.handle, q.descriptor)
      <4>1. PICK n \in Nat : n = Len(data)
        BY <2>1
      <4>2. PICK z \in Nat : z = Max({n, v}) /\ v <= z
        BY MaxIs
      <4>3. Min({v, z}) = v
        BY <4>2, MinOfSmaller
      <4> QED
        BY <3>6, <3>8, <3>12, <4>1, <4>2, <4>3, Zenon DEF AgreesOn
    <3> QED
      BY <3>6, <3>7, <3>11, <3>12, <3>13, Zenon DEF Leaves
  <2> QED
    BY <2>5, <2>6
<1> QED
  BY <1>5, <1>6

\* The end of _ftruncate, on media where the file has the length asked for.
LEMMA TruncatedCall ==
  ASSUME FileInv, NEW d \in Files, NEW length \in Nat, NEW q, Good(q, descriptors[d]),
         Sits(entries, d, descriptors[d].path, q.handle),
         q.handle.mode = "write", q.handle.object \in Objects,
         NEW g, IsSequence(g), Len(g) = length,
         entries' = WithData(entries, q.handle.object, g),
         NEW r \in BackInto(q, length, length), Finish(d, r)
  PROVE  Leaves(d, r)
<1>1. Good(r, descriptors[d])
  BY BackIntoGood
<1>2. /\ SameFile(q.handle, r.handle)
      /\ r.error = OK => r.handle.offset = Min({r.descriptor.position, length})
  BY BackIntoFields
<1>3. r.handle.mode = "write" /\ r.handle.object = q.handle.object
  BY <1>2, Zenon DEF SameFile
<1>4. Writes(entries, entries', r.handle) /\ entries'[r.handle.object].data = g
  BY <1>3, WritesData
<1>5. Sits(entries, d, descriptors[d].path, r.handle)
  BY <1>2, SitsSame
<1>6. r.error = OK => AgreesOn(entries', r.handle, r.descriptor)
  BY <1>2, <1>4, Zenon DEF AgreesOn
<1> QED
  BY <1>1, <1>4, <1>5, <1>6, Zenon DEF Leaves

\* What _ftruncate leaves.
LEMMA FtruncateCall ==
  ASSUME FileInv, Calm(entries, handles, descriptors, current_directory),
         NEW d \in Files, NEW length \in Nat, Ftruncate(d, length)
  PROVE  \E r : Leaves(d, r)
<1>1. descriptors[d].allocated /\ Allows(descriptors[d], "write")
  BY DEF Ftruncate, Allows
<1>2. PICK s \in switch_mode(d, "write") :
        LET o == s.handle.object
            size == Len(entries[o].data)
            shrunk == [s EXCEPT !.handle.modified = TRUE, !.handle.offset = Min({@, length})]
        IN  IF s.error # OK THEN Finish(d, s) /\ UNCHANGED entries
            ELSE
            \/ /\ length <= size
               /\ entries' = [entries EXCEPT ![o].data = SubSeq(@, 1, length)]
               /\ \E r \in BackInto(IF length < size THEN shrunk ELSE s, length, length) :
                    Finish(d, r)
            \/ UNCHANGED entries /\ \E e \in Io \ {OK} : Finish(d, [s EXCEPT !.error = e])
            \/ /\ length > size
               /\ \E z \in ZeroCounts(size, length) :
                    LET grown == [s EXCEPT !.handle.modified = @ \/ z[1] > 0,
                                           !.handle.offset = size + z[1],
                                           !.error = z[2]]
                    IN  /\ entries' = [entries EXCEPT ![o].data = Overwritten(@, size, z[1], 0)]
                        /\ \E r \in (IF z[2] = OK THEN BackInto(grown, length, length)
                                                  ELSE {grown}) : Finish(d, r)
  BY Zenon DEF Ftruncate
<1> DEFINE o == s.handle.object
           data == entries[o].data
           size == Len(data)
           shrunk == [s EXCEPT !.handle.modified = TRUE, !.handle.offset = Min({@, length})]
           Grown(z) == [s EXCEPT !.handle.modified = @ \/ z[1] > 0,
                                 !.handle.offset = size + z[1],
                                 !.error = z[2]]
           cut == [entries EXCEPT ![o].data = SubSeq(@, 1, length)]
           Filled(z) == [entries EXCEPT ![o].data = Overwritten(@, size, z[1], 0)]
<1>3. \/ s.error # OK /\ UNCHANGED entries /\ Finish(d, s)
      \/ UNCHANGED entries /\ \E e \in Io \ {OK} : Finish(d, [s EXCEPT !.error = e])
      \/ /\ s.error = OK /\ length <= size /\ entries' = cut
         /\ \E r \in BackInto(IF length < size THEN shrunk ELSE s, length, length) :
              Finish(d, r)
      \/ /\ s.error = OK /\ length > size
         /\ \E z \in ZeroCounts(size, length) :
              /\ entries' = Filled(z)
              /\ \E r \in (IF z[2] = OK THEN BackInto(Grown(z), length, length)
                                        ELSE {Grown(z)}) : Finish(d, r)
  BY <1>2, Zenon
<1>4. shrunk = SetOffset(SetModified(s, TRUE),
                         Min({SetModified(s, TRUE).handle.offset, length}))
  BY Zenon DEF SetModified, SetOffset
<1>5. \A z : Grown(z) = WithError(SetOffset(SetModified(s, s.handle.modified \/ z[1] > 0),
                                            size + z[1]), z[2])
  BY Zenon DEF SetModified, SetOffset, WithError
<1>6. cut = WithData(entries, o, SubSeq(data, 1, length))
  BY Zenon DEF WithData
<1>7. \A z : Filled(z) = WithData(entries, o, Overwritten(data, size, z[1], 0))
  BY Zenon DEF WithData
<1>8. \A e : [s EXCEPT !.error = e] = WithError(s, e)
  BY Zenon DEF WithError
<1>9. Good(s, descriptors[d]) /\ (s.error = OK => s.handle.mode = "write")
  BY <1>1, SwitchGood
<1>10. Sits(entries, d, descriptors[d].path, s.handle)
  BY <1>1, SwitchSits
<1>11. s.error = OK => o \in Objects /\ IsSequence(data) /\ size \in Nat /\ s.handle.offset \in Nat
  BY <1>9, GoodSize DEF Closed
<1>12. CASE s.error # OK /\ UNCHANGED entries /\ Finish(d, s)
  BY <1>9, <1>10, <1>12, LeavesFailed
<1>13. CASE UNCHANGED entries /\ \E e \in Io \ {OK} : Finish(d, [s EXCEPT !.error = e])
  <2>1. PICK e : e # OK /\ Finish(d, WithError(s, e))
    BY <1>8, <1>13, Zenon
  <2> QED
    BY <1>9, <1>10, <1>13, <2>1, LeavesFailed
<1> HIDE DEF o, data, size, shrunk, Grown, cut, Filled
<1>14. CASE /\ s.error = OK /\ length <= size /\ entries' = cut
            /\ \E r \in BackInto(IF length < size THEN shrunk ELSE s, length, length) :
                 Finish(d, r)
  <2>1. /\ Good(SetModified(s, TRUE), descriptors[d])
        /\ SetModified(s, TRUE).handle.offset = s.handle.offset
        /\ SameFile(s.handle, SetModified(s, TRUE).handle)
    <3>1. \A v : /\ Good(SetModified(s, v), descriptors[d])
                 /\ SetModified(s, v).handle.offset = s.handle.offset
                 /\ SameFile(s.handle, SetModified(s, v).handle)
      BY <1>9, GoodSet, SetFields DEF Good
    <3> QED
      BY <3>1, Zenon
  <2>2. Min({SetModified(s, TRUE).handle.offset, length}) \in Nat
    <3>1. SetModified(s, TRUE).handle.offset \in Nat
      BY <1>11, <1>14, <2>1
    <3> QED
      BY <3>1, MinOfTwo
  <2>3. PICK v \in Nat : shrunk = SetOffset(SetModified(s, TRUE), v)
    BY <1>4, <2>2, Zenon
  <2> DEFINE m == SetModified(s, TRUE)
  <2> HIDE DEF m
  <2>4. Good(shrunk, descriptors[d]) /\ SameFile(m.handle, shrunk.handle)
    <3>1. Good(m, descriptors[d]) /\ shrunk = SetOffset(m, v)
      BY <2>1, <2>3 DEF m
    <3> QED
      BY <3>1, GoodSet, SetFields DEF Good
  <2>5. SameFile(s.handle, shrunk.handle) /\ SameFile(s.handle, s.handle)
    BY <2>1, <2>4, Zenon DEF SameFile, m
  <2>6. PICK q : /\ Good(q, descriptors[d]) /\ SameFile(s.handle, q.handle)
                 /\ \E r \in BackInto(q, length, length) : Finish(d, r)
    BY <1>9, <1>14, <2>4, <2>5, Zenon
  <2>7. PICK r \in BackInto(q, length, length) : Finish(d, r)
    BY <2>6
  <2>8. PICK g : IsSequence(g) /\ Len(g) = length /\ entries' = WithData(entries, o, g)
    <3>1. LET g == SubSeq(data, 1, length)
          IN  IsSequence(g) /\ Len(g) = length /\ \A i \in 1 .. length : g[i] = data[i]
      BY <1>11, <1>14, ShortenedData, Zenon DEF size
    <3> QED
      BY <1>6, <1>14, <3>1, Zenon
  <2>9. q.handle.mode = "write" /\ q.handle.object = o /\ o \in Objects
    BY <1>9, <1>11, <1>14, <2>6 DEF SameFile, o
  <2>10. Sits(entries, d, descriptors[d].path, q.handle)
    BY <1>10, <2>6, SitsSame
  <2> QED
    BY <2>6, <2>7, <2>8, <2>9, <2>10, TruncatedCall
<1>15. CASE /\ s.error = OK /\ length > size
            /\ \E z \in ZeroCounts(size, length) :
                 /\ entries' = Filled(z)
                 /\ \E r \in (IF z[2] = OK THEN BackInto(Grown(z), length, length)
                                           ELSE {Grown(z)}) : Finish(d, r)
  <2>1. PICK z \in ZeroCounts(size, length) :
          /\ entries' = Filled(z)
          /\ \E r \in (IF z[2] = OK THEN BackInto(Grown(z), length, length)
                                    ELSE {Grown(z)}) : Finish(d, r)
    BY <1>15, Zenon
  <2>2. z[1] \in Nat /\ (z[2] = OK => size + z[1] = length)
    BY <1>11, <1>15, <2>1 DEF ZeroCounts, OK
  <2>3. PICK m : m = SetModified(s, s.handle.modified \/ z[1] > 0)
    OBVIOUS
  <2>4. Good(m, descriptors[d]) /\ SameFile(s.handle, m.handle)
    <3>1. \A b : /\ Good(SetModified(s, b), descriptors[d])
                 /\ SameFile(s.handle, SetModified(s, b).handle)
      BY <1>9, GoodSet, SetFields DEF Good
    <3> QED
      BY <2>3, <3>1, Zenon
  <2>5. PICK v \in Nat : v = size + z[1]
    BY <1>11, <1>15, <2>2
  <2>6. PICK q : q = Grown(z)
    OBVIOUS
  <2>7. q = WithError(SetOffset(m, v), z[2])
    BY <1>5, <2>3, <2>5, <2>6, Zenon
  <2>8. /\ Good(SetOffset(m, v), descriptors[d])
        /\ SameFile(m.handle, SetOffset(m, v).handle)
    BY <2>4, GoodSet, SetFields DEF Good
  <2>9. /\ Good(q, descriptors[d]) /\ q.handle = SetOffset(m, v).handle
        /\ q.error = z[2]
    BY <2>7, <2>8, GoodSet, SetFields DEF Good
  <2>10. SameFile(s.handle, q.handle)
    BY <2>4, <2>8, <2>9, Zenon DEF SameFile
  <2>11. Sits(entries, d, descriptors[d].path, q.handle)
    BY <1>10, <2>10, SitsSame
  <2>12. q.handle.mode = "write" /\ q.handle.object = o /\ o \in Objects
    BY <1>9, <1>11, <1>15, <2>10 DEF SameFile, o
  <2> DEFINE g == Overwritten(data, size, z[1], 0)
  <2>13. IsSequence(g)
    <3>1. /\ IsSequence(g)
          /\ \A i \in DOMAIN data \cap DOMAIN g :
               g[i] # data[i] => g[i] = 0 /\ i > size /\ i \in 1 .. Len(data)
      BY <1>11, <1>15, <2>2, OverwrittenData
    <3> QED
      BY <3>1
  <2>14. z[2] = OK => Len(g) = length
    <3>1. \A offset \in Nat, count \in Nat : \A byte :
            Len(Overwritten(data, offset, count, byte)) = Max({Len(data), offset + count})
      BY <1>11, <1>15, OverwrittenLength
    <3>2. Len(g) = Max({size, v})
      BY <1>11, <1>15, <2>2, <2>5, <3>1, Zenon DEF size
    <3>3. v > size => Max({size, v}) = v
      BY <1>11, <1>15, MaxIs
    <3> QED
      BY <1>15, <2>2, <2>5, <3>2, <3>3
  <2>15. entries' = WithData(entries, o, g)
    BY <1>7, <2>1, Zenon
  <2> HIDE DEF g
  <2>16. CASE z[2] = OK
    <3>1. PICK r \in BackInto(q, length, length) : Finish(d, r)
      BY <2>1, <2>6, <2>16, Zenon
    <3> QED
      BY <2>9, <2>11, <2>12, <2>13, <2>14, <2>15, <2>16, <3>1, TruncatedCall
  <2>17. CASE z[2] # OK
    <3>1. Finish(d, q)
      BY <2>1, <2>6, <2>17, Zenon
    <3>2. Writes(entries, entries', q.handle)
      BY <2>12, <2>13, <2>15, WritesData
    <3> QED
      BY <2>9, <2>11, <2>17, <3>1, <3>2, Zenon DEF Leaves
  <2> QED
    BY <2>16, <2>17
<1> QED
  BY <1>3, <1>12, <1>13, <1>14, <1>15

-----------------------------------------------------------------------------
(* One slot of the table changes *)

\* A write changes contents only.
LEMMA DataTree ==
  ASSUME NEW media, MediaOK(media), NEW o, NEW f
  PROVE  /\ SameTree(media, WithData(media, o, f))
         /\ \A x \in Objects : WithData(media, o, f)[x].stale = media[x].stale
<1>1. PICK m : m = [media EXCEPT ![o].data = f]
  OBVIOUS
<1>2. ASSUME NEW x \in Objects
      PROVE  /\ m[x].kind = media[x].kind /\ m[x].parent = media[x].parent
             /\ m[x].name = media[x].name /\ m[x].stale = media[x].stale
  <2>1. CASE x = o
    <3>1. PICK e : e = media[x]
      OBVIOUS
    <3>2. m[x] = [e EXCEPT !.data = f]
      BY <1>1, <2>1, <3>1 DEF MediaOK
    <3>3. IsEntry(e)
      BY <3>1 DEF MediaOK, EntryOK
    <3>4. PICK q : q = [e EXCEPT !.data = f]
      OBVIOUS
    <3>5. q.kind = e.kind /\ q.parent = e.parent /\ q.name = e.name /\ q.stale = e.stale
      BY <3>3, <3>4 DEF IsEntry
    <3> QED
      BY <3>1, <3>2, <3>4, <3>5
  <2>2. CASE x # o
    <3>1. m[x] = media[x]
      BY <1>1, <2>2 DEF MediaOK
    <3> QED
      BY <3>1
  <2> QED
    BY <2>1, <2>2
<1> QED
  BY <1>1, <1>2, Zenon DEF WithData, SameTree

\* What a write leaves alone.
LEMMA WritesTree ==
  ASSUME NEW m1, MediaOK(m1), NEW m2, NEW h, Writes(m1, m2, h)
  PROVE  /\ SameTree(m1, m2)
         /\ Current(m1) => Current(m2)
         /\ \A x \in Objects : h.mode # "write" \/ x # h.object => m2[x].data = m1[x].data
<1>1. CASE m2 = m1
  BY <1>1, Zenon DEF SameTree
<1>2. CASE m2 # m1
  <2>1. PICK g : h.mode = "write" /\ IsSequence(g) /\ m2 = WithData(m1, h.object, g)
    BY <1>2, Zenon DEF Writes
  <2>2. SameTree(m1, m2) /\ \A x \in Objects : m2[x].stale = m1[x].stale
    BY <2>1, DataTree
  <2>3. \A x \in Objects : x # h.object => m2[x].data = m1[x].data
    BY <2>1, MediaData
  <2> QED
    BY <2>1, <2>2, <2>3, Zenon DEF Current
<1> QED
  BY <1>1, <1>2

\* A slot when the media change around its file.
LEMMA SlotMedia ==
  ASSUME NEW m1, NEW m2, NEW p, NEW h, NEW x, SlotPlaced(m1, p, h, x),
         x.allocated /\ LiveIn(m2, x.object) =>
           LiveIn(m1, x.object) /\ ObjectIn(m2, p) = ObjectIn(m1, p),
         h.mode # Closed =>
           m2[h.object].kind = m1[h.object].kind /\ ObjectIn(m2, p) = ObjectIn(m1, p)
  PROVE  SlotPlaced(m2, p, h, x)
BY Zenon DEF SlotPlaced

\* A slot when contents change.
LEMMA SlotSameTree ==
  ASSUME NEW m1, Whole(m1), NEW m2, SameTree(m1, m2), NEW h, NEW x,
         SlotPlaced(m1, x.path, h, x)
  PROVE  SlotPlaced(m2, x.path, h, x)
<1>1. x.allocated => IsPlace(x.path) /\ x.object \in Objects
  BY Zenon DEF SlotPlaced, IsBelow
<1>2. x.allocated => ObjectIn(m2, x.path) = ObjectIn(m1, x.path)
  BY <1>1, SameLeads
<1>3. h.mode # Closed => x.allocated /\ h.object \in Objects
  BY Zenon DEF SlotPlaced
<1> QED
  BY <1>1, <1>2, <1>3, SlotMedia, Zenon DEF SameTree, LiveIn

\* A path leads to a root, to an object of the media or to nothing.
LEMMA LeadsToOne ==
  ASSUME NEW media, Whole(media), NEW path, IsPlace(path), ObjectIn(media, path) # NoObject
  PROVE  \/ ObjectIn(media, path) \in {-1, -2}
         \/ ObjectIn(media, path) \in Objects /\ LiveIn(media, ObjectIn(media, path))
<1>1. IsSequence(path) /\ Len(path) >= 1 /\ Len(path) \in Nat
  BY DEF IsPlace, IsSequence
<1>2. CASE Len(path) = 1
  BY <1>1, <1>2, LeadsTo
<1>3. CASE Len(path) >= 2
  <2>1. IsChild(media, ObjectIn(media, Front(path)), Last(path), ObjectIn(media, path))
    BY <1>1, <1>3, LeadsTo
  <2> QED
    BY <2>1, Zenon DEF IsChild
<1>4. \A n \in Nat : n >= 1 => n = 1 \/ n >= 2
  OBVIOUS
<1> QED
  BY <1>1, <1>2, <1>3, <1>4, Zenon

\* The roots and the objects of kind dir are the directories.
LEMMA DirectoryOnes ==
  ASSUME NEW media
  PROVE  /\ \A o \in {-1, -2} : DirectoryIn(media, o)
         /\ ~DirectoryIn(media, NoObject)
         /\ \A o \in Objects : DirectoryIn(media, o) <=> media[o].kind = "dir"
<1>1. \A o \in {-1, -2} : DirectoryIn(media, o)
  BY DEF DirectoryIn
<1>2. ~DirectoryIn(media, NoObject)
  BY DEF DirectoryIn, NoObject
<1>3. \A o \in Objects : DirectoryIn(media, o) <=> media[o].kind = "dir"
  BY DirectoryMeans
<1> QED
  BY <1>1, <1>2, <1>3

\* A directory stays one while the entry it has stays a directory.
LEMMA DirectoryMedia ==
  ASSUME NEW m1, Whole(m1), NEW m2, NEW p, IsPlace(p), DirectoryIn(m1, ObjectIn(m1, p)),
         ObjectIn(m2, p) = ObjectIn(m1, p),
         \A o \in Objects : o = ObjectIn(m1, p) => m2[o].kind = m1[o].kind
  PROVE  DirectoryIn(m2, ObjectIn(m2, p))
<1>1. PICK o : o = ObjectIn(m1, p)
  OBVIOUS
<1>2. o # NoObject
  BY <1>1, DirectoryOnes, Zenon
<1>3. o \in {-1, -2} \/ o \in Objects
  BY <1>1, <1>2, LeadsToOne, Zenon
<1> QED
  BY <1>1, <1>3, DirectoryOnes, Zenon

\* The working directory when contents change.
LEMMA DirectorySameTree ==
  ASSUME NEW m1, Whole(m1), NEW m2, SameTree(m1, m2), NEW cwd, DirectoryAt(m1, cwd, cwd)
  PROVE  DirectoryAt(m2, cwd, cwd)
<1>1. CASE virtual_root(cwd)
  BY <1>1, Zenon DEF DirectoryAt
<1>2. CASE ~virtual_root(cwd)
  <2>1. IsPlace(cwd) /\ DirectoryIn(m1, ObjectIn(m1, cwd))
    BY <1>2, Zenon DEF DirectoryAt
  <2>2. ObjectIn(m2, cwd) = ObjectIn(m1, cwd)
    BY <2>1, SameLeads
  <2>3. \A o \in Objects : m2[o].kind = m1[o].kind
    BY Zenon DEF SameTree
  <2>4. DirectoryIn(m2, ObjectIn(m2, cwd))
    BY <2>1, <2>2, <2>3, DirectoryMedia
  <2> QED
    BY <2>1, <2>4, Zenon DEF DirectoryAt
<1> QED
  BY <1>1, <1>2

\* One slot changes and its handle excludes no other.
LEMMA SlotCalm ==
  ASSUME NEW m1, NEW hs, NEW ds, NEW cwd, Calm(m1, hs, ds, cwd),
         NEW m2, SameTree(m1, m2), Current(m2),
         DOMAIN hs = Files, DOMAIN ds = Files, NEW d \in Files,
         NEW h, NEW y, SlotPlaced(m1, y.path, h, y),
         h.mode # Closed =>
           \A c \in Files \ {d} :
             ~(hs[c].object = h.object /\ (h.mode = "write" \/ hs[c].mode = "write"))
  PROVE  Calm(m2, [hs EXCEPT ![d] = h], [ds EXCEPT ![d] = y], cwd)
<1>1. PICK hs2, ds2 : hs2 = [hs EXCEPT ![d] = h] /\ ds2 = [ds EXCEPT ![d] = y]
  OBVIOUS
<1>2. \A c \in Files : /\ hs2[c] = IF c = d THEN h ELSE hs[c]
                       /\ ds2[c] = IF c = d THEN y ELSE ds[c]
  BY <1>1
<1>3. /\ Whole(m1) /\ AloneAt(hs) /\ DirectoryAt(m1, cwd, cwd)
      /\ \A c \in Files : SlotPlaced(m1, ds[c].path, hs[c], ds[c])
  BY Zenon DEF Calm
<1>4. Whole(m2) /\ DirectoryAt(m2, cwd, cwd)
  BY <1>3, SameWhole, DirectorySameTree
<1>5. ASSUME NEW c \in Files
      PROVE  SlotPlaced(m2, ds2[c].path, hs2[c], ds2[c])
  <2>1. SlotPlaced(m2, y.path, h, y)
    BY <1>3, SlotSameTree
  <2>2. SlotPlaced(m2, ds[c].path, hs[c], ds[c])
    BY <1>3, SlotSameTree
  <2> QED
    BY <1>2, <2>1, <2>2, Zenon
<1>6. AloneAt(hs2)
  <2> SUFFICES ASSUME NEW c \in Files, NEW e \in Files, c # e, hs2[c].mode = "write"
               PROVE  hs2[e].object # hs2[c].object
    BY Zenon DEF AloneAt
  <2>1. CASE c = d
    <3>1. h.mode = "write" /\ h.mode # Closed /\ hs2[e] = hs[e] /\ e \in Files \ {d}
      BY <1>2, <2>1 DEF Closed
    <3> QED
      BY <1>2, <2>1, <3>1, Zenon
  <2>2. CASE c # d /\ e = d
    <3>1. hs[c].mode = "write" /\ hs[c].mode # Closed /\ hs2[c] = hs[c] /\ hs2[e] = h
      BY <1>2, <2>2 DEF Closed
    <3>2. hs[c].object \in Objects
      BY <1>3, <3>1, Zenon DEF SlotPlaced
    <3>3. h.mode = Closed => h.object = NoObject
      BY Zenon DEF SlotPlaced
    <3> QED
      BY <2>2, <3>1, <3>2, <3>3, ObjectNumbers
  <2>3. CASE c # d /\ e # d
    BY <1>2, <1>3, <2>3, Zenon DEF AloneAt
  <2> QED
    BY <2>1, <2>2, <2>3
<1> QED
  BY <1>1, <1>4, <1>5, <1>6, Zenon DEF Calm

\* Where FileX stands in an open file.
StandsAt(media, h, x) == h.mode # Closed => AgreesOn(media, h, x)

\* What SuccessKeepsOffset says of one step.
OffsetStep ==
  \A d \in Files :
    StandsAt(entries, handles[d], descriptors[d])
      /\ ~StandsAt(entries', handles'[d], descriptors'[d])
    => result' = "error"

\* The effect of any call that works on one descriptor.
LEMMA LeavesCalm ==
  ASSUME FileInv, Calm(entries, handles, descriptors, current_directory),
         NEW d \in Files, descriptors[d].allocated, NEW r, Leaves(d, r)
  PROVE  Calm(entries', handles', descriptors', current_directory') /\ OffsetStep
<1>1. /\ handles' = [handles EXCEPT ![d] = r.handle]
      /\ descriptors' = [descriptors EXCEPT ![d] = r.descriptor]
      /\ result' = Returned(r.error) /\ UNCHANGED current_directory
  BY DEF Leaves, Finish
<1>2. DOMAIN handles = Files /\ DOMAIN descriptors = Files /\ MediaOK(entries)
  BY DEF FileInv, TableInv
<1>3. /\ SameTree(entries, entries')
      /\ Current(entries) => Current(entries')
      /\ \A x \in Objects : r.handle.mode # "write" \/ x # r.handle.object =>
                             entries'[x].data = entries[x].data
  BY <1>2, WritesTree DEF Leaves
<1>4. Sits(entries, d, descriptors[d].path, r.handle) /\ Same(descriptors[d], r.descriptor)
  BY DEF Leaves, Good
<1>5. SlotPlaced(entries, r.descriptor.path, r.handle, r.descriptor)
  <2>1. SlotPlaced(entries, descriptors[d].path, handles[d], descriptors[d])
    BY Zenon DEF Calm
  <2> QED
    BY <1>4, <2>1, Zenon DEF SlotPlaced, Same, SameFlags, Sits
<1>6. r.handle.mode # Closed =>
        \A c \in Files \ {d} :
          ~(handles[c].object = r.handle.object
              /\ (r.handle.mode = "write" \/ handles[c].mode = "write"))
  BY <1>4, Zenon DEF Sits, Conflict
<1>7. Calm(entries', handles', descriptors', current_directory')
  <2>1. Calm(entries', handles', descriptors', current_directory)
    <3>1. Current(entries')
      BY <1>3, Zenon DEF Calm
    <3>2. Calm(entries', [handles EXCEPT ![d] = r.handle],
               [descriptors EXCEPT ![d] = r.descriptor], current_directory)
      BY <1>2, <1>3, <1>5, <1>6, <3>1, SlotCalm
    <3> QED
      BY <1>1, <3>2, Zenon
  <2> QED
    BY <1>1, <2>1, Zenon
<1>8. OffsetStep
  <2> SUFFICES ASSUME NEW c \in Files,
                      StandsAt(entries, handles[c], descriptors[c]),
                      ~StandsAt(entries', handles'[c], descriptors'[c])
               PROVE  result' = "error"
    BY Zenon DEF OffsetStep
  <2>1. CASE c = d
    <3>1. handles'[c] = r.handle /\ descriptors'[c] = r.descriptor
      BY <1>1, <1>2, <2>1
    <3>2. r.error # OK
      BY <3>1, Zenon DEF Leaves, StandsAt
    <3> QED
      BY <1>1, <3>2, Zenon DEF Returned
  <2>2. CASE c # d
    <3>1. handles'[c] = handles[c] /\ descriptors'[c] = descriptors[c]
      BY <1>1, <1>2, <2>2
    <3>2. handles[c].mode # Closed /\ handles[c].object \in Objects
      BY <3>1, Zenon DEF StandsAt, Calm, SlotPlaced
    <3>3. r.handle.mode # "write" \/ handles[c].object # r.handle.object
      <4>1. r.handle.mode = "write" => r.handle.mode # Closed
        BY DEF Closed
      <4> QED
        BY <1>6, <2>2, <4>1
    <3>4. entries'[handles[c].object].data = entries[handles[c].object].data
      BY <1>3, <3>2, <3>3, Zenon
    <3>5. FALSE
      BY <3>1, <3>4, Zenon DEF StandsAt, AgreesOn
    <3> QED
      BY <3>5
  <2> QED
    BY <2>1, <2>2
<1> QED
  BY <1>7, <1>8

-----------------------------------------------------------------------------
(* normalize_path *)

\* A sequence that is not empty has an element.
LEMMA NotEmpty ==
  ASSUME NEW s, IsSequence(s), s # <<>>
  PROVE  Len(s) >= 1 /\ Len(s) \in Nat
<1>1. PICK S : s \in Seq(S)
  BY SequenceIn
<1>2. Len(s) \in Nat \ {0}
  BY <1>1, EmptySeq
<1> QED
  BY <1>2

\* A sequence with one more element.
LEMMA Appending ==
  ASSUME NEW s, IsSequence(s), NEW x
  PROVE  IsSequence(Append(s, x))
<1>1. PICK S : s \in Seq(S)
  BY SequenceIn
<1>2. s \in Seq(S \cup {x})
  BY <1>1
<1>3. Append(s, x) \in Seq(S \cup {x})
  BY <1>2
<1> QED
  BY <1>3, InSequence

\* The output so far.
IsOutput(output) ==
  /\ output = [error |-> output.error, path |-> output.path]
  /\ IsSequence(output.path)

\* A round of the loop keeps the output a sequence.
LEMMA NormalizeStepKeeps ==
  ASSUME NEW maximum, NEW output, IsOutput(output), NEW component
  PROVE  IsOutput(NormalizeStep(maximum, output, component))
<1>1. PICK q : q = NormalizeStep(maximum, output, component)
  OBVIOUS
<1>2. \/ q = output
      \/ \E e : q = [output EXCEPT !.error = e]
      \/ output.path # <<>> /\ q = [output EXCEPT !.path = Front(@)]
      \/ q = [output EXCEPT !.path = Append(@, component)]
  BY <1>1, Zenon DEF NormalizeStep
<1>3. CASE \E e : q = [output EXCEPT !.error = e]
  BY <1>1, <1>3 DEF IsOutput
<1>4. CASE output.path # <<>> /\ q = [output EXCEPT !.path = Front(@)]
  <2>1. PICK f : f = Front(output.path)
    OBVIOUS
  <2>2. IsSequence(f)
    BY <1>4, <2>1, NotEmpty, FrontPart DEF IsOutput
  <2>3. q = [output EXCEPT !.path = f]
    BY <1>4, <2>1, Zenon
  <2> QED
    BY <1>1, <2>2, <2>3 DEF IsOutput
<1>5. CASE q = [output EXCEPT !.path = Append(@, component)]
  <2>1. PICK f : f = Append(output.path, component)
    OBVIOUS
  <2>2. IsSequence(f)
    BY <2>1, Appending DEF IsOutput
  <2>3. q = [output EXCEPT !.path = f]
    BY <1>5, <2>1, Zenon
  <2> QED
    BY <1>1, <2>2, <2>3 DEF IsOutput
<1> QED
  BY <1>1, <1>2, <1>3, <1>4, <1>5

\* The output after i components, given what f says of i - 1.
OutputStep(maximum, source, f, i) ==
  IF i = 0 THEN [error |-> OK, path |-> <<>>] ELSE NormalizeStep(maximum, f[i - 1], source[i])

\* There is an output after n components, for every n.
LEMMA OutputExists ==
  ASSUME NEW maximum, NEW source
  PROVE  \A n \in Nat : \E f : f = [i \in 0 .. n |-> OutputStep(maximum, source, f, i)]
<1> DEFINE S == {n \in Nat : \E f : f = [i \in 0 .. n |-> OutputStep(maximum, source, f, i)]}
<1>1. 0 \in S
  <2>1. PICK f : f = [i \in 0 .. 0 |-> [error |-> OK, path |-> <<>>]]
    OBVIOUS
  <2>2. f = [i \in 0 .. 0 |-> OutputStep(maximum, source, f, i)]
    <3>1. \A i \in 0 .. 0 : OutputStep(maximum, source, f, i) = [error |-> OK, path |-> <<>>]
      BY DEF OutputStep
    <3> QED
      BY <2>1, <3>1
  <2> QED
    BY <2>2
<1>2. ASSUME NEW n \in Nat, NEW f, f = [i \in 0 .. n |-> OutputStep(maximum, source, f, i)]
      PROVE  \E g : g = [i \in 0 .. n + 1 |-> OutputStep(maximum, source, g, i)]
  <2>1. PICK g : g = [i \in 0 .. n + 1 |->
                        IF i = n + 1 THEN OutputStep(maximum, source, f, i) ELSE f[i]]
    OBVIOUS
  <2>2. \A i \in 0 .. n : f[i] = OutputStep(maximum, source, f, i)
    BY <1>2
  <2>3. \A i \in 0 .. n : g[i] = f[i]
    BY <2>1
  <2>4. \A i \in 0 .. n + 1 : i = 0 \/ g[i - 1] = f[i - 1]
    BY <2>3
  <2>5. \A i \in 0 .. n + 1 : OutputStep(maximum, source, g, i) = OutputStep(maximum, source, f, i)
    BY <2>4 DEF OutputStep
  <2>6. g[n + 1] = OutputStep(maximum, source, f, n + 1)
    BY <2>1
  <2>7. \A i \in 0 .. n + 1 : g[i] = OutputStep(maximum, source, g, i)
    BY <2>2, <2>3, <2>5, <2>6
  <2>8. g = [i \in 0 .. n + 1 |-> g[i]]
    BY <2>1
  <2>9. g = [i \in 0 .. n + 1 |-> OutputStep(maximum, source, g, i)]
    BY <2>7, <2>8
  <2> QED
    BY <2>9
<1>3. \A n \in S : n + 1 \in S
  BY <1>2
<1> HIDE DEF S
<1>4. S \in SUBSET Nat
  BY DEF S
<1>5. S = Nat
  BY <1>1, <1>3, <1>4, NumbersBySteps
<1> QED
  BY <1>5 DEF S

\* What normalize_path makes of a request is a sequence of components.
LEMMA NormalizedPaths ==
  ASSUME NEW cwd, IsSequence(cwd), NEW maximum, NEW request, IsSequence(request.parts)
  PROVE  IsSequence(normalize_path(cwd, maximum, request).path)
<1> DEFINE source == IF request.absolute THEN request.parts ELSE cwd \o request.parts
           output[i \in 0 .. Len(source)] ==
             IF i = 0 THEN [error |-> OK, path |-> <<>>]
                      ELSE NormalizeStep(maximum, output[i - 1], source[i])
<1>1. PICK q : q = normalize_path(cwd, maximum, request)
  OBVIOUS
<1>2. \/ \E e : q = [error |-> e, path |-> <<>>]
      \/ q = output[Len(source)]
  BY <1>1, Zenon DEF normalize_path
<1>3. IsSequence(source)
  <2>1. IsSequence(cwd \o request.parts)
    BY Joined
  <2> QED
    BY <2>1, Zenon
<1> HIDE DEF source
<1>4. PICK n \in Nat : n = Len(source)
  BY <1>3 DEF IsSequence
<1>5. output = [i \in 0 .. n |-> OutputStep(maximum, source, output, i)]
  <2>1. output = CHOOSE f : f = [i \in 0 .. n |-> OutputStep(maximum, source, f, i)]
    BY <1>4, Zenon DEF OutputStep
  <2> HIDE DEF output
  <2>2. \E f : f = [i \in 0 .. n |-> OutputStep(maximum, source, f, i)]
    BY OutputExists
  <2> QED
    BY <2>1, <2>2, Zenon
<1> HIDE DEF output
<1>6. \A i \in 0 .. n : output[i] = OutputStep(maximum, source, output, i)
  BY <1>5
<1> DEFINE S == {k \in Nat : k <= n => IsOutput(output[k])}
<1>7. 0 \in S
  <2>1. output[0] = [error |-> OK, path |-> <<>>]
    BY <1>6 DEF OutputStep
  <2> QED
    BY <2>1, EmptyData DEF IsOutput
<1>8. ASSUME NEW k \in Nat, k \in S PROVE k + 1 \in S
  <2> SUFFICES ASSUME k + 1 <= n PROVE IsOutput(output[k + 1])
    OBVIOUS
  <2>1. IsOutput(output[k])
    BY <1>8
  <2>2. output[k + 1] = NormalizeStep(maximum, output[k], source[k + 1])
    BY <1>6 DEF OutputStep
  <2> QED
    BY <2>1, <2>2, NormalizeStepKeeps
<1>9. S \in SUBSET Nat
  OBVIOUS
<1> HIDE DEF S
<1>10. S = Nat
  BY <1>7, <1>8, <1>9, NumbersBySteps
<1>11. IsOutput(output[n])
  BY <1>10 DEF S
<1>12. CASE \E e : q = [error |-> e, path |-> <<>>]
  BY <1>1, <1>12, EmptyData
<1>13. CASE q = output[Len(source)]
  BY <1>1, <1>4, <1>11, <1>13 DEF IsOutput
<1> QED
  BY <1>2, <1>12, <1>13

-----------------------------------------------------------------------------
(* Calls that leave the table as it is *)

\* An object is at the end of one path, whatever the spelling.
LEMMA OneEnd ==
  ASSUME NEW media, Parents(media), NEW p, IsPlace(p), NEW q, IsPlace(q)
  PROVE  ObjectIn(media, p) # NoObject /\ ObjectIn(media, q) # NoObject =>
           (ObjectIn(media, p) = ObjectIn(media, q) =>
              /\ Len(p) = Len(q)
              /\ \A i \in 1 .. Len(p) : fold_ascii_case(p[i]) = fold_ascii_case(q[i]))
<1> SUFFICES ASSUME ObjectIn(media, p) # NoObject, ObjectIn(media, q) # NoObject
             PROVE  ObjectIn(media, p) = ObjectIn(media, q) =>
                      /\ Len(p) = Len(q)
                      /\ \A i \in 1 .. Len(p) : fold_ascii_case(p[i]) = fold_ascii_case(q[i])
  OBVIOUS
<1>1. /\ IsSequence(p) /\ Len(p) >= 1
      /\ IsSequence(q) /\ Len(q) >= 1
  BY DEF IsPlace
<1>2. PICK w : IsChain(media, p, w) /\ w[Len(p)] = ObjectIn(media, p)
  BY <1>1, LeadsAlong
<1>3. PICK v : IsChain(media, q, v) /\ v[Len(q)] = ObjectIn(media, q)
  BY <1>1, LeadsAlong
<1>4. IsChain(media, p, w)
  BY <1>2
<1>5. IsChain(media, q, v)
  BY <1>3
<1>6. w[Len(p)] = v[Len(q)] =>
        /\ Len(p) = Len(q)
        /\ \A i \in 1 .. Len(p) : fold_ascii_case(p[i]) = fold_ascii_case(q[i])
  BY <1>4, <1>5, SameEnd
<1> QED
  BY <1>2, <1>3, <1>6, Zenon

\* Two paths to one object differ in spelling only.
LEMMA SamePlace ==
  ASSUME NEW media, Whole(media), NEW p, IsPlace(p), NEW q, IsPlace(q),
         ObjectIn(media, p) # NoObject, ObjectIn(media, p) = ObjectIn(media, q)
  PROVE  \A below : path_has_prefix(p, q, below)
<1>1. /\ IsSequence(p) /\ Len(p) >= 1 /\ Len(p) \in Nat
      /\ IsSequence(q) /\ Len(q) >= 1 /\ Len(q) \in Nat
  BY DEF IsPlace, IsSequence
<1>2. Parents(media)
  BY Zenon DEF Whole
<1>3. ObjectIn(media, q) # NoObject
  BY Zenon
<1>7. /\ Len(p) = Len(q)
      /\ \A i \in 1 .. Len(p) : fold_ascii_case(p[i]) = fold_ascii_case(q[i])
  BY <1>2, <1>3, OneEnd
<1>8. Len(q) <= Len(p)
  BY <1>1, <1>7
<1> QED
  BY <1>1, <1>7, <1>8, PrefixMeans, Zenon

\* An entry o that no one uses comes or goes.
LEMMA MediaCalm ==
  ASSUME NEW m1, NEW hs, NEW ds, NEW cwd, Calm(m1, hs, ds, cwd),
         NEW m2, NEW o, Whole(m2), Current(m2), Elsewhere(m1, m2, o),
         \A p : IsPlace(p) /\ ObjectIn(m1, p) # NoObject /\ ObjectIn(m1, p) # o =>
                  ObjectIn(m2, p) = ObjectIn(m1, p),
         \A d \in Files : /\ ds[d].allocated /\ ds[d].object = o => ~LiveIn(m2, o)
                          /\ hs[d].mode # Closed => hs[d].object # o,
         virtual_root(cwd) \/ ObjectIn(m1, cwd) # o
  PROVE  Calm(m2, hs, ds, cwd)
<1>1. /\ Whole(m1) /\ AloneAt(hs) /\ DirectoryAt(m1, cwd, cwd)
      /\ \A d \in Files : SlotPlaced(m1, ds[d].path, hs[d], ds[d])
  BY Zenon DEF Calm
<1>2. ASSUME NEW d \in Files
      PROVE  SlotPlaced(m2, ds[d].path, hs[d], ds[d])
  <2>1. SlotPlaced(m1, ds[d].path, hs[d], ds[d])
    BY <1>1
  <2>2. ds[d].allocated => IsPlace(ds[d].path) /\ ds[d].object \in Objects
    BY <2>1, Zenon DEF SlotPlaced, IsBelow
  <2>3. ds[d].allocated /\ LiveIn(m2, ds[d].object) =>
          LiveIn(m1, ds[d].object) /\ ObjectIn(m2, ds[d].path) = ObjectIn(m1, ds[d].path)
    <3> SUFFICES ASSUME ds[d].allocated, LiveIn(m2, ds[d].object)
                 PROVE  /\ LiveIn(m1, ds[d].object)
                        /\ ObjectIn(m2, ds[d].path) = ObjectIn(m1, ds[d].path)
      BY Zenon
    <3>1. ds[d].object # o
      BY Zenon
    <3>2. LiveIn(m1, ds[d].object)
      BY <2>2, <3>1 DEF Elsewhere, LiveIn
    <3>3. ObjectIn(m1, ds[d].path) = ds[d].object
      BY <2>1, <3>2, Zenon DEF SlotPlaced
    <3>4. ds[d].object # NoObject
      BY <2>2, ObjectNumbers
    <3> QED
      BY <2>2, <3>1, <3>2, <3>3, <3>4, Zenon
  <2>4. hs[d].mode # Closed =>
          /\ m2[hs[d].object].kind = m1[hs[d].object].kind
          /\ ObjectIn(m2, ds[d].path) = ObjectIn(m1, ds[d].path)
    <3> SUFFICES ASSUME hs[d].mode # Closed
                 PROVE  /\ m2[hs[d].object].kind = m1[hs[d].object].kind
                        /\ ObjectIn(m2, ds[d].path) = ObjectIn(m1, ds[d].path)
      BY Zenon
    <3>1. /\ ds[d].allocated /\ hs[d].object \in Objects /\ hs[d].object # o
          /\ ObjectIn(m1, ds[d].path) = hs[d].object
      BY <2>1, Zenon DEF SlotPlaced
    <3>2. hs[d].object # NoObject
      BY <3>1, ObjectNumbers
    <3>3. m2[hs[d].object] = m1[hs[d].object]
      BY <3>1 DEF Elsewhere
    <3> QED
      BY <2>2, <3>1, <3>2, <3>3, Zenon
  <2> QED
    BY <2>1, <2>3, <2>4, SlotMedia
<1>3. DirectoryAt(m2, cwd, cwd)
  <2>1. CASE virtual_root(cwd)
    BY <1>1, <2>1, Zenon DEF DirectoryAt
  <2>2. CASE ~virtual_root(cwd)
    <3>1. IsPlace(cwd) /\ DirectoryIn(m1, ObjectIn(m1, cwd)) /\ ObjectIn(m1, cwd) # o
      BY <1>1, <2>2, Zenon DEF DirectoryAt
    <3>2. ObjectIn(m1, cwd) # NoObject
      BY <3>1, DirectoryOnes, Zenon
    <3>3. ObjectIn(m2, cwd) = ObjectIn(m1, cwd)
      BY <3>1, <3>2, Zenon
    <3>4. \A x \in Objects : x = ObjectIn(m1, cwd) => m2[x].kind = m1[x].kind
      <4> SUFFICES ASSUME NEW x \in Objects, x = ObjectIn(m1, cwd)
                   PROVE  m2[x].kind = m1[x].kind
        OBVIOUS
      <4>1. x \in Objects \ {o}
        BY <3>1
      <4> QED
        BY <4>1, Zenon DEF Elsewhere
    <3>5. DirectoryIn(m2, ObjectIn(m2, cwd))
      BY <1>1, <3>1, <3>3, <3>4, DirectoryMedia
    <3> QED
      BY <1>1, <3>1, <3>5, Zenon DEF DirectoryAt
  <2> QED
    BY <2>1, <2>2
<1> QED
  BY <1>1, <1>2, <1>3, Zenon DEF Calm

\* Nothing that OffsetAgrees looks at changes.
LEMMA OffsetsKept ==
  ASSUME \A c \in Files : /\ SameFile(handles[c], handles'[c])
                          /\ handles'[c].offset = handles[c].offset
                          /\ descriptors'[c].position = descriptors[c].position
                          /\ handles[c].mode # Closed =>
                               entries'[handles[c].object].data = entries[handles[c].object].data
  PROVE  OffsetStep
BY Zenon DEF OffsetStep, StandsAt, AgreesOn, SameFile

\* No open handle is on the entry that changes.
LEMMA OffsetsElsewhere ==
  ASSUME UNCHANGED <<handles, descriptors>>,
         NEW o, \A c \in Files : handles[c].mode # Closed =>
                                   handles[c].object \in Objects /\ handles[c].object # o,
         Elsewhere(entries, entries', o)
  PROVE  OffsetStep
<1>1. \A c \in Files : handles[c].mode # Closed => entries'[handles[c].object] = entries[handles[c].object]
  BY DEF Elsewhere
<1>2. \A c \in Files : /\ SameFile(handles[c], handles'[c])
                       /\ handles'[c].offset = handles[c].offset
                       /\ descriptors'[c].position = descriptors[c].position
  BY Zenon DEF SameFile
<1> QED
  BY <1>1, <1>2, OffsetsKept, Zenon

\* What every call has to keep.
CalmStep == Calm(entries', handles', descriptors', current_directory') /\ OffsetStep

\* A call that fails before it changes anything keeps all of it.
LEMMA NothingChanges ==
  ASSUME Calm(entries, handles, descriptors, current_directory),
         UNCHANGED <<entries, handles, descriptors, current_directory>>
  PROVE  CalmStep
<1>1. Calm(entries', handles', descriptors', current_directory')
  BY Zenon
<1>2. OffsetStep
  BY Zenon DEF OffsetStep
<1> QED
  BY <1>1, <1>2 DEF CalmStep

LEMMA RefuseCalm ==
  ASSUME Calm(entries, handles, descriptors, current_directory), Refuse
  PROVE  CalmStep
BY NothingChanges DEF Refuse, fsVars

-----------------------------------------------------------------------------
(* Creating and deleting *)

\* One entry changes.
LEMMA EntryChanged ==
  ASSUME FileInv, NEW o \in Objects, NEW e
  PROVE  [entries EXCEPT ![o] = e][o] = e /\ Elsewhere(entries, [entries EXCEPT ![o] = e], o)
BY DEF FileInv, MediaOK, Elsewhere

\* A free entry is not stale.
LEMMA FreeFields == Free.kind = "free" /\ ~Free.stale
BY DEF Free

\* A new entry is in the directory of its path, under its name.
LEMMA NewEntryFields ==
  ASSUME NEW kind, NEW path
  PROVE  LET e == NewEntry(kind, path)
         IN  /\ e.kind = kind /\ e.parent = ObjectAt(Front(path)) /\ e.name = Last(path)
             /\ ~e.stale
<1>1. PICK f, a, b, s : /\ f = Free /\ a = ObjectAt(Front(path)) /\ b = Last(path)
                        /\ s = f.stale
  OBVIOUS
<1>2. IsEntry(f)
  BY <1>1, FreeOK DEF EntryOK
<1>3. PICK e : e = [f EXCEPT !.kind = kind, !.parent = a, !.name = b]
  OBVIOUS
<1>4. e.kind = kind /\ e.parent = a /\ e.name = b /\ e.stale = s
  BY <1>1, <1>2, <1>3 DEF IsEntry
<1>5. e = NewEntry(kind, path)
  BY <1>1, <1>3, Zenon DEF NewEntry
<1>6. ~s
  BY <1>1, FreeFields, Zenon
<1> QED
  BY <1>1, <1>4, <1>5, <1>6, Zenon

\* The checks of the paths.
LEMMA ResolvedPlace ==
  ASSUME NEW path, IsSequence(path), resolve_normalized_path(path) = OK, ~virtual_root(path)
  PROVE  IsPlace(path)
<1>1. Media(path) \in Volumes
  BY DEF resolve_normalized_path, OK
<1>2. Len(path) >= 1
  BY NotEmpty DEF virtual_root
<1> QED
  BY <1>1, <1>2 DEF IsPlace

\* information_unlocked found the path.
LEMMA InformationOK ==
  ASSUME NEW path, information_error(path) = OK
  PROVE  /\ resolve_normalized_path(path) = OK
         /\ virtual_root(path) \/ ObjectAt(path) # NoObject
BY DEF information_error, FirstError, OK

\* A new entry has a directory to be in and an object to use.
LEMMA CreateErrorOK ==
  ASSUME NEW path, CreateError(path) = OK
  PROVE  DirectoryIn(entries, ObjectAt(Front(path))) /\ Unused # {}
BY DEF CreateError, OK, IsDirectory, DirectoryIn

\* The object a new entry uses is on no descriptor.
LEMMA UnusedFirst ==
  ASSUME Unused # {}
  PROVE  /\ Min(Unused) \in Objects /\ ~LiveIn(entries, Min(Unused))
         /\ \A d \in Files : descriptors[d].object # Min(Unused)
<1>1. Unused \in SUBSET Nat
  BY FilesystemAssumption DEF Unused
<1>2. Min(Unused) \in Unused
  BY <1>1, MinIsMember, Zenon
<1> QED
  BY <1>2, Zenon DEF Unused, Live, LiveIn

\* A name is given to an entry that nothing refers to.
LEMMA CreatedPuts ==
  ASSUME FileInv, Calm(entries, handles, descriptors, current_directory),
         NEW kind \in {"file", "dir"}, NEW path, IsBelow(path), ObjectAt(path) = NoObject,
         CreateError(path) = OK
  PROVE  LET o == Min(Unused)
             m == Created(kind, path)
         IN  /\ Puts(entries, m, path, o) /\ ~m[o].stale /\ m[o].kind = kind
             /\ o \in Objects /\ ~LiveIn(entries, o)
             /\ \A d \in Files : descriptors[d].object # o
<1>1. PICK o, m, e : o = Min(Unused) /\ m = Created(kind, path) /\ e = NewEntry(kind, path)
  OBVIOUS
<1>2. /\ o \in Objects /\ ~LiveIn(entries, o)
      /\ \A d \in Files : descriptors[d].object # o
  BY <1>1, CreateErrorOK, UnusedFirst
<1>3. m = [entries EXCEPT ![o] = e]
  BY <1>1, Zenon DEF Created, NewEntry
<1>4. m[o] = e /\ Elsewhere(entries, m, o)
  BY <1>2, <1>3, EntryChanged
<1>5. /\ e.kind = kind /\ e.parent = ObjectIn(entries, Front(path)) /\ e.name = Last(path)
      /\ ~e.stale
  BY <1>1, NewEntryFields, Zenon DEF ObjectAt
<1>6. DirectoryIn(entries, ObjectIn(entries, Front(path)))
  BY CreateErrorOK, Zenon DEF ObjectAt
<1>7. Avoids(entries, Front(path), o)
  <2>1. ObjectIn(entries, Front(path)) # NoObject
    BY <1>6, DirectoryOnes, Zenon
  <2>2. IsPlace(Front(path)) /\ Whole(entries)
    BY FrontPlace DEF Calm
  <2> QED
    BY <1>2, <2>1, <2>2, AvoidsFree
<1>8. ObjectIn(entries, path) = NoObject
  BY Zenon DEF ObjectAt
<1>9. Puts(entries, m, path, o)
  <2>1. kind \in {"file", "dir"} /\ IsBelow(path)
    OBVIOUS
  <2> QED
    BY <1>2, <1>4, <1>5, <1>6, <1>7, <1>8, <2>1 DEF Puts
<1> QED
  BY <1>1, <1>2, <1>4, <1>5, <1>9, Zenon

\* A new file or directory disturbs nothing.
LEMMA CreatedCalm ==
  ASSUME FileInv, Calm(entries, handles, descriptors, current_directory),
         NEW kind \in {"file", "dir"}, NEW path, IsBelow(path), ObjectAt(path) = NoObject,
         CreateError(path) = OK
  PROVE  /\ Calm(Created(kind, path), handles, descriptors, current_directory)
         /\ Elsewhere(entries, Created(kind, path), Min(Unused))
         /\ ObjectIn(Created(kind, path), path) = Min(Unused)
         /\ \A c \in Files : handles[c].mode # Closed =>
                               handles[c].object \in Objects /\ handles[c].object # Min(Unused)
<1>1. PICK o, m : o = Min(Unused) /\ m = Created(kind, path)
  OBVIOUS
<1>2. /\ Puts(entries, m, path, o) /\ ~m[o].stale
      /\ o \in Objects /\ ~LiveIn(entries, o)
      /\ \A d \in Files : descriptors[d].object # o
  BY <1>1, CreatedPuts, Zenon
<1>3. /\ Whole(entries) /\ Current(entries)
      /\ DirectoryAt(entries, current_directory, current_directory)
      /\ \A d \in Files : SlotPlaced(entries, descriptors[d].path, handles[d], descriptors[d])
  BY Zenon DEF Calm
<1>4. Whole(m) /\ Elsewhere(entries, m, o)
  BY <1>2, <1>3, PutWhole DEF Puts
<1>5. Current(m)
  <2> SUFFICES ASSUME NEW x \in Objects PROVE ~m[x].stale
    BY Zenon DEF Current
  <2>1. CASE x = o
    BY <1>2, <2>1, Zenon
  <2>2. CASE x # o
    BY <1>3, <1>4, <2>2 DEF Current, Elsewhere
  <2> QED
    BY <2>1, <2>2
<1>6. ASSUME NEW p, IsPlace(p), ObjectIn(entries, p) # NoObject
      PROVE  ObjectIn(m, p) = ObjectIn(entries, p)
  <2>1. Avoids(entries, p, o)
    BY <1>2, <1>3, <1>6, AvoidsFree
  <2> QED
    BY <1>2, <1>3, <1>6, <2>1, PutKeeps
<1>7. \A c \in Files : handles[c].mode # Closed =>
                         handles[c].object \in Objects /\ handles[c].object # o
  <2> SUFFICES ASSUME NEW c \in Files, handles[c].mode # Closed
               PROVE  handles[c].object \in Objects /\ handles[c].object # o
    OBVIOUS
  <2>1. handles[c].object \in Objects /\ entries[handles[c].object].kind = "file"
    BY <1>3, Zenon DEF SlotPlaced
  <2>2. entries[o].kind = "free"
    BY <1>2, Zenon DEF LiveIn
  <2> QED
    BY <2>1, <2>2
<1>8. virtual_root(current_directory) \/ ObjectIn(entries, current_directory) # o
  <2> SUFFICES ASSUME ~virtual_root(current_directory)
               PROVE  ObjectIn(entries, current_directory) # o
    OBVIOUS
  <2>1. DirectoryIn(entries, ObjectIn(entries, current_directory))
    BY <1>3, Zenon DEF DirectoryAt
  <2>2. ~DirectoryIn(entries, o)
    <3>1. entries[o].kind = "free"
      BY <1>2, Zenon DEF LiveIn
    <3> QED
      BY <1>2, <3>1, DirectoryOnes
  <2> QED
    BY <2>1, <2>2
<1>9. Calm(m, handles, descriptors, current_directory)
  BY <1>2, <1>4, <1>5, <1>6, <1>7, <1>8, MediaCalm
<1>10. ObjectIn(m, path) = o
  BY <1>2, <1>3, PutArrives
<1> QED
  BY <1>1, <1>4, <1>7, <1>9, <1>10, Zenon

\* An entry that no handle is on and nothing is below goes.
LEMMA DeletedCalm ==
  ASSUME FileInv, Calm(entries, handles, descriptors, current_directory),
         NEW o \in Objects, Childless(entries, o),
         \A c \in Files : handles[c].mode # Closed => handles[c].object # o,
         virtual_root(current_directory) \/ ObjectIn(entries, current_directory) # o
  PROVE  /\ Calm(Deleted(o), handles, descriptors, current_directory)
         /\ Elsewhere(entries, Deleted(o), o)
         /\ \A c \in Files : handles[c].mode # Closed => handles[c].object \in Objects
<1>1. PICK m : m = Deleted(o)
  OBVIOUS
<1>2. m[o] = Free /\ Elsewhere(entries, m, o)
  BY <1>1, EntryChanged DEF Deleted
<1>3. m[o].kind = "free" /\ ~m[o].stale
  BY <1>2, FreeFields, Zenon
<1>4. Whole(entries) /\ Current(entries)
  BY Zenon DEF Calm
<1>5. Deletes(entries, m, o)
  BY <1>2, <1>3, Zenon DEF Deletes
<1>6. Whole(m)
  BY <1>4, <1>5, DeleteWhole
<1>7. Current(m)
  <2> SUFFICES ASSUME NEW x \in Objects PROVE ~m[x].stale
    BY Zenon DEF Current
  <2>1. CASE x = o
    BY <1>3, <2>1, Zenon
  <2>2. CASE x # o
    BY <1>2, <1>4, <2>2 DEF Current, Elsewhere
  <2> QED
    BY <2>1, <2>2
<1>8. \A p : IsPlace(p) /\ ObjectIn(entries, p) # NoObject /\ ObjectIn(entries, p) # o =>
               ObjectIn(m, p) = ObjectIn(entries, p)
  BY <1>4, <1>5, DeleteKeeps
<1>9. ~LiveIn(m, o)
  BY <1>3, Zenon DEF LiveIn
<1>10. Calm(m, handles, descriptors, current_directory)
  BY <1>2, <1>6, <1>7, <1>8, <1>9, MediaCalm
<1>11. \A c \in Files : handles[c].mode # Closed => handles[c].object \in Objects
  BY Zenon DEF Calm, SlotPlaced
<1> QED
  BY <1>1, <1>2, <1>10, <1>11, Zenon

LEMMA AttemptCalm ==
  ASSUME Calm(entries, handles, descriptors, current_directory),
         NEW error, NEW media, Attempt(error, media),
         NEW o, error = OK =>
           /\ Calm(media, handles, descriptors, current_directory)
           /\ Elsewhere(entries, media, o)
           /\ \A c \in Files : handles[c].mode # Closed =>
                                 handles[c].object \in Objects /\ handles[c].object # o
  PROVE  CalmStep
<1>1. \/ Refuse
      \/ /\ error = OK /\ (entries' = media \/ entries' = entries)
         /\ UNCHANGED <<handles, descriptors, current_directory>>
  BY DEF Attempt, fsVars
<1>2. CASE Refuse
  BY <1>2, RefuseCalm
<1>3. CASE /\ error = OK /\ entries' = media
           /\ UNCHANGED <<handles, descriptors, current_directory>>
  <2>1. Calm(entries', handles', descriptors', current_directory')
    BY <1>3, Zenon
  <2>2. OffsetStep
    BY <1>3, OffsetsElsewhere
  <2> QED
    BY <2>1, <2>2 DEF CalmStep
<1>4. CASE UNCHANGED <<entries, handles, descriptors, current_directory>>
  BY <1>4, NothingChanges
<1> QED
  BY <1>1, <1>2, <1>3, <1>4

-----------------------------------------------------------------------------
(* The calls *)

\* What _close leaves.
LEMMA CloseCall ==
  ASSUME FileInv, Calm(entries, handles, descriptors, current_directory),
         NEW d \in Files, Close(d)
  PROVE  CalmStep
<1>1. /\ handles' = [handles EXCEPT ![d] = NoHandle]
      /\ descriptors' = [descriptors EXCEPT ![d] = NoDescriptor]
      /\ UNCHANGED <<entries, current_directory>>
  BY DEF Close
<1>2. PICK h, y : h = NoHandle /\ y = NoDescriptor
  OBVIOUS
<1>3. h.mode = Closed /\ h.object = NoObject /\ ~y.allocated
  BY <1>2 DEF NoHandle, NoDescriptor
<1>4. SlotPlaced(entries, y.path, h, y)
  BY <1>3 DEF SlotPlaced
<1>5. DOMAIN handles = Files /\ DOMAIN descriptors = Files
  BY DEF FileInv, TableInv
<1>6. SameTree(entries, entries) /\ Current(entries)
  BY Zenon DEF SameTree, Calm
<1>7. Calm(entries, [handles EXCEPT ![d] = h], [descriptors EXCEPT ![d] = y], current_directory)
  BY <1>3, <1>4, <1>5, <1>6, SlotCalm
<1>8. Calm(entries', handles', descriptors', current_directory')
  BY <1>1, <1>2, <1>7, Zenon
<1>9. OffsetStep
  <2> SUFFICES ASSUME NEW c \in Files,
                      StandsAt(entries, handles[c], descriptors[c])
               PROVE  StandsAt(entries', handles'[c], descriptors'[c])
    BY Zenon DEF OffsetStep
  <2>1. CASE c = d
    <3>1. handles'[c] = h
      BY <1>1, <1>2, <1>5, <2>1
    <3> QED
      BY <1>3, <3>1, Zenon DEF StandsAt
  <2>2. CASE c # d
    <3>1. handles'[c] = handles[c] /\ descriptors'[c] = descriptors[c] /\ entries' = entries
      BY <1>1, <1>5, <2>2
    <3> QED
      BY <3>1, Zenon
  <2> QED
    BY <2>1, <2>2
<1> QED
  BY <1>8, <1>9 DEF CalmStep

\* Handles that stay on their files.
LEMMA FilesKept ==
  ASSUME NEW media, NEW hs, NEW ds, NEW cwd, Calm(media, hs, ds, cwd),
         NEW gs, \A c \in Files : SameFile(hs[c], gs[c])
  PROVE  Calm(media, gs, ds, cwd)
<1>1. \A c \in Files : gs[c].mode = hs[c].mode /\ gs[c].object = hs[c].object
  BY Zenon DEF SameFile
<1>2. \A c \in Files : SlotPlaced(media, ds[c].path, gs[c], ds[c])
  <2> SUFFICES ASSUME NEW c \in Files
               PROVE  SlotPlaced(media, ds[c].path, gs[c], ds[c])
    OBVIOUS
  <2>1. SlotPlaced(media, ds[c].path, hs[c], ds[c])
    BY Zenon DEF Calm
  <2> QED
    BY <1>1, <2>1 DEF SlotPlaced
<1>3. AloneAt(gs)
  <2>1. AloneAt(hs)
    BY Zenon DEF Calm
  <2> QED
    BY <1>1, <2>1, Zenon DEF AloneAt
<1> QED
  BY <1>2, <1>3, Zenon DEF Calm

\* fx_media_flush moves no handle.
LEMMA FlushedSame ==
  ASSUME FileInv, NEW volume, NEW c \in Files
  PROVE  /\ SameFile(handles[c], Flushed(volume)[c])
         /\ Flushed(volume)[c].offset = handles[c].offset
         /\ Flushed(volume)[c].modified \in {FALSE, handles[c].modified}
         /\ handles[c].object # NoObject /\ Media(descriptors[c].path) = volume =>
              ~Flushed(volume)[c].modified
<1>1. PICK h : h = handles[c]
  OBVIOUS
<1>2. HandleOK(h) /\ IsHandle(h)
  BY <1>1, Zenon DEF FileInv, TableInv, HandleOK
<1>3. PICK g : g = [h EXCEPT !.modified = FALSE]
  OBVIOUS
<1>4. SameFile(h, g) /\ g.offset = h.offset /\ g.modified = FALSE
  BY <1>2, <1>3 DEF IsHandle, SameFile
<1>5. Flushed(volume)[c] = IF h.object # NoObject /\ Media(descriptors[c].path) = volume
                             THEN g ELSE h
  BY <1>1, <1>3, Zenon DEF Flushed
<1>6. SameFile(h, h)
  BY Zenon DEF SameFile
<1> QED
  BY <1>1, <1>4, <1>5, <1>6

\* What _fsync leaves.
LEMMA FsyncCall ==
  ASSUME FileInv, Calm(entries, handles, descriptors, current_directory),
         NEW d \in Files, Fsync(d)
  PROVE  CalmStep
<1>1. /\ UNCHANGED <<entries, descriptors, current_directory>>
      /\ handles' = handles \/ \E volume : handles' = Flushed(volume)
  BY DEF Fsync
<1>2. \A c \in Files : SameFile(handles[c], handles'[c]) /\ handles'[c].offset = handles[c].offset
  <2>1. CASE handles' = handles
    BY <2>1, Zenon DEF SameFile
  <2>2. CASE \E volume : handles' = Flushed(volume)
    BY <2>2, FlushedSame, Zenon
  <2> QED
    BY <1>1, <2>1, <2>2
<1>3. Calm(entries, handles', descriptors, current_directory)
  BY <1>2, FilesKept, Zenon
<1>4. Calm(entries', handles', descriptors', current_directory')
  BY <1>1, <1>3, Zenon
<1>5. OffsetStep
  BY <1>1, <1>2, OffsetsKept, Zenon
<1> QED
  BY <1>4, <1>5 DEF CalmStep

\* IsDirectory is DirectoryIn on the media as they are.
LEMMA IsDirectoryMeans ==
  ASSUME NEW o
  PROVE  IsDirectory(o) <=> DirectoryIn(entries, o)
BY DEF IsDirectory, DirectoryIn

\* There is no first error when there is none.
LEMMA FirstErrorOK ==
  ASSUME NEW e, NEW f, FirstError(e, f) = OK
  PROVE  e = OK /\ f = OK
BY DEF FirstError, OK

\* What _chdir leaves.
LEMMA ChdirCall ==
  ASSUME FileInv, Calm(entries, handles, descriptors, current_directory),
         NEW name, IsSequence(name.path), Chdir(name)
  PROVE  CalmStep
<1>1. PICK path : path = name.path
  OBVIOUS
<1>2. \/ Refuse
      \/ /\ FirstError(name.error, FirstError(information_error(path),
                         IF ~IsDirectoryPath(path) THEN "ENOTDIR" ELSE OK)) = OK
         /\ current_directory' = path
         /\ UNCHANGED <<entries, handles, descriptors>>
  BY <1>1, Zenon DEF Chdir
<1>3. CASE Refuse
  BY <1>3, RefuseCalm
<1>4. CASE /\ FirstError(name.error, FirstError(information_error(path),
                           IF ~IsDirectoryPath(path) THEN "ENOTDIR" ELSE OK)) = OK
           /\ current_directory' = path
           /\ UNCHANGED <<entries, handles, descriptors>>
  <2>1. information_error(path) = OK /\ IsDirectoryPath(path)
    BY <1>4, FirstErrorOK DEF OK
  <2>2. virtual_root(path) \/ (IsPlace(path) /\ DirectoryIn(entries, ObjectIn(entries, path)))
    BY <1>1, <2>1, InformationOK, ResolvedPlace, IsDirectoryMeans, Zenon
    DEF IsDirectoryPath, ObjectAt
  <2>3. DirectoryAt(entries, path, path)
    BY <1>1, <2>2, Zenon DEF DirectoryAt
  <2>4. Calm(entries', handles', descriptors', current_directory')
    BY <1>4, <2>3, Zenon DEF Calm
  <2>5. OffsetStep
    BY <1>4, Zenon DEF OffsetStep
  <2> QED
    BY <2>4, <2>5 DEF CalmStep
<1> QED
  BY <1>2, <1>3, <1>4

\* The object of a path that passed the checks of a name.
LEMMA NamedObject ==
  ASSUME Calm(entries, handles, descriptors, current_directory),
         NEW path, IsSequence(path), information_error(path) = OK, ~virtual_root(path)
  PROVE  /\ IsPlace(path) /\ ObjectIn(entries, path) # NoObject
         /\ ObjectIn(entries, path) = ObjectAt(path)
         /\ \/ ObjectAt(path) \in {-1, -2}
            \/ /\ ObjectAt(path) \in Objects /\ LiveIn(entries, ObjectAt(path))
               /\ IsBelow(path)
<1>1. IsPlace(path) /\ ObjectIn(entries, path) # NoObject
  BY InformationOK, ResolvedPlace, Zenon DEF ObjectAt
<1>2. Whole(entries)
  BY Zenon DEF Calm
<1>3. \/ ObjectIn(entries, path) \in {-1, -2}
      \/ ObjectIn(entries, path) \in Objects /\ LiveIn(entries, ObjectIn(entries, path))
  BY <1>1, <1>2, LeadsToOne
<1>4. ObjectIn(entries, path) \in Objects => Len(path) >= 2
  BY <1>1, <1>2, FoundLives
<1> QED
  BY <1>1, <1>3, <1>4, Zenon DEF ObjectAt, IsBelow

\* What _unlink leaves: no handle was on the file.
LEMMA UnlinkCall ==
  ASSUME FileInv, Calm(entries, handles, descriptors, current_directory),
         NEW name, IsSequence(name.path), Unlink(name)
  PROVE  CalmStep
<1>1. PICK path, o : path = name.path /\ o = ObjectAt(path)
  OBVIOUS
<1>2. PICK error : error = FirstError(resolve_path(name),
                           FirstError(information_error(path),
                             IF IsDirectoryPath(path) THEN "EISDIR"
                             ELSE IF IsOpen(o) THEN "EACCES"
                             ELSE OK))
  OBVIOUS
<1>3. Attempt(error, Deleted(o))
  BY <1>1, <1>2, Zenon DEF Unlink
<1>4. ASSUME error = OK
      PROVE  /\ Calm(Deleted(o), handles, descriptors, current_directory)
             /\ Elsewhere(entries, Deleted(o), o)
             /\ \A c \in Files : handles[c].mode # Closed =>
                                   handles[c].object \in Objects /\ handles[c].object # o
  <2>1. information_error(path) = OK /\ ~IsDirectoryPath(path) /\ ~IsOpen(o)
    BY <1>2, <1>4, FirstErrorOK DEF OK
  <2>2. ~virtual_root(path) /\ ~DirectoryIn(entries, o)
    BY <1>1, <2>1, IsDirectoryMeans, Zenon DEF IsDirectoryPath
  <2>3. o \in Objects /\ LiveIn(entries, o)
    BY <1>1, <2>1, <2>2, NamedObject, DirectoryOnes, Zenon
  <2>4. Childless(entries, o)
    <3>1. entries[o].kind # "dir"
      BY <2>2, <2>3, DirectoryOnes, Zenon
    <3>2. Parents(entries)
      BY Zenon DEF Calm, Whole
    <3> QED
      BY <2>3, <3>1, <3>2, FileIsLeaf
  <2>5. \A c \in Files : handles[c].object # o
    BY <2>1, Zenon DEF IsOpen
  <2>6. virtual_root(current_directory) \/ ObjectIn(entries, current_directory) # o
    BY <2>2, Zenon DEF Calm, DirectoryAt
  <2> QED
    BY <2>3, <2>4, <2>5, <2>6, DeletedCalm, Zenon
<1> QED
  BY <1>3, <1>4, AttemptCalm

\* What _rmdir leaves: the directory was empty and did not hold the working directory.
LEMMA RmdirCall ==
  ASSUME FileInv, Calm(entries, handles, descriptors, current_directory),
         NEW name, IsSequence(name.path), Rmdir(name)
  PROVE  CalmStep
<1>1. PICK path, o : path = name.path /\ o = ObjectAt(path)
  OBVIOUS
<1>2. PICK error : error = FirstError(resolve_path(name),
                           FirstError(information_error(path),
                             IF ~IsDirectoryPath(path) THEN "ENOTDIR"
                             ELSE IF virtual_root(path) \/ mount_root(path) THEN "EBUSY"
                             ELSE IF HoldsCurrentDirectory(path) THEN "EBUSY"
                             ELSE IF ~IsEmpty(o) THEN "ENOTEMPTY"
                             ELSE OK))
  OBVIOUS
<1>3. Attempt(error, Deleted(o))
  BY <1>1, <1>2, Zenon DEF Rmdir
<1>4. ASSUME error = OK
      PROVE  /\ Calm(Deleted(o), handles, descriptors, current_directory)
             /\ Elsewhere(entries, Deleted(o), o)
             /\ \A c \in Files : handles[c].mode # Closed =>
                                   handles[c].object \in Objects /\ handles[c].object # o
  <2>1. /\ information_error(path) = OK /\ IsDirectoryPath(path)
        /\ ~virtual_root(path) /\ ~mount_root(path)
        /\ ~HoldsCurrentDirectory(path) /\ IsEmpty(o)
    BY <1>2, <1>4, FirstErrorOK DEF OK
  <2>2. DirectoryIn(entries, o)
    BY <1>1, <2>1, IsDirectoryMeans, Zenon DEF IsDirectoryPath
  <2>3. /\ IsPlace(path) /\ ObjectIn(entries, path) # NoObject /\ ObjectIn(entries, path) = o
        /\ o \in {-1, -2} \/ o \in Objects
    BY <1>1, <2>1, NamedObject, Zenon
  <2>4. Whole(entries)
    BY Zenon DEF Calm
  <2>5. o \in Objects
    <3>1. Len(path) >= 2
      BY <2>1, <2>3 DEF mount_root, IsPlace, IsSequence
    <3>2. IsChild(entries, ObjectIn(entries, Front(path)), Last(path), ObjectIn(entries, path))
      BY <2>3, <2>4, <3>1, LeadsTo DEF IsPlace
    <3> QED
      BY <2>3, <3>2, Zenon DEF IsChild
  <2>6. Childless(entries, o)
    BY <2>1, Zenon DEF IsEmpty, Childless, Live, LiveIn
  <2>7. entries[o].kind = "dir"
    BY <2>2, <2>5, DirectoryOnes, Zenon
  <2>8. \A c \in Files : handles[c].mode # Closed => handles[c].object # o
    <3>1. \A c \in Files : handles[c].mode # Closed => entries[handles[c].object].kind = "file"
      BY Zenon DEF Calm, SlotPlaced
    <3> QED
      BY <2>7, <3>1
  <2>9. ASSUME ~virtual_root(current_directory)
        PROVE  ObjectIn(entries, current_directory) # o
    <3>1. IsPlace(current_directory)
      BY <2>9, Zenon DEF Calm, DirectoryAt
    <3>2. ~path_has_prefix(current_directory, path, TRUE)
      BY <2>1, Zenon DEF HoldsCurrentDirectory
    <3>3. SUFFICES ASSUME ObjectIn(entries, current_directory) = o PROVE FALSE
      OBVIOUS
    <3>4. \A below : path_has_prefix(current_directory, path, below)
      BY <2>3, <2>4, <3>1, <3>3, SamePlace
    <3> QED
      BY <3>2, <3>4
  <2> QED
    BY <2>5, <2>6, <2>8, <2>9, DeletedCalm, Zenon
<1> QED
  BY <1>3, <1>4, AttemptCalm

\* What _mkdir leaves.
LEMMA MkdirCall ==
  ASSUME FileInv, Calm(entries, handles, descriptors, current_directory),
         NEW name, IsSequence(name.path), Mkdir(name)
  PROVE  CalmStep
<1>1. PICK path, o : path = name.path /\ o = Min(Unused)
  OBVIOUS
<1>2. PICK error : error = FirstError(resolve_path(name),
                           IF virtual_root(path) \/ mount_root(path) THEN "EEXIST"
                           ELSE IF ObjectAt(path) # NoObject THEN "EEXIST"
                           ELSE CreateError(path))
  OBVIOUS
<1>3. Attempt(error, Created("dir", path))
  BY <1>1, <1>2, Zenon DEF Mkdir
<1>4. ASSUME error = OK
      PROVE  /\ Calm(Created("dir", path), handles, descriptors, current_directory)
             /\ Elsewhere(entries, Created("dir", path), o)
             /\ \A c \in Files : handles[c].mode # Closed =>
                                   handles[c].object \in Objects /\ handles[c].object # o
  <2>1. resolve_path(name) = OK /\ (IF virtual_root(path) \/ mount_root(path) THEN "EEXIST"
                                    ELSE IF ObjectAt(path) # NoObject THEN "EEXIST"
                                    ELSE CreateError(path)) = OK
    BY <1>2, <1>4, FirstErrorOK
  <2>2. /\ ~virtual_root(path) /\ ~mount_root(path)
        /\ ObjectAt(path) = NoObject /\ CreateError(path) = OK
    BY <2>1 DEF OK
  <2>3. resolve_normalized_path(path) = OK
    BY <1>1, <2>1, FirstErrorOK, Zenon DEF resolve_path
  <2>4. IsPlace(path)
    BY <1>1, <2>2, <2>3, ResolvedPlace
  <2>5. IsBelow(path)
    BY <2>2, <2>4 DEF mount_root, IsPlace, IsBelow, IsSequence
  <2> QED
    BY <1>1, <2>2, <2>5, CreatedCalm, Zenon
<1> QED
  BY <1>3, <1>4, AttemptCalm

\* The checks of _open.
LEMMA OpenChecks ==
  ASSUME NEW name, IsSequence(name.path), NEW flags, OpenRefused(name, flags) = OK
  PROVE  /\ FreeSlots # {} /\ IsBelow(name.path)
         /\ ObjectAt(name.path) = NoObject => CreateError(name.path) = OK
<1>1. PICK path : path = name.path
  OBVIOUS
<1> DEFINE found == information_error(path)
<1>2. resolve_path(name) = OK
      /\ (IF virtual_root(path) \/ mount_root(path) THEN "EISDIR"
          ELSE IF FreeSlots = {} THEN "EMFILE"
          ELSE IF found \notin {OK, "ENOENT"} THEN found
          ELSE IF found = OK /\ IsDirectoryPath(path) THEN "EISDIR"
          ELSE IF found # OK /\ ~flags.create THEN found
          ELSE IF found = OK /\ flags.create /\ flags.excl THEN "EEXIST"
          ELSE IF found # OK THEN CreateError(path)
          ELSE OK) = OK
  BY <1>1, FirstErrorOK DEF OpenRefused
<1>3. ~virtual_root(path) /\ ~mount_root(path) /\ FreeSlots # {}
  BY <1>2 DEF OK
<1>4. found # OK => CreateError(path) = OK
  BY <1>2 DEF OK
<1>5. ObjectAt(path) = NoObject => found # OK
  BY <1>3, InformationOK, Zenon
<1>6. IsPlace(path)
  <2>1. resolve_normalized_path(path) = OK
    BY <1>1, <1>2, FirstErrorOK, Zenon DEF resolve_path
  <2> QED
    BY <1>1, <1>3, <2>1, ResolvedPlace
<1>7. IsBelow(path)
  BY <1>3, <1>6 DEF mount_root, IsPlace, IsBelow, IsSequence
<1> QED
  BY <1>1, <1>3, <1>4, <1>5, <1>7

\* The first slot of the table that is not allocated holds no handle.
LEMMA FreeSlot ==
  ASSUME FileInv, Calm(entries, handles, descriptors, current_directory), FreeSlots # {},
         NEW slot, slot = Min(FreeSlots)
  PROVE  /\ slot \in Files /\ ~descriptors[slot].allocated
         /\ handles[slot].mode = Closed /\ handles[slot].object = NoObject
<1>1. FreeSlots \in SUBSET Nat
  BY FilesystemAssumption DEF FreeSlots
<1>2. slot \in FreeSlots
  BY <1>1, MinIsMember, Zenon
<1>3. slot \in Files /\ ~descriptors[slot].allocated
  BY <1>2 DEF FreeSlots
<1>4. handles[slot].mode = Closed
  BY <1>3, Zenon DEF FileInv, TableInv, HandlesAreTracked
<1>5. handles[slot].object = NoObject
  BY <1>3, <1>4, Zenon DEF Calm, SlotPlaced
<1> QED
  BY <1>3, <1>4, <1>5

\* What the media are when the descriptor is made: as they were, or with the new file.
OpensOn(media, path, o) ==
  /\ MediaOK(media) /\ Calm(media, handles, descriptors, current_directory)
  /\ ObjectIn(media, path) = o
  /\ \A c \in Files : handles[c].mode # Closed =>
       media[handles[c].object].data = entries[handles[c].object].data

\* They are so in _open.
LEMMA OpenedMedia ==
  ASSUME FileInv, Calm(entries, handles, descriptors, current_directory),
         NEW path, IsBelow(path), ObjectAt(path) = NoObject => CreateError(path) = OK
  PROVE  OpensOn(IF ObjectAt(path) # NoObject THEN entries ELSE Created("file", path), path,
                 IF ObjectAt(path) # NoObject THEN ObjectAt(path) ELSE Min(Unused))
<1>1. CASE ObjectAt(path) # NoObject
  <2>1. OpensOn(entries, path, ObjectAt(path))
    BY Zenon DEF OpensOn, FileInv, ObjectAt
  <2> QED
    BY <1>1, <2>1
<1>2. CASE ObjectAt(path) = NoObject
  <2>1. PICK m, o : m = Created("file", path) /\ o = Min(Unused)
    OBVIOUS
  <2>2. /\ Calm(m, handles, descriptors, current_directory)
        /\ Elsewhere(entries, m, o) /\ ObjectIn(m, path) = o
        /\ \A c \in Files : handles[c].mode # Closed =>
                              handles[c].object \in Objects /\ handles[c].object # o
    BY <1>2, <2>1, CreatedCalm
  <2>3. MediaOK(m)
    BY <2>1, CreatedMedia, Zenon
  <2>4. \A c \in Files : handles[c].mode # Closed =>
          m[handles[c].object].data = entries[handles[c].object].data
    BY <2>2 DEF Elsewhere
  <2>5. OpensOn(m, path, o)
    BY <2>2, <2>3, <2>4, Zenon DEF OpensOn
  <2> QED
    BY <1>2, <2>1, <2>5
<1> QED
  BY <1>1, <1>2

\* The error path of _open.
LEMMA OpenFailed ==
  ASSUME FileInv, NEW media, NEW path, NEW o, OpensOn(media, path, o), NEW slot \in Files,
         handles[slot].mode = Closed, handles[slot].object = NoObject,
         handles' = [handles EXCEPT ![slot] = NoHandle], entries' = media,
         UNCHANGED <<descriptors, current_directory>>
  PROVE  CalmStep
<1>1. PICK h : h = NoHandle
  OBVIOUS
<1>2. h.mode = Closed /\ h.object = NoObject
  BY <1>1 DEF NoHandle
<1>3. DOMAIN handles = Files
  BY DEF FileInv, TableInv
<1>4. \A c \in Files : handles'[c] = IF c = slot THEN h ELSE handles[c]
  BY <1>1, <1>3
<1>5. \A c \in Files : SameFile(handles[c], handles'[c])
  BY <1>2, <1>4, Zenon DEF SameFile
<1>6. Calm(media, handles', descriptors, current_directory)
  BY <1>5, FilesKept, Zenon DEF OpensOn
<1>7. Calm(entries', handles', descriptors', current_directory')
  BY <1>6, Zenon
<1>8. OffsetStep
  <2> SUFFICES ASSUME NEW c \in Files,
                      StandsAt(entries, handles[c], descriptors[c])
               PROVE  StandsAt(entries', handles'[c], descriptors'[c])
    BY Zenon DEF OffsetStep
  <2>1. CASE c = slot
    BY <1>2, <1>4, <2>1, Zenon DEF StandsAt
  <2>2. CASE c # slot
    <3>1. handles'[c] = handles[c] /\ descriptors'[c] = descriptors[c]
      BY <1>4, <2>2, Zenon
    <3> QED
      BY <3>1, Zenon DEF StandsAt, AgreesOn, OpensOn
  <2> QED
    BY <2>1, <2>2
<1> QED
  BY <1>7, <1>8 DEF CalmStep

\* r is what the slot of the table holds now.
TakesSlot(slot, r) ==
  /\ handles' = [handles EXCEPT ![slot] = r.handle]
  /\ descriptors' = [descriptors EXCEPT ![slot] = r.descriptor]
  /\ UNCHANGED current_directory

\* The descriptor that _open made, with the file emptied or not.
LEMMA OpenSucceeded ==
  ASSUME FileInv, NEW media, NEW path, IsBelow(path), NEW o \in Objects,
         OpensOn(media, path, o), NEW slot \in Files, handles[slot].mode = Closed,
         NEW x, DescriptorOK(x), x.path = path, x.object = o, x.allocated, x.open_mode = Closed,
         NEW mode, mode = (IF x.writable THEN "write" ELSE "read"), Allows(x, mode),
         NEW q \in Reopen(media, slot, x, mode), q.error = OK,
         NEW r, \/ r = q /\ entries' = media
                \/ r = Emptied(q) /\ x.writable /\ entries' = WithData(media, o, <<>>),
         TakesSlot(slot, r)
  PROVE  CalmStep
<1> USE DEF TakesSlot
<1>1. MediaOK(media) /\ Calm(media, handles, descriptors, current_directory)
      /\ Whole(media) /\ Current(media) /\ ObjectIn(media, path) = o
  BY Zenon DEF OpensOn, Calm
<1>2. mode \in {"read", "write"} /\ mode # Closed
  BY DEF Allows, Closed
<1>3. Good(q, x) /\ q.handle.mode = mode
  BY <1>1, ReopenGood
<1>4. /\ Sits(media, slot, path, q.handle)
      /\ q.handle.offset = Min({q.descriptor.position, Len(media[q.handle.object].data)})
  <2>1. IsPlace(x.path)
    BY DEF IsBelow
  <2> QED
    BY <1>1, <1>2, <2>1, ReopenSits
<1>5. /\ q.handle.object = o /\ media[o].kind = "file" /\ ~Conflict(slot, o, mode)
  BY <1>1, <1>2, <1>3, <1>4, Zenon DEF Sits
<1>6. Good(r, x) /\ SameFile(q.handle, r.handle)
  <2>1. Good(Emptied(q), x) /\ SameFile(q.handle, Emptied(q).handle)
    BY <1>3, EmptiedGood, EmptiedFields
  <2>2. SameFile(q.handle, q.handle)
    BY Zenon DEF SameFile
  <2> QED
    BY <1>3, <2>1, <2>2, Zenon
<1>7. PICK h, y : h = r.handle /\ y = r.descriptor
  OBVIOUS
<1>8. h.object = o /\ h.mode = mode /\ y.allocated /\ y.path = path /\ y.object = o
  BY <1>3, <1>5, <1>6, <1>7 DEF SameFile, Good, Same, SameFlags
<1>9. SlotPlaced(media, y.path, h, y)
  BY <1>1, <1>2, <1>5, <1>8 DEF SlotPlaced
<1>10. /\ SameTree(media, entries') /\ Current(entries')
       /\ \A z \in Objects : (entries' = media) \/ z # o => entries'[z].data = media[z].data
  <2>1. CASE entries' = media
    BY <1>1, <2>1, Zenon DEF SameTree
  <2>2. CASE entries' = WithData(media, o, <<>>)
    <3>1. /\ SameTree(media, entries')
          /\ \A z \in Objects : entries'[z].stale = media[z].stale
      BY <1>1, <2>2, DataTree
    <3>2. \A z \in Objects : entries'[z].data = IF z = o THEN <<>> ELSE media[z].data
      BY <1>1, <2>2, MediaData, EmptyData
    <3>3. entries' = media => \A z \in Objects : entries'[z].data = media[z].data
      BY Zenon
    <3> QED
      BY <1>1, <3>1, <3>2, <3>3, Zenon DEF Current
  <2> QED
    BY <2>1, <2>2
<1>11. \A c \in Files \ {slot} :
         ~(handles[c].object = o /\ (mode = "write" \/ handles[c].mode = "write"))
  BY <1>5, Zenon DEF Conflict
<1>12. DOMAIN handles = Files /\ DOMAIN descriptors = Files
  BY DEF FileInv, TableInv
<1>13. Calm(entries', [handles EXCEPT ![slot] = h], [descriptors EXCEPT ![slot] = y],
            current_directory)
  <2>1. \A c \in Files \ {slot} :
          ~(handles[c].object = h.object /\ (h.mode = "write" \/ handles[c].mode = "write"))
    BY <1>8, <1>11, Zenon
  <2> QED
    BY <1>1, <1>9, <1>10, <1>12, <2>1, SlotCalm
<1>14. Calm(entries', handles', descriptors', current_directory')
  BY <1>7, <1>13, Zenon
<1>15. AgreesOn(entries', h, y)
  <2>1. CASE r = q /\ entries' = media
    <3>1. h = q.handle /\ y = q.descriptor /\ entries' = media
      BY <1>7, <2>1, Zenon
    <3> QED
      BY <1>4, <3>1, Zenon DEF AgreesOn
  <2>2. CASE r = Emptied(q) /\ entries' = WithData(media, o, <<>>)
    <3>1. h.offset = 0 /\ y.position = 0
      BY <1>3, <1>7, <2>2, EmptiedFields, Zenon
    <3>2. entries'[o].data = <<>>
      BY <1>1, <2>2, MediaData, EmptyData
    <3>3. Len(entries'[o].data) = 0
      BY <3>2, EmptyData, Zenon
    <3>4. Min({0, 0}) = 0
      BY MinOfTwo
    <3> QED
      BY <1>8, <3>1, <3>3, <3>4, Zenon DEF AgreesOn
  <2> QED
    BY <2>1, <2>2
<1>16. OffsetStep
  <2> SUFFICES ASSUME NEW c \in Files,
                      StandsAt(entries, handles[c], descriptors[c])
               PROVE  StandsAt(entries', handles'[c], descriptors'[c])
    BY Zenon DEF OffsetStep
  <2>1. CASE c = slot
    <3>1. handles'[c] = h /\ descriptors'[c] = y
      BY <1>7, <1>12, <2>1
    <3> QED
      BY <1>15, <3>1, Zenon DEF StandsAt
  <2>2. CASE c # slot
    <3>1. handles'[c] = handles[c] /\ descriptors'[c] = descriptors[c]
      BY <1>12, <2>2
    <3>2. ASSUME handles[c].mode # Closed
          PROVE  entries'[handles[c].object].data = entries[handles[c].object].data
      <4>1. handles[c].object \in Objects
        BY <1>1, <3>2, Zenon DEF Calm, SlotPlaced
      <4>2. media[handles[c].object].data = entries[handles[c].object].data
        BY <3>2, Zenon DEF OpensOn
      <4>3. mode = "write" => handles[c].object # o
        BY <1>11, <2>2, Zenon
      <4>4. entries' = media \/ mode = "write"
        OBVIOUS
      <4> QED
        BY <1>10, <4>1, <4>2, <4>3, <4>4, Zenon
    <3> QED
      BY <3>1, <3>2, Zenon DEF StandsAt, AgreesOn
  <2> QED
    BY <2>1, <2>2
<1> QED
  BY <1>14, <1>16 DEF CalmStep

\* What _open leaves, however it ends.
LEMMA OpenCall ==
  ASSUME FileInv, Calm(entries, handles, descriptors, current_directory),
         NEW name, IsSequence(name.path), NEW flags, Open(name, flags)
  PROVE  CalmStep
<1> DEFINE path == name.path
           slot == Min(FreeSlots)
           exists == ObjectAt(path) # NoObject
           o == IF exists THEN ObjectAt(path) ELSE Min(Unused)
           media == IF exists THEN entries ELSE Created("file", path)
           position == IF flags.append THEN Len(media[o].data) ELSE 0
           fresh == NewDescriptor(flags, path, position, o)
           mode == IF fresh.writable THEN "write" ELSE "read"
<1>1. PICK r \in OpenOutcomes(media, slot, fresh, flags) :
        /\ IF r.error = OK
             THEN /\ handles' = [handles EXCEPT ![slot] = r.handle]
                  /\ descriptors' = [descriptors EXCEPT ![slot] = r.descriptor]
             ELSE /\ handles' = [handles EXCEPT ![slot] = CloseOnFailure(r.handle)]
                  /\ UNCHANGED descriptors
        /\ entries' = IF r.error = OK /\ r.descriptor.writable /\ flags.trunc
                        THEN [media EXCEPT ![o].data = <<>>]
                        ELSE media
        /\ UNCHANGED current_directory
  BY Zenon DEF Open, NewDescriptor
<1>2. FreeSlots # {} /\ IsBelow(path) /\ (ObjectAt(path) = NoObject => CreateError(path) = OK)
  BY OpenChecks, Zenon DEF Open
<1>3. OpensOn(media, path, o)
  BY <1>2, OpenedMedia, Zenon
<1>4. /\ slot \in Files /\ ~descriptors[slot].allocated
      /\ handles[slot].mode = Closed /\ handles[slot].object = NoObject
  BY <1>2, FreeSlot
<1> HIDE DEF path, slot, exists, o, media, position, fresh
<1>5. PICK q \in Reopen(media, slot, fresh, mode) :
        \/ r = q /\ (q.error # OK \/ ~(fresh.writable /\ flags.trunc))
        \/ q.error = OK /\ fresh.writable /\ flags.trunc /\ r = Emptied(q)
        \/ q.error = OK /\ \E e \in Io \ {OK} : r = WithError(q, e)
  BY OpenedBy DEF mode
<1> HIDE DEF mode
<1>6. fresh.path = path /\ fresh.object = o
  BY NewDescriptorPath DEF fresh
<1>7. CASE r.error # OK
  <2>1. /\ handles' = [handles EXCEPT ![slot] = NoHandle]
        /\ entries' = media /\ UNCHANGED <<descriptors, current_directory>>
    BY <1>1, <1>7, Zenon DEF CloseOnFailure
  <2> QED
    BY <1>3, <1>4, <2>1, OpenFailed
<1>8. CASE r.error = OK
  <2>1. /\ q.error = OK
        /\ \/ r = q /\ ~(fresh.writable /\ flags.trunc)
           \/ r = Emptied(q) /\ fresh.writable /\ flags.trunc
    <3>1. \A e : WithError(q, e).error = e
      BY ReopenOutcome, OutcomeSet, OutcomeFields
    <3>2. \A e \in Io \ {OK} : r # WithError(q, e)
      BY <1>8, <3>1
    <3> QED
      BY <1>5, <1>8, <3>2, Zenon
  <2>2. o \in Objects
    <3>1. ObjectIn(media, path) \in Objects
      BY <1>6, <2>1, ReopenObject
    <3> QED
      BY <1>3, <3>1, Zenon DEF OpensOn
  <2>3. position \in Nat
    <3>1. Len(media[o].data) \in Nat
      BY <1>3, <2>2 DEF OpensOn, MediaOK, EntryOK, IsSequence
    <3> QED
      BY <3>1 DEF position
  <2>4. /\ DescriptorOK(fresh) /\ fresh.open_mode = Closed /\ fresh.allocated
        /\ Allows(fresh, mode)
    BY <2>3, NewDescriptorOK, Zenon DEF mode, fresh
  <2>5. Good(q, fresh)
    BY <1>3, <2>4, ReopenGood DEF OpensOn
  <2>6. r.descriptor.writable = fresh.writable
    <3>1. Good(r, fresh)
      BY <2>1, <2>5, EmptiedGood, Zenon
    <3> QED
      BY <3>1, Zenon DEF Good, Same, SameFlags
  <2>7. \/ r = q /\ entries' = media
        \/ r = Emptied(q) /\ fresh.writable /\ entries' = WithData(media, o, <<>>)
    BY <1>1, <1>8, <2>1, <2>6, Zenon DEF WithData
  <2>8. TakesSlot(slot, r)
    BY <1>1, <1>8, Zenon DEF TakesSlot
  <2>9. mode = (IF fresh.writable THEN "write" ELSE "read")
    BY DEF mode
  <2> QED
    BY <1>2, <1>3, <1>4, <1>6, <2>1, <2>2, <2>4, <2>7, <2>8, <2>9, OpenSucceeded
<1> QED
  BY <1>7, <1>8

-----------------------------------------------------------------------------
(* _rename *)

\* The layer between the move of the source and the migration of the paths.
Migrating(media, hs, ds, cwd, old, new, directory) ==
  /\ Whole(media) /\ Current(media)
  /\ \A d \in Files :
       SlotPlaced(media, migrate_path(ds[d].path, old, new, directory), hs[d], ds[d])
  /\ AloneAt(hs)
  /\ DirectoryAt(media, cwd, migrate_path(cwd, old, new, directory))

\* A move changes no kind.
LEMMA MoveKinds ==
  ASSUME NEW m1, Whole(m1), NEW m2, NEW from, NEW to, NEW o, Moves(m1, m2, from, to, o)
  PROVE  /\ o \in Objects /\ LiveIn(m1, o) /\ LiveIn(m2, o)
         /\ \A x \in Objects : m2[x].kind = m1[x].kind
<1>1. /\ IsPlace(from) /\ ObjectIn(m1, from) = o /\ o \in Objects /\ Elsewhere(m1, m2, o)
      /\ LiveIn(m1, o) => m2[o].kind = m1[o].kind
  BY Zenon DEF Moves, Puts, IsBelow
<1>2. LiveIn(m1, o)
  BY <1>1, FoundLives
<1>3. \A x \in Objects : m2[x].kind = m1[x].kind
  BY <1>1, <1>2 DEF Elsewhere
<1> QED
  BY <1>1, <1>2, <1>3, Zenon DEF LiveIn

\* A directory stays one when no kind changes.
LEMMA DirectoryKinds ==
  ASSUME NEW m1, NEW m2, \A x \in Objects : m2[x].kind = m1[x].kind,
         NEW a, a \in {-1, -2} \/ a \in Objects, DirectoryIn(m1, a)
  PROVE  DirectoryIn(m2, a)
BY DirectoryOnes, Zenon

\* Descriptors and the working directory lead where they led, once they are migrated.
LEMMA MoveCarries ==
  ASSUME NEW m1, NEW hs, NEW ds, NEW cwd, Calm(m1, hs, ds, cwd),
         NEW m2, NEW from, NEW to, NEW o, Moves(m1, m2, from, to, o), Current(m2),
         NEW directory, directory = (m1[o].kind = "dir")
  PROVE  Migrating(m2, hs, ds, cwd, from, to, directory)
<1>1. /\ Whole(m1) /\ AloneAt(hs) /\ DirectoryAt(m1, cwd, cwd)
      /\ \A d \in Files : SlotPlaced(m1, ds[d].path, hs[d], ds[d])
  BY Zenon DEF Calm
<1>2. Whole(m2)
  BY <1>1, PutWhole DEF Moves
<1>3. \A x \in Objects : m2[x].kind = m1[x].kind
  BY <1>1, MoveKinds
<1>4. \A p : IsPlace(p) /\ ObjectIn(m1, p) # NoObject =>
               ObjectIn(m2, migrate_path(p, from, to, directory)) = ObjectIn(m1, p)
  BY <1>1, MoveMigrates
<1>5. ASSUME NEW d \in Files
      PROVE  SlotPlaced(m2, migrate_path(ds[d].path, from, to, directory), hs[d], ds[d])
  <2>1. PICK p, x, h, q : /\ p = ds[d].path /\ x = ds[d] /\ h = hs[d]
                          /\ q = migrate_path(p, from, to, directory)
    OBVIOUS
  <2>2. SlotPlaced(m1, p, h, x) /\ p = x.path
    BY <1>1, <2>1, Zenon
  <2>3. ASSUME x.allocated PROVE IsBelow(x.path) /\ IsPlace(p) /\ x.object \in Objects
    BY <2>2, <2>3, Zenon DEF SlotPlaced, IsBelow
  <2>4. ASSUME x.allocated, LiveIn(m2, x.object) PROVE ObjectIn(m2, q) = x.object
    <3>1. LiveIn(m1, x.object)
      BY <1>3, <2>3, <2>4, Zenon DEF LiveIn
    <3>2. ObjectIn(m1, p) = x.object
      BY <2>2, <2>4, <3>1, Zenon DEF SlotPlaced
    <3>3. x.object # NoObject
      BY <2>3, <2>4, ObjectNumbers
    <3> QED
      BY <1>4, <2>1, <2>3, <2>4, <3>2, <3>3, Zenon
  <2>5. ASSUME h.mode # Closed
        PROVE  /\ x.allocated /\ h.object \in Objects /\ m2[h.object].kind = "file"
               /\ ObjectIn(m2, q) = h.object
    <3>1. /\ x.allocated /\ h.object \in Objects /\ m1[h.object].kind = "file"
          /\ ObjectIn(m1, p) = h.object
      BY <2>2, <2>5, Zenon DEF SlotPlaced
    <3>2. h.object # NoObject
      BY <3>1, ObjectNumbers
    <3>3. m2[h.object].kind = "file"
      BY <1>3, <3>1, Zenon
    <3> QED
      BY <1>4, <2>1, <2>3, <3>1, <3>2, <3>3, Zenon
  <2>6. h.mode = Closed => h.object = NoObject
    BY <2>2, Zenon DEF SlotPlaced
  <2>7. SlotPlaced(m2, q, h, x)
    BY <2>3, <2>4, <2>5, <2>6, Zenon DEF SlotPlaced
  <2> QED
    BY <2>1, <2>7, Zenon
<1>6. DirectoryAt(m2, cwd, migrate_path(cwd, from, to, directory))
  <2>1. CASE virtual_root(cwd)
    BY <1>1, <2>1, Zenon DEF DirectoryAt
  <2>2. CASE ~virtual_root(cwd)
    <3>1. IsPlace(cwd) /\ DirectoryIn(m1, ObjectIn(m1, cwd))
      BY <1>1, <2>2, Zenon DEF DirectoryAt
    <3>2. ObjectIn(m1, cwd) # NoObject
      BY <3>1, DirectoryOnes, Zenon
    <3>3. ObjectIn(m1, cwd) \in {-1, -2} \/ ObjectIn(m1, cwd) \in Objects
      BY <1>1, <3>1, <3>2, LeadsToOne, Zenon
    <3>4. DirectoryIn(m2, ObjectIn(m1, cwd))
      BY <1>3, <3>1, <3>3, DirectoryKinds
    <3>5. ObjectIn(m2, migrate_path(cwd, from, to, directory)) = ObjectIn(m1, cwd)
      BY <1>4, <3>1, <3>2, Zenon
    <3> QED
      BY <1>1, <3>1, <3>4, <3>5, Zenon DEF DirectoryAt
  <2> QED
    BY <2>1, <2>2
<1> QED
  BY <1>1, <1>2, <1>5, <1>6, Zenon DEF Migrating

\* migrate_path moves what is below the old path below the new one, and nothing else.
LEMMA MigratedBelow ==
  ASSUME NEW path, IsSequence(path), NEW old, IsPlace(old), NEW new, IsBelow(new), NEW directory
  PROVE  /\ path_has_prefix(path, old, directory) =>
              IsBelow(migrate_path(path, old, new, directory))
         /\ ~path_has_prefix(path, old, directory) =>
              migrate_path(path, old, new, directory) = path
<1>1. ASSUME path_has_prefix(path, old, directory)
      PROVE  IsBelow(migrate_path(path, old, new, directory))
  <2>1. /\ IsSequence(old) /\ Len(old) >= 1 /\ IsSequence(new) /\ Len(new) >= 2
        /\ Media(new) \in Volumes
    BY DEF IsPlace, IsBelow
  <2>2. Len(old) <= Len(path)
    BY <1>1, <2>1, PrefixMeans, Zenon
  <2>3. PICK m, s, q : m = Len(old) + 1 /\ s = SubSeq(path, m, Len(path)) /\ q = new \o s
    OBVIOUS
  <2>4. m \in Nat /\ m >= 1 /\ Len(path) \in Nat /\ m <= Len(path) + 1
    BY <2>1, <2>2, <2>3 DEF IsSequence
  <2>5. IsSequence(s) /\ Len(s) \in Nat
    BY <2>3, <2>4, Part DEF IsSequence
  <2>6. /\ IsSequence(q) /\ Len(q) = Len(new) + Len(s)
        /\ \A i \in 1 .. Len(new) + Len(s) :
             q[i] = IF i <= Len(new) THEN new[i] ELSE s[i - Len(new)]
    BY <2>1, <2>3, <2>5, Joined, Zenon
  <2>7. Len(q) >= 2 /\ q[1] = new[1]
    BY <2>1, <2>5, <2>6 DEF IsSequence
  <2>8. Media(q) \in Volumes
    BY <2>1, <2>7, Zenon DEF Media
  <2>9. IsBelow(q)
    BY <2>6, <2>7, <2>8 DEF IsBelow, IsPlace
  <2>10. q = migrate_path(path, old, new, directory)
    BY <1>1, <2>3, Zenon DEF migrate_path
  <2> QED
    BY <2>9, <2>10, Zenon
<1>2. ~path_has_prefix(path, old, directory) =>
        migrate_path(path, old, new, directory) = path
  BY Zenon DEF migrate_path
<1> QED
  BY <1>1, <1>2

\* The virtual root is below nothing.
LEMMA VirtualStays ==
  ASSUME NEW path, virtual_root(path), NEW old, IsPlace(old), NEW directory
  PROVE  ~path_has_prefix(path, old, directory)
<1>1. Len(path) = 0 /\ IsSequence(old) /\ Len(old) >= 1
  BY EmptyData DEF virtual_root, IsPlace
<1>2. Len(old) \in Nat
  BY <1>1 DEF IsSequence
<1>3. ~(Len(old) <= Len(path))
  BY <1>1, <1>2
<1> QED
  BY <1>1, <1>3, PrefixMeans, Zenon

\* The working directory afterwards: only a directory carries it.
Followed(cwd, old, new, directory) ==
  IF directory THEN migrate_path(cwd, old, new, TRUE) ELSE cwd

\* Descriptors whose paths were migrated.
Migrated(ds, es, old, new, directory) ==
  \A d \in Files :
    /\ SameFlags(ds[d], es[d])
    /\ es[d].path = IF ds[d].allocated THEN migrate_path(ds[d].path, old, new, directory)
                                       ELSE ds[d].path

\* With the paths migrated the layer is as it is between two calls.
LEMMA MigratedCalm ==
  ASSUME NEW media, NEW hs, NEW ds, NEW cwd, NEW old, NEW new, NEW directory,
         IsPlace(old), IsBelow(new), Migrating(media, hs, ds, cwd, old, new, directory),
         directory \in BOOLEAN,
         directory \/ ~DirectoryIn(media, ObjectIn(media, new)),
         NEW es, Migrated(ds, es, old, new, directory)
  PROVE  /\ Calm(media, hs, es, Followed(cwd, old, new, directory))
         /\ Followed(cwd, old, new, directory) = migrate_path(cwd, old, new, directory)
<1>1. PICK to : to = Followed(cwd, old, new, directory)
  OBVIOUS
<1>2. to = (IF directory THEN migrate_path(cwd, old, new, TRUE) ELSE cwd)
  BY <1>1, Zenon DEF Followed
<1>3. /\ Whole(media) /\ Current(media) /\ AloneAt(hs)
      /\ DirectoryAt(media, cwd, migrate_path(cwd, old, new, directory))
      /\ \A d \in Files :
           SlotPlaced(media, migrate_path(ds[d].path, old, new, directory), hs[d], ds[d])
  BY Zenon DEF Migrating
<1>4. ASSUME NEW d \in Files
      PROVE  SlotPlaced(media, es[d].path, hs[d], es[d])
  <2>1. PICK h, x, y, q : /\ h = hs[d] /\ x = ds[d] /\ y = es[d]
                          /\ q = migrate_path(x.path, old, new, directory)
    OBVIOUS
  <2>2. SlotPlaced(media, q, h, x)
    BY <1>3, <2>1, Zenon
  <2>3. SameFlags(x, y) /\ y.path = IF x.allocated THEN q ELSE x.path
    BY <2>1, Zenon DEF Migrated
  <2>4. y.allocated = x.allocated /\ y.object = x.object
    BY <2>3, Zenon DEF SameFlags
  <2>5. CASE ~x.allocated
    <3>1. ~y.allocated /\ h.mode = Closed /\ h.object = NoObject
      BY <2>2, <2>4, <2>5, Zenon DEF SlotPlaced
    <3>2. SlotPlaced(media, y.path, h, y)
      BY <3>1, Zenon DEF SlotPlaced
    <3> QED
      BY <2>1, <3>2, Zenon
  <2>6. CASE x.allocated
    <3>1. y.path = q /\ IsBelow(x.path) /\ IsSequence(x.path)
      BY <2>2, <2>3, <2>6, Zenon DEF SlotPlaced, IsBelow, IsPlace
    <3>2. IsBelow(q)
      <4>1. /\ path_has_prefix(x.path, old, directory) =>
                 IsBelow(migrate_path(x.path, old, new, directory))
            /\ ~path_has_prefix(x.path, old, directory) =>
                 migrate_path(x.path, old, new, directory) = x.path
        BY <3>1, MigratedBelow
      <4> QED
        BY <2>1, <3>1, <4>1, Zenon
    <3>3. SlotPlaced(media, y.path, h, y)
      BY <2>2, <2>4, <2>6, <3>1, <3>2, Zenon DEF SlotPlaced
    <3> QED
      BY <2>1, <3>3, Zenon
  <2> QED
    BY <2>5, <2>6
<1>5. IsSequence(cwd)
  BY <1>3, Zenon DEF DirectoryAt
<1>6. DirectoryAt(media, to, to) /\ to = migrate_path(cwd, old, new, directory)
  <2>1. CASE ~path_has_prefix(cwd, old, directory)
    <3>1. migrate_path(cwd, old, new, directory) = cwd
      BY <1>5, <2>1, MigratedBelow, Zenon
    <3>2. to = cwd
      <4>1. directory => directory = TRUE
        OBVIOUS
      <4> QED
        BY <1>2, <3>1, <4>1, Zenon
    <3> QED
      BY <1>3, <3>1, <3>2, Zenon
  <2>2. CASE path_has_prefix(cwd, old, directory)
    <3>1. PICK q : q = migrate_path(cwd, old, new, directory)
      OBVIOUS
    <3>2. IsBelow(q) /\ IsPlace(q) /\ IsSequence(q)
      BY <1>5, <2>2, <3>1, MigratedBelow, Zenon DEF IsBelow, IsPlace
    <3>3. DirectoryIn(media, ObjectIn(media, q))
      BY <1>3, <2>2, <3>1, VirtualStays, Zenon DEF DirectoryAt
    <3>4. directory
      <4> SUFFICES ASSUME ~directory PROVE FALSE
        BY Zenon
      <4>1. /\ IsSequence(old) /\ Len(old) >= 1 /\ IsSequence(new) /\ Len(new) >= 2
            /\ Len(new) \in Nat /\ Len(old) \in Nat
        BY DEF IsPlace, IsBelow, IsSequence
      <4>2. Len(cwd) = Len(old)
        BY <2>2, <4>1, PrefixMeans, Zenon
      <4>3. PICK m, s : m = Len(old) + 1 /\ s = SubSeq(cwd, m, Len(cwd))
        OBVIOUS
      <4>4. IsSequence(s) /\ Len(s) = 0
        <5>1. m \in Nat /\ m >= 1 /\ Len(cwd) \in Nat /\ m <= Len(cwd) + 1 /\ Len(cwd) - m + 1 = 0
          BY <4>1, <4>2, <4>3
        <5>2. IsSequence(SubSeq(cwd, m, Len(cwd)))
              /\ Len(SubSeq(cwd, m, Len(cwd))) = Len(cwd) - m + 1
          <6>1. Len(cwd) <= Len(cwd)
            BY <5>1
          <6> QED
            BY <1>5, <5>1, <6>1, Part
        <5> QED
          BY <4>3, <5>1, <5>2
      <4>5. q = new \o s
        BY <2>2, <3>1, <4>3, Zenon DEF migrate_path
      <4>6. /\ IsSequence(q) /\ Len(q) = Len(new)
            /\ \A i \in 1 .. Len(new) : q[i] = new[i]
        <5>1. /\ Len(q) = Len(new) + Len(s)
              /\ \A i \in 1 .. Len(new) + Len(s) :
                   q[i] = IF i <= Len(new) THEN new[i] ELSE s[i - Len(new)]
          BY <4>1, <4>4, <4>5, Joined, Zenon
        <5> QED
          BY <3>2, <4>1, <4>4, <5>1
      <4>7. q = new
        BY <4>1, <4>6 DEF IsSequence
      <4> QED
        BY <3>3, <4>7
    <3>5. to = q
      <4>1. directory = TRUE
        BY <3>4
      <4> QED
        BY <1>2, <3>1, <4>1, Zenon
    <3> QED
      BY <3>1, <3>2, <3>3, <3>5, Zenon DEF DirectoryAt
  <2> QED
    BY <2>1, <2>2
<1>7. Calm(media, hs, es, to)
  BY <1>3, <1>4, <1>6, Zenon DEF Calm
<1> QED
  BY <1>1, <1>6, <1>7, Zenon

\* The directory entry an object has after fx_file_rename.
LEMMA MovedEntry ==
  ASSUME FileInv, Current(entries), NEW from, NEW to, NEW o \in Objects, o = ObjectAt(from),
         \A d \in Files : handles[d].object = o => ~handles[d].modified,
         NEW media, media = Moved(from, to)
  PROVE  /\ Elsewhere(entries, media, o) /\ Current(media)
         /\ media[o].kind = entries[o].kind
         /\ media[o].parent = ObjectAt(Front(to)) /\ media[o].name = Last(to)
         /\ \A x \in Objects : media[x].data = entries[x].data
<1>1. PICK a, b, c : /\ a = ObjectAt(Front(to)) /\ b = Last(to)
                     /\ c = (entries[o].stale \/ \E d \in Files : /\ handles[d].object = o
                                                                 /\ handles[d].modified)
  OBVIOUS
<1>2. media = [entries EXCEPT ![o].parent = a, ![o].name = b, ![o].stale = c]
  BY <1>1, Zenon DEF Moved
<1>3. DOMAIN entries = Objects /\ \A x \in Objects : IsEntry(entries[x])
  BY DEF FileInv, MediaOK, EntryOK
<1>4. PICK e : e = entries[o]
  OBVIOUS
<1>5. media[o] = [e EXCEPT !.parent = a, !.name = b, !.stale = c]
  BY <1>2, <1>3, <1>4
<1>6. \A x \in Objects \ {o} : media[x] = entries[x]
  BY <1>2, <1>3
<1>7. PICK q : q = [e EXCEPT !.parent = a, !.name = b, !.stale = c]
  OBVIOUS
<1>8. IsEntry(e)
  BY <1>3, <1>4
<1>9. q.kind = e.kind /\ q.parent = a /\ q.name = b /\ q.data = e.data /\ q.stale = c
  BY <1>7, <1>8 DEF IsEntry
<1>10. ~c
  BY <1>1, Zenon DEF Current
<1>11. Current(media)
  <2> SUFFICES ASSUME NEW x \in Objects PROVE ~media[x].stale
    BY Zenon DEF Current
  <2>1. CASE x = o
    BY <1>5, <1>7, <1>9, <1>10, <2>1, Zenon
  <2>2. CASE x # o
    <3>1. media[x] = entries[x]
      BY <1>6, <2>2
    <3> QED
      BY <3>1, Zenon DEF Current
  <2> QED
    BY <2>1, <2>2
<1>12. \A x \in Objects : media[x].data = entries[x].data
  BY <1>4, <1>5, <1>6, <1>7, <1>9
<1>13. Elsewhere(entries, media, o)
  BY <1>6 DEF Elsewhere
<1> QED
  BY <1>1, <1>4, <1>5, <1>7, <1>9, <1>11, <1>12, <1>13, Zenon

\* The locals of a _rename.
IsRename(rn) ==
  rn = [step |-> rn.step, old |-> rn.old, new |-> rn.new, backup |-> rn.backup,
        source |-> rn.source, destination |-> rn.destination]

\* What holds between the steps of a _rename: of the record itself and its source, ...
SourceAt(media, hs, rn) ==
  /\ IsRename(rn)
  /\ IsBelow(rn.old) /\ IsBelow(rn.new)
  /\ rn.source \in Objects /\ LiveIn(media, rn.source)
  /\ media[rn.source].kind = "dir" /\ path_has_prefix(rn.new, rn.old, TRUE) =>
       paths_equal(rn.old, rn.new)
  /\ \A d \in Files : hs[d].object = rn.source => ~hs[d].modified

\* ... of the entry it replaces, which nothing else refers to, ...
ReplacedAt(media, hs, ds, where, rn) ==
  LET dst == rn.destination
  IN  /\ dst \in Objects /\ dst # rn.source /\ LiveIn(media, dst) /\ Childless(media, dst)
      /\ ~paths_equal(rn.old, rn.new)
      /\ \A d \in Files : /\ ds[d].allocated => ds[d].object # dst
                          /\ hs[d].object # dst
      /\ virtual_root(where) \/ ObjectIn(media, where) # dst

\* ... and of the name that entry left for its backup name.
BackedUp(media, rn) ==
  /\ IsBelow(rn.backup) /\ Len(rn.backup) = 2
  /\ ObjectIn(media, rn.backup) = rn.destination

\* The destination's name is free for the source.
Vacant(media, rn) ==
  /\ ObjectIn(media, rn.new) = NoObject
  /\ DirectoryIn(media, ObjectIn(media, Front(rn.new)))
  /\ ObjectIn(media, Front(rn.new)) # rn.destination
  /\ BackedUp(media, rn)

\* What holds at each step of a _rename, and between two calls.
LayerAt(media, hs, ds, cwd, rn) ==
  LET directory == media[rn.source].kind = "dir"
      unmoved == /\ Calm(media, hs, ds, cwd) /\ SourceAt(media, hs, rn)
                 /\ ObjectIn(media, rn.old) = rn.source
  IN  \/ /\ rn.step = "idle" /\ Calm(media, hs, ds, cwd)
      \/ /\ rn.step = "backup" /\ unmoved /\ ReplacedAt(media, hs, ds, cwd, rn)
         /\ ObjectIn(media, rn.new) = rn.destination
      \/ /\ rn.step = "move" /\ unmoved
         /\ rn.destination # NoObject => ReplacedAt(media, hs, ds, cwd, rn) /\ Vacant(media, rn)
      \/ /\ rn.step = "restore" /\ unmoved
         /\ ReplacedAt(media, hs, ds, cwd, rn) /\ Vacant(media, rn)
      \/ /\ rn.step = "delete" /\ SourceAt(media, hs, rn)
         /\ Migrating(media, hs, ds, cwd, rn.old, rn.new, directory)
         /\ ReplacedAt(media, hs, ds, migrate_path(cwd, rn.old, rn.new, directory), rn)
         /\ BackedUp(media, rn)
         /\ ObjectIn(media, rn.new) = rn.source /\ ObjectIn(media, rn.old) = NoObject

\* The inductive invariant of the file layer.
LayerInv == FileInv /\ LayerAt(entries, handles, descriptors, current_directory, rename)

\* The directory the source moves into is not the source or below it.
LEMMA SourceAvoided ==
  ASSUME NEW media, Whole(media), NEW hs, NEW rn, SourceAt(media, hs, rn),
         ObjectIn(media, rn.old) = rn.source,
         DirectoryIn(media, ObjectIn(media, Front(rn.new)))
  PROVE  Avoids(media, Front(rn.new), rn.source)
<1>1. PICK old, new, o, p : /\ old = rn.old /\ new = rn.new /\ o = rn.source
                            /\ p = Front(new)
  OBVIOUS
<1>2. /\ IsBelow(old) /\ IsPlace(old) /\ IsBelow(new) /\ o \in Objects /\ ObjectIn(media, old) = o
      /\ media[o].kind = "dir" /\ path_has_prefix(new, old, TRUE) => paths_equal(old, new)
      /\ DirectoryIn(media, ObjectIn(media, p)) /\ Parents(media)
  BY <1>1, Zenon DEF SourceAt, IsBelow, Whole
<1>3. /\ IsPlace(p) /\ Len(p) = Len(new) - 1 /\ Len(new) \in Nat /\ IsSequence(new)
      /\ IsSequence(old) /\ Len(old) >= 1 /\ Len(old) \in Nat /\ IsSequence(p) /\ Len(p) >= 1
  BY <1>1, <1>2, FrontPlace DEF IsBelow, IsPlace, IsSequence
<1>4. ObjectIn(media, p) # NoObject /\ o # NoObject
  BY <1>2, DirectoryOnes, ObjectNumbers, Zenon
<1>5. CASE media[o].kind # "dir"
  <2>1. Childless(media, o)
    BY <1>2, <1>5, FileIsLeaf
  <2>2. ObjectIn(media, p) # o
    BY <1>2, <1>5, DirectoryOnes, Zenon
  <2>3. Avoids(media, p, o)
    BY <1>2, <1>3, <1>4, <2>1, <2>2, AvoidsLeaf
  <2> QED
    BY <1>1, <2>3, Zenon
<1>6. CASE media[o].kind = "dir"
  <2>0. SUFFICES ASSUME NEW k, k \in 1 .. Len(p), Walk(media, p)[k] = o PROVE FALSE
    BY <1>1, Zenon DEF Avoids
  <2>1. PICK w, v : w = Walk(media, old) /\ v = Walk(media, p)
    OBVIOUS
  <2>2. /\ IsChain(media, old, w) /\ w[Len(old)] = o
        /\ IsChain(media, p, v) /\ v[k] = o
    BY <1>2, <1>3, <1>4, <2>0, <2>1, LeadsAlong
  <2>3. \A m \in 1 .. Len(old), n \in 1 .. Len(p) :
          w[m] = v[n] =>
            m = n /\ \A j \in 1 .. m : fold_ascii_case(old[j]) = fold_ascii_case(p[j])
    <3>1. IsPlace(old) /\ IsPlace(p) /\ IsChain(media, old, w) /\ IsChain(media, p, v)
      BY <1>2, <1>3, <2>2
    <3> QED
      BY <3>1, OnePath
  <2>4. Len(old) \in 1 .. Len(old)
    BY <1>3
  <2>5. Len(old) = k /\ \A j \in 1 .. Len(old) : fold_ascii_case(old[j]) = fold_ascii_case(p[j])
    BY <2>0, <2>2, <2>3, <2>4, Zenon
  <2>6. \A j \in 1 .. Len(new) - 1 : p[j] = new[j]
    BY <1>1, <1>2, FrontPart DEF IsBelow, IsPlace
  <2>7. \A j \in 1 .. Len(old) : fold_ascii_case(new[j]) = fold_ascii_case(old[j])
    <3> SUFFICES ASSUME NEW j \in 1 .. Len(old)
                 PROVE  fold_ascii_case(new[j]) = fold_ascii_case(old[j])
      OBVIOUS
    <3>1. j \in 1 .. Len(new) - 1
      BY <1>3, <2>0, <2>5
    <3>2. p[j] = new[j]
      BY <2>6, <3>1
    <3>3. fold_ascii_case(old[j]) = fold_ascii_case(p[j])
      BY <2>5
    <3> QED
      BY <3>2, <3>3
  <2>8. Len(old) <= Len(new) /\ Len(old) # Len(new)
    BY <1>3, <2>0, <2>5
  <2>9. path_has_prefix(new, old, TRUE)
    BY <1>3, <2>7, <2>8, PrefixMeans, Zenon
  <2>10. paths_equal(old, new)
    BY <1>2, <1>6, <2>9, Zenon
  <2>11. Len(old) = Len(new)
    <3>1. Len(new) >= 1
      BY <1>3
    <3> QED
      BY <1>3, <2>10, <3>1, EqualMeans
  <2> QED
    BY <2>8, <2>11
<1> QED
  BY <1>5, <1>6

\* fx_file_rename has nothing to object to.
LEMMA MoveErrorOK ==
  ASSUME NEW from, NEW to, MoveError(from, to) = OK
  PROVE  /\ DirectoryIn(entries, ObjectIn(entries, Front(to)))
         /\ ObjectIn(entries, to) \in {NoObject, ObjectIn(entries, from)}
<1>1. /\ IsDirectory(ObjectAt(Front(to)))
      /\ ObjectAt(to) \in {NoObject, ObjectAt(from)}
  BY DEF MoveError, OK
<1> QED
  BY <1>1, IsDirectoryMeans, Zenon DEF ObjectAt

\* fx_file_rename as a step of the tree.
LEMMA MovedMoves ==
  ASSUME FileInv, Whole(entries), Current(entries),
         NEW from, IsBelow(from), NEW to, IsBelow(to), NEW o \in Objects,
         ObjectIn(entries, from) = o,
         ObjectIn(entries, to) \in {NoObject, o},
         DirectoryIn(entries, ObjectIn(entries, Front(to))),
         Avoids(entries, Front(to), o),
         \A d \in Files : handles[d].object = o => ~handles[d].modified,
         NEW media, media = Moved(from, to)
  PROVE  /\ Moves(entries, media, from, to, o) /\ Whole(media) /\ Current(media)
         /\ Elsewhere(entries, media, o)
         /\ \A x \in Objects : /\ media[x].data = entries[x].data
                               /\ media[x].kind = entries[x].kind
         /\ media[o].parent = ObjectIn(entries, Front(to))
<1>1. o = ObjectAt(from)
  BY Zenon DEF ObjectAt
<1>2. /\ Elsewhere(entries, media, o) /\ Current(media)
      /\ media[o].kind = entries[o].kind
      /\ media[o].parent = ObjectAt(Front(to)) /\ media[o].name = Last(to)
      /\ \A x \in Objects : media[x].data = entries[x].data
  BY <1>1, MovedEntry
<1>3. LiveIn(entries, o) /\ IsPlace(from)
  <2>1. IsPlace(from)
    BY DEF IsBelow
  <2> QED
    BY <2>1, FoundLives
<1>4. media[o].kind \in {"file", "dir"}
  BY <1>2, <1>3 DEF Whole, Kinds, LiveIn
<1>5. Puts(entries, media, to, o)
  <2>1. media[o].parent = ObjectIn(entries, Front(to))
    BY <1>2, Zenon DEF ObjectAt
  <2> QED
    BY <1>2, <1>4, <2>1, Zenon DEF Puts
<1>6. Moves(entries, media, from, to, o)
  BY <1>5, Zenon DEF Moves
<1>7. Whole(media)
  BY <1>5, PutWhole
<1>8. \A x \in Objects : media[x].kind = entries[x].kind
  BY <1>6, MoveKinds
<1> QED
  BY <1>2, <1>6, <1>7, <1>8, Zenon DEF ObjectAt

\* Nothing that OffsetAgrees looks at changes when an entry moves.
LEMMA MovedOffsets ==
  ASSUME UNCHANGED handles,
         \A c \in Files : descriptors'[c].position = descriptors[c].position,
         \A c \in Files : handles[c].mode # Closed => handles[c].object \in Objects,
         \A x \in Objects : entries'[x].data = entries[x].data
  PROVE  OffsetStep
<1>1. \A c \in Files : SameFile(handles[c], handles'[c]) /\ handles'[c].offset = handles[c].offset
  BY Zenon DEF SameFile
<1> QED
  BY <1>1, OffsetsKept, Zenon

\* What RenameLosesNothing says of one step.
RenameEnds ==
  rename.step # "idle" /\ rename'.step = "idle" =>
       LET src == rename.source
           dst == rename.destination
           At(path) == ObjectIn(entries', path)
       IN  IF result' = "ok"
             THEN /\ At(rename.new) = src
                  /\ paths_equal(rename.old, rename.new) \/ At(rename.old) = NoObject
                  /\ dst # NoObject => entries'[dst].kind = "free"
             ELSE /\ src \in {At(rename.old), At(rename.new)}
                  /\ dst = NoObject \/ At(rename.new) = dst
                       \/ (rename.backup # <<>> /\ At(rename.backup) = dst)

\* What every step has to keep.
LayerStep ==
  /\ LayerAt(entries', handles', descriptors', current_directory', rename')
  /\ OffsetStep /\ RenameEnds

\* A call that is one step.
LEMMA IdleLayer ==
  ASSUME Available, CalmStep, UNCHANGED rename
  PROVE  LayerStep
<1>1. rename.step = "idle" /\ rename'.step = "idle"
  BY DEF Available
<1>2. Calm(entries', handles', descriptors', current_directory') /\ OffsetStep
  BY DEF CalmStep
<1>3. LayerAt(entries', handles', descriptors', current_directory', rename')
  BY <1>1, <1>2, Zenon DEF LayerAt
<1>4. RenameEnds
  BY <1>1, Zenon DEF RenameEnds
<1> QED
  BY <1>2, <1>3, <1>4 DEF LayerStep

\* The checks of _rename.
LEMMA RenameChecks ==
  ASSUME NEW old_name, IsSequence(old_name.path), NEW new_name, IsSequence(new_name.path),
         RenameRefused(old_name, new_name) = OK,
         NEW old, old = old_name.path, NEW new, new = new_name.path
  PROVE  /\ IsBelow(old) /\ IsBelow(new) /\ information_error(old) = OK
         /\ resolve_normalized_path(new) = OK
         /\ Media(old) = Media(new) /\ ~BelowItself(old, new)
         /\ old # new /\ information_error(new) = OK => DestinationError(old, new) = OK
<1>1. /\ resolve_path(old_name) = OK /\ resolve_path(new_name) = OK
      /\ information_error(old) = OK
      /\ (IF Len(old) < 2 \/ Len(new) < 2 THEN "EBUSY"
          ELSE IF Media(old) # Media(new) THEN "EXDEV"
          ELSE IF BelowItself(old, new) THEN "EINVAL"
          ELSE IF OutgrowsPath(old, new) THEN "ENAMETOOLONG"
          ELSE IF old # new /\ information_error(new) = OK THEN DestinationError(old, new)
          ELSE OK) = OK
  BY FirstErrorOK DEF RenameRefused
<1>2. /\ ~(Len(old) < 2 \/ Len(new) < 2) /\ Media(old) = Media(new) /\ ~BelowItself(old, new)
      /\ old # new /\ information_error(new) = OK => DestinationError(old, new) = OK
  BY <1>1 DEF OK
<1>3. Len(old) \in Nat /\ Len(new) \in Nat /\ Len(old) >= 2 /\ Len(new) >= 2
  BY <1>2 DEF IsSequence
<1>4. old # <<>> /\ new # <<>>
  BY <1>3, EmptyData
<1>5. resolve_normalized_path(old) = OK /\ resolve_normalized_path(new) = OK
  BY <1>1, FirstErrorOK, Zenon DEF resolve_path
<1>6. IsPlace(old) /\ IsPlace(new)
  BY <1>4, <1>5, ResolvedPlace DEF virtual_root
<1> QED
  BY <1>1, <1>2, <1>3, <1>5, <1>6 DEF IsBelow

\* Neither path of a rename is the virtual root.
LEMMA BelowIsDirectory ==
  ASSUME NEW path, IsBelow(path)
  PROVE  ~virtual_root(path) /\ (IsDirectoryPath(path) <=> DirectoryIn(entries, ObjectIn(entries, path)))
<1>1. Len(path) >= 2
  BY DEF IsBelow
<1>2. path # <<>>
  BY <1>1, EmptyData
<1>3. ~virtual_root(path)
  BY <1>2 DEF virtual_root
<1>4. IsDirectory(ObjectAt(path)) <=> DirectoryIn(entries, ObjectIn(entries, path))
  BY IsDirectoryMeans, Zenon DEF ObjectAt
<1> QED
  BY <1>3, <1>4, Zenon DEF IsDirectoryPath

\* What is at the path of a rename.
LEMMA BelowObject ==
  ASSUME NEW media, Whole(media), NEW path, IsBelow(path), ObjectIn(media, path) # NoObject
  PROVE  ObjectIn(media, path) \in Objects /\ LiveIn(media, ObjectIn(media, path))
<1>1. IsSequence(path) /\ Len(path) >= 2 /\ Len(path) >= 1
  BY DEF IsBelow, IsPlace
<1>2. IsChild(media, ObjectIn(media, Front(path)), Last(path), ObjectIn(media, path))
  BY <1>1, LeadsTo
<1> QED
  BY <1>2, Zenon DEF IsChild

\* A descriptor or the working directory that leads where a path leads has its prefix.
LEMMA HoldsPrefix ==
  ASSUME FileInv, Calm(entries, handles, descriptors, current_directory),
         NEW path, IsPlace(path), NEW o \in Objects, LiveIn(entries, o), ObjectIn(entries, path) = o
  PROVE  /\ \A d \in Files :
              \/ handles[d].object = o
              \/ descriptors[d].allocated /\ descriptors[d].object = o
              => /\ descriptors[d].allocated
                 /\ \A below : path_has_prefix(descriptors[d].path, path, below)
         /\ \/ virtual_root(current_directory)
            \/ ObjectIn(entries, current_directory) # o
            \/ path_has_prefix(current_directory, path, TRUE)
<1>1. /\ Whole(entries) /\ DirectoryAt(entries, current_directory, current_directory)
      /\ \A d \in Files : SlotPlaced(entries, descriptors[d].path, handles[d], descriptors[d])
  BY Zenon DEF Calm
<1>2. o # NoObject
  BY ObjectNumbers
<1>3. ASSUME NEW d \in Files,
             \/ handles[d].object = o
             \/ descriptors[d].allocated /\ descriptors[d].object = o
      PROVE  /\ descriptors[d].allocated
             /\ \A below : path_has_prefix(descriptors[d].path, path, below)
  <2>1. /\ descriptors[d].allocated /\ IsPlace(descriptors[d].path)
        /\ ObjectIn(entries, descriptors[d].path) = o
    <3>1. PICK h, x : h = handles[d] /\ x = descriptors[d]
      OBVIOUS
    <3>2. SlotPlaced(entries, x.path, h, x)
      BY <1>1, <3>1, Zenon
    <3>3. h.object = o \/ (x.allocated /\ x.object = o)
      BY <1>3, <3>1, Zenon
    <3>4. x.allocated /\ ObjectIn(entries, x.path) = o
      BY <1>2, <3>2, <3>3 DEF SlotPlaced
    <3>5. IsPlace(x.path)
      BY <3>2, <3>4, Zenon DEF SlotPlaced, IsBelow
    <3> QED
      BY <3>1, <3>4, <3>5, Zenon
  <2> QED
    BY <1>1, <1>2, <2>1, SamePlace
<1>4. ASSUME ~virtual_root(current_directory), ObjectIn(entries, current_directory) = o
      PROVE  path_has_prefix(current_directory, path, TRUE)
  <2>1. IsPlace(current_directory)
    BY <1>1, <1>4, Zenon DEF DirectoryAt
  <2>2. \A below : path_has_prefix(current_directory, path, below)
    BY <1>1, <1>2, <1>4, <2>1, SamePlace
  <2> QED
    BY <2>2
<1> QED
  BY <1>3, <1>4, Zenon

\* An entry that passed the checks of a destination.
LEMMA RenameReplaces ==
  ASSUME FileInv, Calm(entries, handles, descriptors, current_directory),
         NEW old, IsBelow(old), NEW new, IsBelow(new), ~paths_equal(old, new),
         DestinationError(old, new) = OK,
         NEW src, src = ObjectIn(entries, old), src # NoObject,
         NEW dst \in Objects, dst = ObjectIn(entries, new), LiveIn(entries, dst)
  PROVE  /\ dst # src /\ Childless(entries, dst)
         /\ \A d \in Files : /\ descriptors[d].allocated => descriptors[d].object # dst
                             /\ handles[d].object # dst
         /\ virtual_root(current_directory) \/ ObjectIn(entries, current_directory) # dst
<1>1. /\ IsDirectoryPath(old) <=> IsDirectoryPath(new)
      /\ ~(IsDirectoryPath(old) /\ HoldsCurrentDirectory(new))
      /\ ~HeldByDescriptor(new)
      /\ IsDirectoryPath(new) => IsEmpty(ObjectAt(new))
  BY DEF DestinationError, OK
<1>2. IsPlace(old) /\ IsPlace(new) /\ Whole(entries) /\ Parents(entries)
  BY DEF IsBelow, Calm, Whole
<1>3. dst # src
  <2> SUFFICES ASSUME dst = src PROVE FALSE
    OBVIOUS
  <2>1. \A below : path_has_prefix(old, new, below)
    BY <1>2, SamePlace
  <2> QED
    BY <2>1 DEF paths_equal
<1>4. IsDirectoryPath(new) <=> DirectoryIn(entries, dst)
  BY BelowIsDirectory, Zenon
<1>5. Childless(entries, dst)
  <2>1. CASE DirectoryIn(entries, dst)
    BY <1>1, <1>4, <2>1, Zenon DEF IsEmpty, Childless, Live, LiveIn, ObjectAt
  <2>2. CASE ~DirectoryIn(entries, dst)
    <3>1. entries[dst].kind # "dir"
      BY <2>2, DirectoryOnes, Zenon
    <3> QED
      BY <1>2, <3>1, FileIsLeaf
  <2> QED
    BY <2>1, <2>2
<1>6. /\ \A d \in Files :
           \/ handles[d].object = dst
           \/ descriptors[d].allocated /\ descriptors[d].object = dst
           => /\ descriptors[d].allocated
              /\ \A below : path_has_prefix(descriptors[d].path, new, below)
      /\ \/ virtual_root(current_directory)
         \/ ObjectIn(entries, current_directory) # dst
         \/ path_has_prefix(current_directory, new, TRUE)
  BY <1>2, HoldsPrefix
<1>7. \A d \in Files :
        ~(descriptors[d].allocated
          /\ path_has_prefix(descriptors[d].path, new, IsDirectoryPath(new)))
  BY <1>1, Zenon DEF HeldByDescriptor
<1>8. ASSUME ~virtual_root(current_directory), ObjectIn(entries, current_directory) = dst
      PROVE  FALSE
  <2>1. DirectoryIn(entries, dst)
    BY <1>8, Zenon DEF Calm, DirectoryAt
  <2>2. path_has_prefix(current_directory, new, TRUE)
    BY <1>6, <1>8, Zenon
  <2>3. IsDirectoryPath(old) /\ HoldsCurrentDirectory(new)
    BY <1>1, <1>4, <2>1, <2>2, Zenon DEF HoldsCurrentDirectory
  <2> QED
    BY <1>1, <2>3, Zenon
<1> QED
  BY <1>3, <1>5, <1>6, <1>7, <1>8, Zenon

\* No handle on the source is ahead of its directory entry once the media are flushed.
LEMMA SourceFlushed ==
  ASSUME FileInv, Calm(entries, handles, descriptors, current_directory),
         NEW old, IsBelow(old), NEW src \in Objects, LiveIn(entries, src),
         ObjectIn(entries, old) = src,
         handles' = (IF SourceIsOpen(old) THEN Flushed(Media(old)) ELSE handles)
  PROVE  /\ \A c \in Files : /\ SameFile(handles[c], handles'[c])
                             /\ handles'[c].offset = handles[c].offset
         /\ \A c \in Files : handles'[c].object = src => ~handles'[c].modified
<1>1. \A c \in Files : /\ SameFile(handles[c], handles'[c])
                       /\ handles'[c].offset = handles[c].offset
  <2>1. CASE handles' = handles
    BY <2>1, Zenon DEF SameFile
  <2>2. CASE handles' = Flushed(Media(old))
    BY <2>2, FlushedSame, Zenon
  <2> QED
    BY <2>1, <2>2
<1>2. ASSUME NEW c \in Files, handles'[c].object = src
      PROVE  ~handles'[c].modified
  <2>1. handles[c].object = src
    BY <1>1, <1>2, Zenon DEF SameFile
  <2>2. IsPlace(old)
    BY DEF IsBelow
  <2>3. /\ descriptors[c].allocated
        /\ \A below : path_has_prefix(descriptors[c].path, old, below)
    BY <2>1, <2>2, HoldsPrefix
  <2>4. src # NoObject
    BY ObjectNumbers
  <2>5. descriptors[c].open_mode # Closed
    <3>1. handles[c].mode # Closed
      BY <2>1, <2>4, Zenon DEF Calm, SlotPlaced
    <3> QED
      BY <3>1, Zenon DEF FileInv, HandlesAreTracked
  <2>6. SourceIsOpen(old)
    BY <2>3, <2>5, Zenon DEF SourceIsOpen
  <2>7. Media(descriptors[c].path) = Media(old)
    <3>1. IsSequence(old) /\ Len(old) >= 1 /\ 1 \in 1 .. Len(old)
      BY DEF IsBelow, IsPlace, IsSequence
    <3>2. \A i \in 1 .. Len(old) :
            fold_ascii_case(descriptors[c].path[i]) = fold_ascii_case(old[i])
      BY <2>3, <3>1, PrefixMeans, Zenon
    <3> QED
      BY <3>1, <3>2, Zenon DEF Media
  <2>8. ~Flushed(Media(old))[c].modified
    BY <2>1, <2>4, <2>7, FlushedSame, Zenon
  <2> QED
    BY <2>6, <2>8, Zenon
<1> QED
  BY <1>1, <1>2, Zenon

\* The locals of a _rename when it starts.
LEMMA StartFields ==
  ASSUME NEW old, NEW new, NEW rn, rn = RenameStart(old, new),
         NEW dst, dst = (IF paths_equal(old, new) THEN NoObject ELSE ObjectAt(new))
  PROVE  /\ IsRename(rn) /\ rn.old = old /\ rn.new = new /\ rn.source = ObjectAt(old)
         /\ rn.destination = dst
         /\ rn.step = IF dst = NoObject THEN "move" ELSE "backup"
<1>1. PICK s, src, i : s = (IF dst = NoObject THEN "move" ELSE "backup") /\ src = ObjectAt(old)
                       /\ i = Idle
  OBVIOUS
<1>2. rn = [i EXCEPT !.step = s, !.old = old, !.new = new, !.source = src, !.destination = dst]
  BY <1>1, Zenon DEF RenameStart
<1>3. IsRename(i)
  BY <1>1 DEF IsRename, Idle
<1>4. /\ IsRename(rn) /\ rn.old = old /\ rn.new = new /\ rn.source = src
      /\ rn.destination = dst /\ rn.step = s
  BY <1>2, <1>3 DEF IsRename
<1> QED
  BY <1>1, <1>4

\* A _rename that passed the checks starts with its source in place and, if it replaces an
\* entry, with nothing on that entry.
LEMMA RenameStarts ==
  ASSUME FileInv, Calm(entries, handles, descriptors, current_directory),
         NEW old_name, IsSequence(old_name.path), NEW new_name, IsSequence(new_name.path),
         RenameRefused(old_name, new_name) = OK, Available,
         NEW old, old = old_name.path, NEW new, new = new_name.path, old # new,
         handles' = (IF SourceIsOpen(old) THEN Flushed(Media(old)) ELSE handles),
         rename' = RenameStart(old, new),
         UNCHANGED <<entries, descriptors, current_directory>>
  PROVE  LayerStep
<1>1. /\ IsBelow(old) /\ IsBelow(new) /\ information_error(old) = OK
      /\ resolve_normalized_path(new) = OK /\ ~BelowItself(old, new)
      /\ information_error(new) = OK => DestinationError(old, new) = OK
  BY RenameChecks, Zenon
<1>2. Whole(entries)
  BY Zenon DEF Calm
<1>3. PICK src, dst, rn : /\ src = ObjectIn(entries, old)
                          /\ dst = (IF paths_equal(old, new) THEN NoObject ELSE ObjectAt(new))
                          /\ rn = rename'
  OBVIOUS
<1>4. src # NoObject
  BY <1>1, <1>3, BelowIsDirectory, InformationOK, Zenon DEF ObjectAt
<1>5. src \in Objects /\ LiveIn(entries, src)
  BY <1>1, <1>2, <1>3, <1>4, BelowObject, Zenon
<1>6. /\ IsRename(rn) /\ rn.old = old /\ rn.new = new /\ rn.source = src
      /\ rn.destination = dst
      /\ rn.step = IF dst = NoObject THEN "move" ELSE "backup"
  BY <1>3, StartFields DEF ObjectAt
<1>7. /\ \A c \in Files : /\ SameFile(handles[c], handles'[c])
                          /\ handles'[c].offset = handles[c].offset
      /\ \A c \in Files : handles'[c].object = src => ~handles'[c].modified
  BY <1>1, <1>3, <1>5, SourceFlushed
<1>8. Calm(entries, handles', descriptors, current_directory)
  BY <1>7, FilesKept, Zenon
<1>9. OffsetStep
  BY <1>7, OffsetsKept, Zenon
<1>10. SourceAt(entries, handles', rn)
  <2>1. ASSUME entries[src].kind = "dir", path_has_prefix(new, old, TRUE)
        PROVE  paths_equal(old, new)
    <3>1. IsDirectoryPath(old)
      BY <1>1, <1>3, <1>5, <2>1, BelowIsDirectory, DirectoryOnes, Zenon
    <3> QED
      BY <1>1, <2>1, <3>1, Zenon DEF BelowItself
  <2> QED
    BY <1>1, <1>5, <1>6, <1>7, <2>1, Zenon DEF SourceAt, IsRename
<1>11. CASE dst = NoObject
  <2>1. rn.step = "move" /\ rn.destination = NoObject
    BY <1>6, <1>11, Zenon
  <2>2. LayerAt(entries, handles', descriptors, current_directory, rn)
    BY <1>3, <1>6, <1>8, <1>10, <2>1, Zenon DEF LayerAt
  <2>3. RenameEnds
    BY Zenon DEF RenameEnds, Available
  <2> QED
    BY <1>3, <1>9, <2>2, <2>3, Zenon DEF LayerStep
<1>12. CASE dst # NoObject
  <2>1. rn.step = "backup" /\ ~paths_equal(old, new) /\ dst = ObjectIn(entries, new)
    BY <1>3, <1>6, <1>12, Zenon DEF ObjectAt
  <2>2. dst \in Objects /\ LiveIn(entries, dst)
    BY <1>1, <1>2, <1>12, <2>1, BelowObject, Zenon
  <2>3. information_error(new) = OK
    BY <1>1, <1>12, <2>1 DEF information_error, FirstError, ObjectAt
  <2>4. /\ dst # src /\ Childless(entries, dst)
        /\ \A d \in Files : /\ descriptors[d].allocated => descriptors[d].object # dst
                            /\ handles[d].object # dst
        /\ virtual_root(current_directory) \/ ObjectIn(entries, current_directory) # dst
    BY <1>1, <1>3, <1>4, <2>1, <2>2, <2>3, RenameReplaces
  <2>5. \A d \in Files : handles'[d].object # dst
    BY <1>7, <2>4, Zenon DEF SameFile
  <2>6. ReplacedAt(entries, handles', descriptors, current_directory, rn)
    BY <1>6, <2>1, <2>2, <2>4, <2>5, Zenon DEF ReplacedAt
  <2>7. LayerAt(entries, handles', descriptors, current_directory, rn)
    BY <1>3, <1>6, <1>8, <1>10, <2>1, <2>6, Zenon DEF LayerAt
  <2>8. RenameEnds
    BY Zenon DEF RenameEnds, Available
  <2> QED
    BY <1>3, <1>9, <2>7, <2>8, Zenon DEF LayerStep
<1> QED
  BY <1>11, <1>12

\* The first step of _rename, or all of it when it fails or has nothing to do.
LEMMA RenameCall ==
  ASSUME FileInv, Calm(entries, handles, descriptors, current_directory),
         NEW old_name, IsSequence(old_name.path), NEW new_name, IsSequence(new_name.path),
         Rename(old_name, new_name)
  PROVE  LayerStep
<1>1. PICK old, new : old = old_name.path /\ new = new_name.path
  OBVIOUS
<1>2. /\ Available
      /\ \/ Refuse
         \/ UNCHANGED <<entries, handles, descriptors, current_directory, rename>>
         \/ /\ RenameRefused(old_name, new_name) = OK /\ old # new
            /\ handles' = (IF SourceIsOpen(old) THEN Flushed(Media(old)) ELSE handles)
            /\ rename' = RenameStart(old, new)
            /\ UNCHANGED <<entries, descriptors, current_directory>>
  BY <1>1, Zenon DEF Rename, fsVars
<1>3. CASE Refuse
  BY <1>2, <1>3, RefuseCalm, IdleLayer DEF Refuse
<1>4. CASE UNCHANGED <<entries, handles, descriptors, current_directory, rename>>
  BY <1>2, <1>4, NothingChanges, IdleLayer
<1>5. CASE /\ RenameRefused(old_name, new_name) = OK /\ old # new
           /\ handles' = (IF SourceIsOpen(old) THEN Flushed(Media(old)) ELSE handles)
           /\ rename' = RenameStart(old, new)
           /\ UNCHANGED <<entries, descriptors, current_directory>>
  BY <1>1, <1>2, <1>5, RenameStarts
<1> QED
  BY <1>2, <1>3, <1>4, <1>5

\* The entry to be replaced moves to its backup name or back: nothing refers to it.
LEMMA ReplacedMoves ==
  ASSUME FileInv, Calm(entries, handles, descriptors, current_directory),
         NEW rn, ReplacedAt(entries, handles, descriptors, current_directory, rn),
         NEW dst, dst = rn.destination,
         NEW from, IsBelow(from), ObjectIn(entries, from) = dst,
         NEW to, IsBelow(to), ObjectIn(entries, to) = NoObject,
         DirectoryIn(entries, ObjectIn(entries, Front(to))),
         ObjectIn(entries, Front(to)) # dst,
         NEW media, media = Moved(from, to)
  PROVE  /\ Calm(media, handles, descriptors, current_directory)
         /\ ObjectIn(media, to) = dst /\ ObjectIn(media, from) = NoObject
         /\ \A p : IsPlace(p) /\ ObjectIn(entries, p) # NoObject /\ ObjectIn(entries, p) # dst =>
                     ObjectIn(media, p) = ObjectIn(entries, p)
         /\ \A x \in Objects : /\ media[x].data = entries[x].data
                               /\ media[x].kind = entries[x].kind
         /\ Elsewhere(entries, media, dst) /\ Childless(media, dst)
<1>1. /\ dst \in Objects /\ Childless(entries, dst)
      /\ \A d \in Files : /\ descriptors[d].allocated => descriptors[d].object # dst
                          /\ handles[d].object # dst
      /\ virtual_root(current_directory) \/ ObjectIn(entries, current_directory) # dst
  BY Zenon DEF ReplacedAt
<1>2. Whole(entries) /\ Current(entries) /\ Parents(entries) /\ IsPlace(Front(to))
  BY FrontPlace, Zenon DEF Calm, Whole
<1>3. ObjectIn(entries, Front(to)) # NoObject
  BY DirectoryOnes, Zenon
<1>4. Avoids(entries, Front(to), dst)
  BY <1>1, <1>2, <1>3, AvoidsLeaf DEF IsPlace
<1>5. /\ Moves(entries, media, from, to, dst) /\ Whole(media) /\ Current(media)
      /\ Elsewhere(entries, media, dst)
      /\ \A x \in Objects : /\ media[x].data = entries[x].data
                            /\ media[x].kind = entries[x].kind
      /\ media[dst].parent = ObjectIn(entries, Front(to))
  BY <1>1, <1>2, <1>4, MovedMoves
<1>6. ASSUME NEW p, IsPlace(p), ObjectIn(entries, p) # NoObject, ObjectIn(entries, p) # dst
      PROVE  ObjectIn(media, p) = ObjectIn(entries, p)
  <2>1. Avoids(entries, p, dst)
    BY <1>1, <1>2, <1>6, AvoidsLeaf DEF IsPlace
  <2> QED
    BY <1>2, <1>5, <1>6, <2>1, PutKeeps DEF Moves
<1>7. Calm(media, handles, descriptors, current_directory)
  BY <1>1, <1>5, <1>6, MediaCalm
<1>8. ObjectIn(media, to) = dst
  BY <1>2, <1>5, PutArrives DEF Moves
<1>9. ObjectIn(media, from) = NoObject
  <2>1. ~paths_equal(from, to)
    <3> SUFFICES ASSUME paths_equal(from, to) PROVE FALSE
      OBVIOUS
    <3>1. ObjectIn(entries, from) = ObjectIn(entries, to)
      BY <1>2, SameObject DEF IsBelow
    <3> QED
      BY <1>1, <3>1, ObjectNumbers
  <2> QED
    BY <1>2, <1>5, <2>1, MoveLeaves
<1>10. Childless(media, dst)
  <2> SUFFICES ASSUME NEW x \in Objects, LiveIn(media, x) PROVE media[x].parent # dst
    BY Zenon DEF Childless
  <2>1. CASE x = dst
    BY <1>5, <2>1, Zenon
  <2>2. CASE x # dst
    <3>1. media[x] = entries[x]
      BY <1>5, <2>2 DEF Elsewhere
    <3> QED
      BY <1>1, <3>1, Zenon DEF Childless, LiveIn
  <2> QED
    BY <2>1, <2>2
<1> QED
  BY <1>5, <1>6, <1>7, <1>8, <1>9, <1>10, Zenon

\* The name of the backup that was found.
LEMMA BackupFound ==
  ASSUME IsBelow(rename.new),
         NEW backup, NEW t \in FreeCandidates,
         backup = BackupPath((rename_backup_sequence + t) % BackupNames)
  PROVE  /\ IsBelow(backup) /\ Len(backup) = 2 /\ ObjectIn(entries, backup) = NoObject
         /\ ObjectIn(entries, Front(backup)) \in {-1, -2}
<1>1. ObjectIn(entries, backup) = NoObject
  BY Zenon DEF FreeCandidates, ObjectAt
<1>2. PICK a, b : a = rename.new[1] /\ backup = <<a, b>>
  BY Zenon DEF BackupPath
<1>3. Media(backup) \in Volumes
  <2>1. backup[1] = a
    BY <1>2
  <2> QED
    BY <1>2, <2>1, Zenon DEF IsBelow, IsPlace, Media
<1>4. IsBelow(backup) /\ Len(backup) = 2
  <2> HIDE DEF Volumes
  <2>1. IsSequence(backup) /\ Len(backup) = 2
    BY <1>2 DEF IsSequence
  <2>2. Len(backup) >= 1 /\ Len(backup) >= 2
    BY <2>1
  <2> QED
    BY <1>3, <2>1, <2>2, Zenon DEF IsBelow, IsPlace
<1>5. IsSequence(Front(backup)) /\ Len(Front(backup)) = 1
  <2>1. IsPlace(Front(backup)) /\ Len(Front(backup)) = Len(backup) - 1
    BY <1>4, FrontPlace, Zenon
  <2>2. Len(backup) - 1 = 1
    BY <1>4
  <2> QED
    BY <2>1, <2>2, Zenon DEF IsPlace
<1>6. ObjectIn(entries, Front(backup)) \in {-1, -2}
  <2>1. ObjectIn(entries, Front(backup)) = Walk(entries, Front(backup))[1]
    BY <1>5, WalkEnds
  <2>2. 1 \in 1 .. Len(Front(backup))
    BY <1>5
  <2>3. Walk(entries, Front(backup))[1] = RootOf(fold_ascii_case(Front(backup)[1]))
    BY <1>5, <2>2, WalkDefined
  <2> QED
    BY <2>1, <2>3, Roots
<1> QED
  BY <1>1, <1>4, <1>6, Zenon

\* The mutex is free when _rename has returned.
LEMMA IdleStep == Idle.step = "idle"
BY DEF Idle

\* A _rename that returns with nothing changed.
LEMMA EndsUnmoved ==
  ASSUME Calm(entries, handles, descriptors, current_directory),
         UNCHANGED <<entries, handles, descriptors, current_directory>>,
         rename' = Idle, result' = "error",
         ObjectIn(entries, rename.old) = rename.source,
         \/ rename.destination = NoObject
         \/ ObjectIn(entries, rename.new) = rename.destination
         \/ BackedUp(entries, rename)
  PROVE  LayerStep
<1>1. CalmStep
  BY NothingChanges
<1>2. rename'.step = "idle"
  BY IdleStep
<1>3. LayerAt(entries', handles', descriptors', current_directory', rename')
  BY <1>1, <1>2, Zenon DEF LayerAt, CalmStep
<1>4. BackedUp(entries, rename) =>
        rename.backup # <<>> /\ ObjectIn(entries, rename.backup) = rename.destination
  <2> SUFFICES ASSUME BackedUp(entries, rename)
               PROVE  rename.backup # <<>> /\ ObjectIn(entries, rename.backup) = rename.destination
    OBVIOUS
  <2>1. Len(rename.backup) = 2 /\ ObjectIn(entries, rename.backup) = rename.destination
    BY Zenon DEF BackedUp
  <2> QED
    BY <2>1, EmptyData
<1>5. RenameEnds
  <2>1. result' # "ok"
    OBVIOUS
  <2>2. entries' = entries
    OBVIOUS
  <2>3. rename.source \in {ObjectIn(entries', rename.old), ObjectIn(entries', rename.new)}
    BY <2>2
  <2>4. \/ rename.destination = NoObject \/ ObjectIn(entries', rename.new) = rename.destination
        \/ rename.backup # <<>> /\ ObjectIn(entries', rename.backup) = rename.destination
    BY <1>4, <2>2
  <2> QED
    BY <2>1, <2>3, <2>4, Zenon DEF RenameEnds
<1> QED
  BY <1>1, <1>3, <1>5, Zenon DEF LayerStep, CalmStep

\* What LayerAt says when the destination is to be moved aside.
LEMMA AtBackup ==
  ASSUME LayerInv, rename.step = "backup"
  PROVE  /\ FileInv /\ Calm(entries, handles, descriptors, current_directory)
         /\ SourceAt(entries, handles, rename)
         /\ ObjectIn(entries, rename.old) = rename.source
         /\ ReplacedAt(entries, handles, descriptors, current_directory, rename)
         /\ ObjectIn(entries, rename.new) = rename.destination
BY DEF LayerInv, LayerAt

\* The locals at the next step, ...
NextLocals(rn, step) == [rn EXCEPT !.step = step]

\* ... and with the name of the backup that was taken.
BackupLocals(rn, backup) == [rn EXCEPT !.step = "move", !.backup = backup]

\* Only the step changes.
LEMMA NextFields ==
  ASSUME NEW rn, IsRename(rn), NEW step
  PROVE  LET r == NextLocals(rn, step)
         IN  /\ IsRename(r) /\ r.step = step /\ r.old = rn.old /\ r.new = rn.new
             /\ r.source = rn.source /\ r.destination = rn.destination /\ r.backup = rn.backup
<1>1. PICK r : r = NextLocals(rn, step)
  OBVIOUS
<1>2. /\ IsRename(r) /\ r.step = step /\ r.old = rn.old /\ r.new = rn.new
      /\ r.source = rn.source /\ r.destination = rn.destination /\ r.backup = rn.backup
  BY <1>1 DEF IsRename, NextLocals
<1> QED
  BY <1>1, <1>2, Zenon

\* Only the step and the name of the backup change.
LEMMA BackupFields ==
  ASSUME NEW rn, IsRename(rn), NEW backup
  PROVE  LET r == BackupLocals(rn, backup)
         IN  /\ IsRename(r) /\ r.step = "move" /\ r.old = rn.old /\ r.new = rn.new
             /\ r.source = rn.source /\ r.destination = rn.destination /\ r.backup = backup
<1>1. PICK r : r = BackupLocals(rn, backup)
  OBVIOUS
<1>2. /\ IsRename(r) /\ r.step = "move" /\ r.old = rn.old /\ r.new = rn.new
      /\ r.source = rn.source /\ r.destination = rn.destination /\ r.backup = backup
  BY <1>1 DEF IsRename, BackupLocals
<1> QED
  BY <1>1, <1>2, Zenon

\* The source stays where it was while the entry to be replaced moves.
LEMMA SourceStays ==
  ASSUME NEW media, NEW hs, NEW rn, SourceAt(media, hs, rn),
         NEW m2, \A x \in Objects : m2[x].kind = media[x].kind,
         NEW q, IsRename(q), q.old = rn.old, q.new = rn.new, q.source = rn.source
  PROVE  SourceAt(m2, hs, q)
<1>1. m2[rn.source].kind = media[rn.source].kind
  BY DEF SourceAt
<1> QED
  BY <1>1, Zenon DEF SourceAt, LiveIn

\* The destination moves aside, or _rename gives up.
LEMMA RenameBackupStep ==
  ASSUME LayerInv, RenameBackup
  PROVE  LayerStep
<1> DEFINE Path(t) == BackupPath((rename_backup_sequence + t) % BackupNames)
           Backed(t) == /\ entries' = Moved(rename.new, Path(t))
                        /\ rename' = [rename EXCEPT !.step = "move", !.backup = Path(t)]
<1>1. /\ FileInv /\ Calm(entries, handles, descriptors, current_directory)
      /\ SourceAt(entries, handles, rename)
      /\ ObjectIn(entries, rename.old) = rename.source
      /\ ReplacedAt(entries, handles, descriptors, current_directory, rename)
      /\ ObjectIn(entries, rename.new) = rename.destination
  BY AtBackup, Zenon DEF RenameBackup
<1>2. /\ UNCHANGED <<handles, descriptors, current_directory>>
      /\ \/ UNCHANGED entries /\ rename' = Idle /\ result' = "error"
         \/ \E t \in FreeCandidates : Backed(t)
  <2>1. FreeCandidates # {} => Min(FreeCandidates) \in FreeCandidates
    <3>1. FreeCandidates \in SUBSET Nat
      BY FilesystemAssumption DEF FreeCandidates
    <3> QED
      BY <3>1, MinIsMember, Zenon
  <2>2. \A e : e # OK /\ EndRename(e) => rename' = Idle /\ result' = "error"
    BY DEF EndRename, Returned
  <2>3. "ENOSPC" # OK /\ "EIO" # OK
    BY DEF OK
  <2> QED
    BY <2>1, <2>2, <2>3, Zenon DEF RenameBackup, fsVars
<1>3. CASE UNCHANGED entries /\ rename' = Idle /\ result' = "error"
  BY <1>1, <1>2, <1>3, EndsUnmoved
<1>4. CASE \E t \in FreeCandidates : Backed(t)
  <2>1. PICK t \in FreeCandidates : Backed(t)
    BY <1>4
  <2>2. PICK old, new, src, dst, backup, media, rn :
          /\ old = rename.old /\ new = rename.new /\ src = rename.source
          /\ dst = rename.destination /\ backup = Path(t) /\ media = entries' /\ rn = rename'
    OBVIOUS
  <2>3. /\ IsBelow(old) /\ IsBelow(new) /\ src \in Objects /\ IsRename(rename)
        /\ ObjectIn(entries, old) = src /\ ObjectIn(entries, new) = dst
        /\ dst \in Objects /\ dst # src /\ Childless(entries, dst) /\ LiveIn(entries, dst)
        /\ ~paths_equal(old, new)
    BY <1>1, <2>2, Zenon DEF SourceAt, ReplacedAt
  <2>4. src # NoObject /\ dst # NoObject /\ dst \notin {-1, -2}
    BY <2>3, ObjectNumbers
  <2>5. /\ IsBelow(backup) /\ Len(backup) = 2 /\ ObjectIn(entries, backup) = NoObject
        /\ ObjectIn(entries, Front(backup)) \in {-1, -2}
    <3>1. IsBelow(rename.new) /\ backup = BackupPath((rename_backup_sequence + t) % BackupNames)
      BY <2>2, <2>3
    <3> HIDE DEF Path, Backed
    <3> QED
      BY <3>1, BackupFound
  <2>6. /\ media = Moved(new, backup)
        /\ rn = BackupLocals(rename, backup)
    BY <2>1, <2>2, Zenon DEF BackupLocals
  <2> HIDE DEF Path, Backed
  <2>7. /\ Calm(media, handles, descriptors, current_directory)
        /\ ObjectIn(media, backup) = dst /\ ObjectIn(media, new) = NoObject
        /\ \A p : IsPlace(p) /\ ObjectIn(entries, p) # NoObject /\ ObjectIn(entries, p) # dst =>
                    ObjectIn(media, p) = ObjectIn(entries, p)
        /\ \A x \in Objects : /\ media[x].data = entries[x].data
                              /\ media[x].kind = entries[x].kind
        /\ Elsewhere(entries, media, dst) /\ Childless(media, dst)
    <3>1. DirectoryIn(entries, ObjectIn(entries, Front(backup)))
          /\ ObjectIn(entries, Front(backup)) # dst
      BY <2>4, <2>5, DirectoryOnes, Zenon
    <3> QED
      BY <1>1, <2>2, <2>3, <2>5, <2>6, <3>1, ReplacedMoves
  <2>8. /\ IsRename(rn) /\ rn.step = "move" /\ rn.old = old /\ rn.new = new
        /\ rn.source = src /\ rn.destination = dst /\ rn.backup = backup
    <3>1. /\ IsRename(rn) /\ rn.step = "move" /\ rn.old = rename.old /\ rn.new = rename.new
          /\ rn.source = rename.source /\ rn.destination = rename.destination
          /\ rn.backup = backup
      BY <2>3, <2>6, BackupFields
    <3> QED
      BY <2>2, <3>1, Zenon
  <2>9. ObjectIn(media, old) = src
    BY <2>3, <2>4, <2>7, Zenon DEF IsBelow
  <2>10. SourceAt(media, handles, rn)
    BY <1>1, <2>2, <2>7, <2>8, SourceStays
  <2>11. ReplacedAt(media, handles, descriptors, current_directory, rn)
    <3>1. LiveIn(media, dst)
      BY <2>3, <2>7, Zenon DEF LiveIn
    <3>2. /\ \A d \in Files : /\ descriptors[d].allocated => descriptors[d].object # dst
                              /\ handles[d].object # dst
          /\ virtual_root(current_directory) \/ ObjectIn(entries, current_directory) # dst
      BY <1>1, <2>2, Zenon DEF ReplacedAt
    <3>3. virtual_root(current_directory) \/ ObjectIn(media, current_directory) # dst
      <4> SUFFICES ASSUME ~virtual_root(current_directory)
                   PROVE  ObjectIn(media, current_directory) # dst
        OBVIOUS
      <4>1. /\ IsPlace(current_directory)
            /\ DirectoryIn(entries, ObjectIn(entries, current_directory))
        BY <1>1, Zenon DEF Calm, DirectoryAt
      <4>2. ObjectIn(entries, current_directory) # NoObject
        BY <4>1, DirectoryOnes, Zenon
      <4> QED
        BY <2>7, <3>2, <4>1, <4>2, Zenon
    <3> QED
      BY <2>3, <2>7, <2>8, <3>1, <3>2, <3>3, Zenon DEF ReplacedAt
  <2>12. Vacant(media, rn)
    <3>1. PICK p : p = ObjectIn(entries, Front(new))
      OBVIOUS
    <3>2. entries[dst].parent = p /\ p # NoObject
      <4>1. IsSequence(new) /\ Len(new) >= 1 /\ Len(new) >= 2 /\ Whole(entries)
        BY <1>1, <2>3 DEF IsBelow, IsPlace, Calm
      <4>2. IsChild(entries, p, Last(new), dst) /\ p # NoObject
        BY <2>3, <2>4, <3>1, <4>1, LeadsTo
      <4> QED
        BY <4>2, Zenon DEF IsChild
    <3>3. p # dst
      BY <2>3, <3>2, Zenon DEF Childless
    <3>4. DirectoryIn(entries, p) /\ (p \in {-1, -2} \/ p \in Objects)
      <4>1. p \in {-1, -2} \/ (p \in Objects /\ entries[p].kind = "dir")
        BY <1>1, <2>3, <3>2, Zenon DEF Calm, Whole, Parents
      <4> QED
        BY <4>1, DirectoryOnes, Zenon
    <3>5. ObjectIn(media, Front(new)) = p
      BY <2>3, <2>7, <3>1, <3>2, <3>3, FrontPlace, Zenon
    <3>6. DirectoryIn(media, p)
      BY <2>7, <3>4, DirectoryKinds
    <3>7. BackedUp(media, rn)
      BY <2>5, <2>7, <2>8, Zenon DEF BackedUp
    <3> QED
      BY <2>7, <2>8, <3>3, <3>5, <3>6, <3>7, Zenon DEF Vacant
  <2>13. LayerAt(media, handles, descriptors, current_directory, rn)
    BY <2>7, <2>8, <2>9, <2>10, <2>11, <2>12, Zenon DEF LayerAt
  <2>14. OffsetStep
    <3>1. \A c \in Files : handles[c].mode # Closed => handles[c].object \in Objects
      BY <1>1, Zenon DEF Calm, SlotPlaced
    <3> QED
      BY <1>2, <2>2, <2>7, <3>1, MovedOffsets
  <2>15. RenameEnds
    <3>1. rename'.step # "idle"
      BY <2>2, <2>8
    <3> QED
      BY <3>1, Zenon DEF RenameEnds
  <2> QED
    BY <1>2, <2>2, <2>13, <2>14, <2>15, Zenon DEF LayerStep
<1> QED
  BY <1>2, <1>3, <1>4

\* The paths follow the source.
LEMMA PathsMigrate ==
  ASSUME FileInv, MigratePaths, NEW directory,
         directory = (entries[rename.source].kind = "dir"),
         NEW old, old = rename.old, NEW new, new = rename.new
  PROVE  /\ Migrated(descriptors, descriptors', old, new, directory)
         /\ \A d \in Files : descriptors'[d].position = descriptors[d].position
         /\ current_directory' = Followed(current_directory, old, new, directory)
<1>1. ASSUME NEW d \in Files
      PROVE  descriptors'[d] =
               IF descriptors[d].allocated
                 THEN WithPath(descriptors[d], migrate_path(descriptors[d].path, old, new, directory))
                 ELSE descriptors[d]
  BY Zenon DEF MigratePaths, WithPath
<1>2. ASSUME NEW d \in Files
      PROVE  /\ SameFlags(descriptors[d], descriptors'[d])
             /\ descriptors'[d].path =
                  IF descriptors[d].allocated
                    THEN migrate_path(descriptors[d].path, old, new, directory)
                    ELSE descriptors[d].path
             /\ descriptors'[d].position = descriptors[d].position
  <2>1. PICK x, p, y : /\ x = descriptors[d] /\ y = WithPath(x, p)
                       /\ p = migrate_path(x.path, old, new, directory)
    OBVIOUS
  <2>2. DescriptorOK(x)
    BY <2>1, Zenon DEF FileInv, TableInv
  <2>3. SameFlags(x, y) /\ y.path = p /\ y.position = x.position
    BY <2>1, <2>2, DescriptorPath
  <2>4. SameFlags(x, x)
    BY Zenon DEF SameFlags
  <2>5. descriptors'[d] = IF x.allocated THEN y ELSE x
    BY <1>1, <2>1, Zenon
  <2> QED
    BY <2>1, <2>3, <2>4, <2>5, Zenon
<1>3. current_directory' = Followed(current_directory, old, new, directory)
  BY Zenon DEF MigratePaths, Followed
<1> QED
  BY <1>2, <1>3, Zenon DEF Migrated

\* The source has moved and nothing knows it yet.
LEMMA SourceMoves ==
  ASSUME FileInv, Calm(entries, handles, descriptors, current_directory),
         SourceAt(entries, handles, rename), ObjectIn(entries, rename.old) = rename.source,
         MoveError(rename.old, rename.new) = OK,
         NEW old, old = rename.old, NEW new, new = rename.new, NEW src, src = rename.source,
         NEW media, media = Moved(old, new),
         NEW directory, directory = (media[src].kind = "dir")
  PROVE  /\ Moves(entries, media, old, new, src) /\ Whole(entries)
         /\ Migrating(media, handles, descriptors, current_directory, old, new, directory)
         /\ ObjectIn(media, new) = src
         /\ paths_equal(old, new) \/ ObjectIn(media, old) = NoObject
         /\ \A p : IsPlace(p) /\ ObjectIn(entries, p) # NoObject =>
                     ObjectIn(media, migrate_path(p, old, new, directory)) = ObjectIn(entries, p)
         /\ Elsewhere(entries, media, src)
         /\ \A x \in Objects : /\ media[x].data = entries[x].data
                               /\ media[x].kind = entries[x].kind
         /\ media[src].parent = ObjectIn(entries, Front(new))
<1>1. /\ IsBelow(old) /\ IsBelow(new) /\ src \in Objects
      /\ ObjectIn(entries, old) = src
      /\ \A d \in Files : handles[d].object = src => ~handles[d].modified
  BY Zenon DEF SourceAt
<1>2. Whole(entries) /\ Current(entries)
  BY Zenon DEF Calm
<1>3. /\ DirectoryIn(entries, ObjectIn(entries, Front(new)))
      /\ ObjectIn(entries, new) \in {NoObject, src}
  BY <1>1, MoveErrorOK, Zenon
<1>4. Avoids(entries, Front(new), src)
  BY <1>2, <1>3, SourceAvoided, Zenon
<1>5. /\ Moves(entries, media, old, new, src) /\ Whole(media) /\ Current(media)
      /\ Elsewhere(entries, media, src)
      /\ \A x \in Objects : /\ media[x].data = entries[x].data
                            /\ media[x].kind = entries[x].kind
      /\ media[src].parent = ObjectIn(entries, Front(new))
  BY <1>1, <1>2, <1>3, <1>4, MovedMoves
<1>6. media[src].kind = entries[src].kind
  BY <1>1, <1>5, Zenon
<1>7. directory = (entries[src].kind = "dir")
  BY <1>6
<1>8. Migrating(media, handles, descriptors, current_directory, old, new, directory)
  BY <1>5, <1>7, MoveCarries
<1>9. ObjectIn(media, new) = src
  BY <1>2, <1>5, PutArrives DEF Moves
<1>10. paths_equal(old, new) \/ ObjectIn(media, old) = NoObject
  BY <1>2, <1>5, MoveLeaves
<1>11. \A p : IsPlace(p) /\ ObjectIn(entries, p) # NoObject =>
                ObjectIn(media, migrate_path(p, old, new, directory)) = ObjectIn(entries, p)
  BY <1>2, <1>5, <1>7, MoveMigrates
<1> QED
  BY <1>2, <1>5, <1>8, <1>9, <1>10, <1>11, Zenon

\* The way to a backup name is the root and the backup.
LEMMA BackupAvoids ==
  ASSUME NEW media, Parents(media), NEW rn, BackedUp(media, rn),
         rn.destination \in Objects, NEW src \in Objects, src # rn.destination
  PROVE  IsPlace(rn.backup) /\ Avoids(media, rn.backup, src)
<1>1. PICK backup, dst : backup = rn.backup /\ dst = rn.destination
  OBVIOUS
<1>2. /\ IsBelow(backup) /\ IsPlace(backup) /\ IsSequence(backup) /\ Len(backup) = 2
      /\ ObjectIn(media, backup) = dst /\ dst \in Objects /\ src # dst
  BY <1>1, Zenon DEF BackedUp, IsBelow, IsPlace
<1>3. PICK w : w = Walk(media, backup)
  OBVIOUS
<1>4. Len(backup) >= 1 /\ dst # NoObject
  BY <1>2, ObjectNumbers
<1>5. IsChain(media, backup, w) /\ w[Len(backup)] = dst
  BY <1>2, <1>3, <1>4, LeadsAlong
<1>6. w[1] # src
  BY <1>5, Roots DEF IsChain
<1>7. w[2] # src
  BY <1>2, <1>5
<1>8. \A i \in 1 .. Len(backup) : w[i] # src
  <2>1. \A i \in 1 .. Len(backup) : i = 1 \/ i = 2
    BY <1>2
  <2> QED
    BY <1>6, <1>7, <2>1, Zenon
<1> QED
  BY <1>1, <1>2, <1>3, <1>8, Zenon DEF Avoids

\* What LayerAt says when the source is to move.
LEMMA AtMove ==
  ASSUME LayerInv, rename.step = "move"
  PROVE  /\ FileInv /\ Calm(entries, handles, descriptors, current_directory)
         /\ SourceAt(entries, handles, rename)
         /\ ObjectIn(entries, rename.old) = rename.source
         /\ rename.destination # NoObject =>
              /\ ReplacedAt(entries, handles, descriptors, current_directory, rename)
              /\ Vacant(entries, rename)
BY DEF LayerInv, LayerAt

\* What is to be replaced stays in its backup while the source moves.
LEMMA ReplacedStays ==
  ASSUME FileInv, Calm(entries, handles, descriptors, current_directory),
         NEW rn, ReplacedAt(entries, handles, descriptors, current_directory, rn),
         Vacant(entries, rn), IsBelow(rn.old), IsBelow(rn.new),
         NEW media, Moves(entries, media, rn.old, rn.new, rn.source),
         Elsewhere(entries, media, rn.source),
         media[rn.source].parent = ObjectIn(entries, Front(rn.new)),
         NEW directory,
         \A p : IsPlace(p) /\ ObjectIn(entries, p) # NoObject =>
                  ObjectIn(media, migrate_path(p, rn.old, rn.new, directory)) = ObjectIn(entries, p),
         NEW q, IsRename(q), q.old = rn.old, q.new = rn.new, q.source = rn.source,
         q.destination = rn.destination, q.backup = rn.backup
  PROVE  /\ ReplacedAt(media, handles, descriptors,
                       migrate_path(current_directory, rn.old, rn.new, directory), q)
         /\ BackedUp(media, q)
<1>1. PICK old, new, src : old = rn.old /\ new = rn.new /\ src = rn.source
  OBVIOUS
<1>2. PICK dst, cwd, where : /\ dst = rn.destination /\ cwd = current_directory
                             /\ where = migrate_path(cwd, old, new, directory)
  OBVIOUS
<1>3. /\ IsBelow(old) /\ IsBelow(new) /\ Moves(entries, media, old, new, src)
      /\ Elsewhere(entries, media, src) /\ media[src].parent = ObjectIn(entries, Front(new))
      /\ \A p : IsPlace(p) /\ ObjectIn(entries, p) # NoObject =>
                  ObjectIn(media, migrate_path(p, old, new, directory)) = ObjectIn(entries, p)
  BY <1>1
<1>4. /\ dst \in Objects /\ dst # src /\ LiveIn(entries, dst) /\ Childless(entries, dst)
      /\ ~paths_equal(old, new)
      /\ \A d \in Files : /\ descriptors[d].allocated => descriptors[d].object # dst
                          /\ handles[d].object # dst
      /\ virtual_root(cwd) \/ ObjectIn(entries, cwd) # dst
  BY <1>1, <1>2, Zenon DEF ReplacedAt
<1>5. /\ ObjectIn(entries, Front(new)) # dst /\ BackedUp(entries, rn)
  BY <1>1, <1>2, Zenon DEF Vacant
<1>6. Whole(entries) /\ Parents(entries) /\ DirectoryAt(entries, cwd, cwd)
  BY <1>2, Zenon DEF Calm, Whole
<1>7. src \in Objects /\ dst # NoObject
  BY <1>3, <1>4, ObjectNumbers, Zenon DEF Moves, Puts
<1>8. media[dst] = entries[dst]
  BY <1>3, <1>4 DEF Elsewhere
<1>9. LiveIn(media, dst)
  BY <1>4, <1>8, Zenon DEF LiveIn
<1>10. Childless(media, dst)
  <2> SUFFICES ASSUME NEW x \in Objects, LiveIn(media, x) PROVE media[x].parent # dst
    BY Zenon DEF Childless
  <2>1. CASE x = src
    BY <1>3, <1>5, <2>1, Zenon
  <2>2. CASE x # src
    <3>1. media[x] = entries[x]
      BY <1>3, <2>2 DEF Elsewhere
    <3> QED
      BY <1>4, <3>1, Zenon DEF Childless, LiveIn
  <2> QED
    BY <2>1, <2>2
<1>11. virtual_root(where) \/ ObjectIn(media, where) # dst
  <2>1. CASE virtual_root(cwd)
    <3>1. IsSequence(cwd) /\ IsPlace(old)
      BY <1>3, <1>2, <1>6, Zenon DEF DirectoryAt, IsBelow
    <3>2. ~path_has_prefix(cwd, old, directory)
      BY <2>1, <3>1, VirtualStays, Zenon
    <3>3. where = cwd
      BY <1>2, <3>2, Zenon DEF migrate_path
    <3> QED
      BY <2>1, <3>3, Zenon
  <2>2. CASE ~virtual_root(cwd)
    <3>1. IsPlace(cwd) /\ ObjectIn(entries, cwd) # NoObject
      BY <1>3, <1>6, <2>2, DirectoryOnes, Zenon DEF DirectoryAt
    <3>2. ObjectIn(media, where) = ObjectIn(entries, cwd)
      BY <1>3, <1>2, <3>1, Zenon
    <3> QED
      BY <1>4, <2>2, <3>2, Zenon
  <2> QED
    BY <2>1, <2>2
<1>12. BackedUp(media, q)
  <2>1. IsPlace(rn.backup) /\ Avoids(entries, rn.backup, src)
    <3>1. rn.destination \in Objects /\ src # rn.destination
      BY <1>2, <1>4
    <3> QED
      BY <1>3, <1>5, <1>6, <1>7, <3>1, BackupAvoids
  <2>2. ObjectIn(entries, rn.backup) = dst /\ IsBelow(rn.backup) /\ Len(rn.backup) = 2
    BY <1>3, <1>2, <1>5, Zenon DEF BackedUp
  <2>3. Puts(entries, media, new, src)
    BY <1>3, Zenon DEF Moves
  <2>4. ObjectIn(media, rn.backup) = dst
    BY <1>3, <1>6, <1>7, <2>1, <2>2, <2>3, PutKeeps
  <2> QED
    BY <1>2, <2>2, <2>4, Zenon DEF BackedUp
<1>13. ReplacedAt(media, handles, descriptors, where, q)
  <2>1. /\ q.destination = dst /\ q.source = src /\ q.old = old /\ q.new = new
    BY <1>1, <1>2
  <2> QED
    BY <1>4, <1>9, <1>10, <1>11, <2>1, Zenon DEF ReplacedAt
<1> QED
  BY <1>1, <1>2, <1>12, <1>13, Zenon

\* The source moves and, when nothing was replaced, the paths follow at once.
LEMMA RenameMoveStep ==
  ASSUME LayerInv, RenameMove
  PROVE  LayerStep
<1>1. /\ FileInv /\ Calm(entries, handles, descriptors, current_directory)
      /\ SourceAt(entries, handles, rename)
      /\ ObjectIn(entries, rename.old) = rename.source
      /\ rename.destination # NoObject =>
           /\ ReplacedAt(entries, handles, descriptors, current_directory, rename)
           /\ Vacant(entries, rename)
  BY AtMove, Zenon DEF RenameMove
<1>2. /\ UNCHANGED handles
      /\ \/ /\ MoveError(rename.old, rename.new) = OK /\ rename.destination # NoObject
            /\ entries' = Moved(rename.old, rename.new)
            /\ rename' = NextLocals(rename, "delete")
            /\ UNCHANGED <<descriptors, current_directory>>
         \/ /\ MoveError(rename.old, rename.new) = OK /\ rename.destination = NoObject
            /\ entries' = Moved(rename.old, rename.new)
            /\ MigratePaths /\ rename' = Idle /\ result' = "ok"
         \/ /\ rename.destination # NoObject /\ rename' = NextLocals(rename, "restore")
            /\ UNCHANGED <<entries, descriptors, current_directory>>
         \/ /\ rename.destination = NoObject /\ rename' = Idle /\ result' = "error"
            /\ UNCHANGED <<entries, descriptors, current_directory>>
  <2>1. /\ EndRename(OK) => rename' = Idle /\ result' = "ok"
        /\ EndRename("EIO") => rename' = Idle /\ result' = "error"
    BY DEF EndRename, Returned, OK
  <2> QED
    BY <2>1, Zenon DEF RenameMove, NextLocals
<1>3. PICK old, new, src, dst, media, rn, directory :
        /\ old = rename.old /\ new = rename.new /\ src = rename.source
        /\ dst = rename.destination /\ media = entries' /\ rn = rename'
        /\ directory = (media[src].kind = "dir")
  OBVIOUS
<1>4. /\ IsRename(rename) /\ IsBelow(old) /\ IsPlace(old) /\ IsBelow(new) /\ src \in Objects
      /\ ObjectIn(entries, old) = src
  BY <1>1, <1>3, Zenon DEF SourceAt, IsBelow
<1>5. \A c \in Files : handles[c].mode # Closed => handles[c].object \in Objects
  BY <1>1, Zenon DEF Calm, SlotPlaced
<1>6. ASSUME NEW step, rename' = NextLocals(rename, step)
      PROVE  /\ IsRename(rn) /\ rn.step = step /\ rn.old = old /\ rn.new = new
             /\ rn.source = src /\ rn.destination = dst /\ rn.backup = rename.backup
  <2>1. rn = NextLocals(rename, step)
    BY <1>3, <1>6, Zenon
  <2>2. /\ IsRename(rn) /\ rn.step = step /\ rn.old = rename.old /\ rn.new = rename.new
        /\ rn.source = rename.source /\ rn.destination = rename.destination
        /\ rn.backup = rename.backup
    BY <1>4, <2>1, NextFields
  <2> QED
    BY <1>3, <2>2, Zenon
<1>7. ASSUME MoveError(rename.old, rename.new) = OK, media = Moved(rename.old, rename.new)
      PROVE  /\ Moves(entries, media, old, new, src) /\ Whole(entries)
             /\ Migrating(media, handles, descriptors, current_directory, old, new, directory)
             /\ ObjectIn(media, new) = src
             /\ paths_equal(old, new) \/ ObjectIn(media, old) = NoObject
             /\ \A p : IsPlace(p) /\ ObjectIn(entries, p) # NoObject =>
                         ObjectIn(media, migrate_path(p, old, new, directory)) = ObjectIn(entries, p)
             /\ Elsewhere(entries, media, src)
             /\ \A x \in Objects : /\ media[x].data = entries[x].data
                                   /\ media[x].kind = entries[x].kind
             /\ media[src].parent = ObjectIn(entries, Front(new))
  <2>1. media = Moved(old, new)
    BY <1>3, <1>7, Zenon
  <2> QED
    BY <1>1, <1>3, <1>7, <2>1, SourceMoves
<1>8. CASE /\ MoveError(rename.old, rename.new) = OK /\ rename.destination # NoObject
           /\ entries' = Moved(rename.old, rename.new)
           /\ rename' = NextLocals(rename, "delete")
           /\ UNCHANGED <<descriptors, current_directory>>
  <2>1. /\ Moves(entries, media, old, new, src)
        /\ Migrating(media, handles, descriptors, current_directory, old, new, directory)
        /\ ObjectIn(media, new) = src
        /\ paths_equal(old, new) \/ ObjectIn(media, old) = NoObject
        /\ \A p : IsPlace(p) /\ ObjectIn(entries, p) # NoObject =>
                    ObjectIn(media, migrate_path(p, old, new, directory)) = ObjectIn(entries, p)
        /\ Elsewhere(entries, media, src)
        /\ \A x \in Objects : /\ media[x].data = entries[x].data
                              /\ media[x].kind = entries[x].kind
        /\ media[src].parent = ObjectIn(entries, Front(new))
    BY <1>3, <1>7, <1>8, Zenon
  <2>2. /\ ReplacedAt(entries, handles, descriptors, current_directory, rename)
        /\ Vacant(entries, rename)
    BY <1>1, <1>8, Zenon
  <2>3. /\ IsRename(rn) /\ rn.step = "delete" /\ rn.old = old /\ rn.new = new
        /\ rn.source = src /\ rn.destination = dst /\ rn.backup = rename.backup
    BY <1>6, <1>8, Zenon
  <2>4. /\ ReplacedAt(media, handles, descriptors,
                      migrate_path(current_directory, old, new, directory), rn)
        /\ BackedUp(media, rn)
    <3>1. /\ Moves(entries, media, rename.old, rename.new, rename.source)
          /\ Elsewhere(entries, media, rename.source)
          /\ media[rename.source].parent = ObjectIn(entries, Front(rename.new))
          /\ \A p : IsPlace(p) /\ ObjectIn(entries, p) # NoObject =>
                      ObjectIn(media, migrate_path(p, rename.old, rename.new, directory))
                        = ObjectIn(entries, p)
      BY <1>3, <2>1
    <3>2. /\ IsBelow(rename.old) /\ IsBelow(rename.new)
          /\ IsRename(rn) /\ rn.old = rename.old /\ rn.new = rename.new
          /\ rn.source = rename.source /\ rn.destination = rename.destination
          /\ rn.backup = rename.backup
      BY <1>3, <1>4, <2>3
    <3>3. /\ ReplacedAt(media, handles, descriptors,
                        migrate_path(current_directory, rename.old, rename.new, directory), rn)
          /\ BackedUp(media, rn)
      BY <1>1, <2>2, <3>1, <3>2, ReplacedStays
    <3> QED
      BY <1>3, <3>3
  <2>5. SourceAt(media, handles, rn)
    BY <1>1, <1>3, <2>1, <2>3, SourceStays
  <2>6. ObjectIn(media, old) = NoObject
    BY <2>1, <2>2, <1>3, Zenon DEF ReplacedAt
  <2>7. LayerAt(media, handles, descriptors, current_directory, rn)
    <3>1. (media[rn.source].kind = "dir") = directory
      BY <1>3, <2>3
    <3> QED
      BY <2>1, <2>3, <2>4, <2>5, <2>6, <3>1 DEF LayerAt
  <2>8. OffsetStep
    BY <1>2, <1>3, <1>5, <1>8, <2>1, MovedOffsets
  <2>9. RenameEnds
    <3>1. rename'.step # "idle"
      BY <1>3, <2>3
    <3> QED
      BY <3>1, Zenon DEF RenameEnds
  <2> QED
    BY <1>2, <1>3, <1>8, <2>7, <2>8, <2>9, Zenon DEF LayerStep
<1>9. CASE /\ MoveError(rename.old, rename.new) = OK /\ rename.destination = NoObject
           /\ entries' = Moved(rename.old, rename.new)
           /\ MigratePaths /\ rename' = Idle /\ result' = "ok"
  <2>1. /\ Migrating(media, handles, descriptors, current_directory, old, new, directory)
        /\ ObjectIn(media, new) = src
        /\ paths_equal(old, new) \/ ObjectIn(media, old) = NoObject
        /\ \A x \in Objects : /\ media[x].data = entries[x].data
                              /\ media[x].kind = entries[x].kind
    BY <1>3, <1>7, <1>9, Zenon
  <2>2. directory = (entries[rename.source].kind = "dir")
    BY <1>3, <1>4, <2>1
  <2>3. /\ Migrated(descriptors, descriptors', old, new, directory)
        /\ \A d \in Files : descriptors'[d].position = descriptors[d].position
        /\ current_directory' = Followed(current_directory, old, new, directory)
    BY <1>1, <1>3, <1>9, <2>2, PathsMigrate
  <2>4. directory \in BOOLEAN /\ (directory \/ ~DirectoryIn(media, ObjectIn(media, new)))
    <3>1. ObjectIn(media, new) \in Objects
      BY <1>4, <2>1, Zenon
    <3>2. ~directory => ~DirectoryIn(media, src)
      BY <1>3, <1>4, DirectoryOnes, Zenon
    <3>3. directory \in BOOLEAN
      BY <1>3
    <3> QED
      BY <2>1, <3>2, <3>3, Zenon
  <2>5. PICK ds, to : ds = descriptors' /\ to = current_directory'
    OBVIOUS
  <2>6. Calm(media, handles, ds, to)
    <3>1. /\ Migrated(descriptors, ds, old, new, directory)
          /\ to = Followed(current_directory, old, new, directory)
      BY <2>3, <2>5
    <3>2. Calm(media, handles, ds, Followed(current_directory, old, new, directory))
      BY <1>4, <2>1, <2>4, <3>1, MigratedCalm, Zenon
    <3> QED
      BY <3>1, <3>2, Zenon
  <2>7. OffsetStep
    BY <1>2, <1>3, <1>5, <2>1, <2>3, MovedOffsets
  <2>8. rename'.step = "idle"
    BY <1>9, IdleStep
  <2>9. LayerAt(entries', handles', descriptors', current_directory', rename')
    BY <1>2, <1>3, <2>5, <2>6, <2>8, Zenon DEF LayerAt
  <2>10. RenameEnds
    BY <1>3, <1>9, <2>1, Zenon DEF RenameEnds
  <2> QED
    BY <2>7, <2>9, <2>10 DEF LayerStep
<1>10. CASE /\ rename.destination # NoObject /\ rename' = NextLocals(rename, "restore")
            /\ UNCHANGED <<entries, descriptors, current_directory>>
  <2>1. /\ ReplacedAt(entries, handles, descriptors, current_directory, rename)
        /\ Vacant(entries, rename)
    BY <1>1, <1>10, Zenon
  <2>2. /\ IsRename(rn) /\ rn.step = "restore" /\ rn.old = old /\ rn.new = new
        /\ rn.source = src /\ rn.destination = dst /\ rn.backup = rename.backup
    BY <1>6, <1>10, Zenon
  <2>3. SourceAt(entries, handles, rn)
    BY <1>1, <1>3, <2>2, Zenon DEF SourceAt
  <2>4. ReplacedAt(entries, handles, descriptors, current_directory, rn)
    BY <1>3, <2>1, <2>2, Zenon DEF ReplacedAt
  <2>5. Vacant(entries, rn)
    BY <1>3, <2>1, <2>2, Zenon DEF Vacant, BackedUp
  <2>6. LayerAt(entries, handles, descriptors, current_directory, rn)
    BY <1>1, <1>4, <2>2, <2>3, <2>4, <2>5, Zenon DEF LayerAt
  <2>7. CalmStep
    BY <1>1, <1>2, <1>10, NothingChanges
  <2>8. RenameEnds
    <3>1. rename'.step # "idle"
      BY <1>3, <2>2
    <3> QED
      BY <3>1, Zenon DEF RenameEnds
  <2> QED
    BY <1>2, <1>3, <1>10, <2>6, <2>7, <2>8, Zenon DEF LayerStep, CalmStep
<1>11. CASE /\ rename.destination = NoObject /\ rename' = Idle /\ result' = "error"
            /\ UNCHANGED <<entries, descriptors, current_directory>>
  BY <1>1, <1>2, <1>11, EndsUnmoved
<1> QED
  BY <1>2, <1>8, <1>9, <1>10, <1>11

\* No path leads to an object because another one was deleted.
LEMMA DeleteLeaves ==
  ASSUME NEW m1, Whole(m1), NEW m2, NEW o, Deletes(m1, m2, o),
         NEW path, IsPlace(path), ObjectIn(m1, path) = NoObject
  PROVE  ObjectIn(m2, path) = NoObject
<1> SUFFICES ASSUME ObjectIn(m2, path) # NoObject PROVE FALSE
  OBVIOUS
<1>1. Names(m1) /\ Parents(m2)
  BY DeleteWhole DEF Whole
<1>2. IsSequence(path) /\ Len(path) >= 1
  BY DEF IsPlace
<1>3. PICK w : IsChain(m2, path, w) /\ w[Len(path)] = ObjectIn(m2, path)
  BY <1>1, <1>2, LeadsAlong
<1>4. \A p, c, x : IsChild(m2, p, c, x) => IsChild(m1, p, c, x)
  <2> SUFFICES ASSUME NEW p, NEW c, NEW x, IsChild(m2, p, c, x) PROVE IsChild(m1, p, c, x)
    OBVIOUS
  <2>1. x \in Objects /\ LiveIn(m2, x)
    BY DEF IsChild
  <2>2. x # o
    BY <2>1 DEF Deletes, LiveIn
  <2>3. m2[x] = m1[x]
    BY <2>1, <2>2 DEF Deletes, Elsewhere
  <2> QED
    BY <2>3 DEF IsChild, LiveIn
<1>5. IsChain(m1, path, w)
  BY <1>3, <1>4, Zenon DEF IsChain
<1>6. ObjectIn(m1, path) = w[Len(path)]
  BY <1>1, <1>2, <1>5, ChainLeads
<1> QED
  BY <1>3, <1>6

\* What LayerAt says when the destination is to come back.
LEMMA AtRestore ==
  ASSUME LayerInv, rename.step = "restore"
  PROVE  /\ FileInv /\ Calm(entries, handles, descriptors, current_directory)
         /\ SourceAt(entries, handles, rename)
         /\ ObjectIn(entries, rename.old) = rename.source
         /\ ReplacedAt(entries, handles, descriptors, current_directory, rename)
         /\ Vacant(entries, rename)
BY DEF LayerInv, LayerAt

\* What LayerAt says when the backup is to be deleted.
LEMMA AtDelete ==
  ASSUME LayerInv, rename.step = "delete",
         NEW directory, directory = (entries[rename.source].kind = "dir")
  PROVE  /\ FileInv /\ SourceAt(entries, handles, rename)
         /\ Migrating(entries, handles, descriptors, current_directory, rename.old, rename.new,
                      directory)
         /\ ReplacedAt(entries, handles, descriptors,
                       migrate_path(current_directory, rename.old, rename.new, directory), rename)
         /\ BackedUp(entries, rename)
         /\ ObjectIn(entries, rename.new) = rename.source
         /\ ObjectIn(entries, rename.old) = NoObject
BY DEF LayerInv, LayerAt

\* The destination comes back, or stays under its backup name.
LEMMA RenameRestoreStep ==
  ASSUME LayerInv, RenameRestore
  PROVE  LayerStep
<1>1. /\ FileInv /\ Calm(entries, handles, descriptors, current_directory)
      /\ SourceAt(entries, handles, rename)
      /\ ObjectIn(entries, rename.old) = rename.source
      /\ ReplacedAt(entries, handles, descriptors, current_directory, rename)
      /\ Vacant(entries, rename)
  BY AtRestore, Zenon DEF RenameRestore
<1>2. /\ UNCHANGED <<handles, descriptors, current_directory>>
      /\ rename' = Idle /\ result' = "error"
      /\ entries' = Moved(rename.backup, rename.new) \/ UNCHANGED entries
  <2>1. EndRename("EIO") => rename' = Idle /\ result' = "error"
    BY DEF EndRename, Returned, OK
  <2> QED
    BY <2>1, Zenon DEF RenameRestore, fsVars
<1>3. CASE UNCHANGED entries
  <2>1. BackedUp(entries, rename)
    BY <1>1, Zenon DEF Vacant
  <2> QED
    BY <1>1, <1>2, <1>3, <2>1, EndsUnmoved
<1>4. CASE entries' = Moved(rename.backup, rename.new)
  <2>1. PICK old, new, src, dst, backup, media :
          /\ old = rename.old /\ new = rename.new /\ src = rename.source
          /\ dst = rename.destination /\ backup = rename.backup /\ media = entries'
    OBVIOUS
  <2>2. /\ IsBelow(old) /\ IsBelow(new) /\ IsBelow(backup) /\ src \in Objects
        /\ ObjectIn(entries, old) = src /\ dst # src
        /\ ObjectIn(entries, backup) = dst /\ ObjectIn(entries, new) = NoObject
        /\ DirectoryIn(entries, ObjectIn(entries, Front(new)))
        /\ ObjectIn(entries, Front(new)) # dst
    BY <1>1, <2>1, Zenon DEF SourceAt, ReplacedAt, Vacant, BackedUp
  <2>3. media = Moved(backup, new)
    BY <1>4, <2>1, Zenon
  <2>4. /\ Calm(media, handles, descriptors, current_directory)
        /\ ObjectIn(media, new) = dst
        /\ \A p : IsPlace(p) /\ ObjectIn(entries, p) # NoObject /\ ObjectIn(entries, p) # dst =>
                    ObjectIn(media, p) = ObjectIn(entries, p)
        /\ \A x \in Objects : /\ media[x].data = entries[x].data
                              /\ media[x].kind = entries[x].kind
    BY <1>1, <2>1, <2>2, <2>3, ReplacedMoves
  <2>5. ObjectIn(media, old) = src
    <3>1. src # NoObject /\ IsPlace(old)
      BY <2>2, ObjectNumbers, Zenon DEF IsBelow
    <3> QED
      BY <2>2, <2>4, <3>1, Zenon
  <2>6. OffsetStep
    <3>1. \A c \in Files : handles[c].mode # Closed => handles[c].object \in Objects
      BY <1>1, Zenon DEF Calm, SlotPlaced
    <3> QED
      BY <1>2, <2>1, <2>4, <3>1, MovedOffsets
  <2>7. rename'.step = "idle"
    BY <1>2, IdleStep
  <2>8. LayerAt(entries', handles', descriptors', current_directory', rename')
    BY <1>2, <2>1, <2>4, <2>7, Zenon DEF LayerAt
  <2>9. RenameEnds
    <3>1. result' # "ok"
      BY <1>2
    <3> QED
      BY <2>1, <2>4, <2>5, <3>1, Zenon DEF RenameEnds
  <2> QED
    BY <2>6, <2>8, <2>9 DEF LayerStep
<1> QED
  BY <1>2, <1>3, <1>4

\* The paths follow the source and the backup goes, or stays when FileX fails.
LEMMA RenameDeleteStep ==
  ASSUME LayerInv, RenameDelete
  PROVE  LayerStep
<1>1. PICK old, new, src, dst, backup, cwd, directory :
        /\ old = rename.old /\ new = rename.new /\ src = rename.source
        /\ dst = rename.destination /\ backup = rename.backup /\ cwd = current_directory
        /\ directory = (entries[src].kind = "dir")
  OBVIOUS
<1>2. PICK media, ds, to : media = entries' /\ ds = descriptors' /\ to = current_directory'
  OBVIOUS
<1>3. /\ FileInv /\ SourceAt(entries, handles, rename)
      /\ Migrating(entries, handles, descriptors, cwd, old, new, directory)
      /\ ReplacedAt(entries, handles, descriptors, migrate_path(cwd, old, new, directory), rename)
      /\ BackedUp(entries, rename)
      /\ ObjectIn(entries, new) = src /\ ObjectIn(entries, old) = NoObject
  <2>1. rename.step = "delete" /\ directory = (entries[rename.source].kind = "dir")
    BY <1>1, Zenon DEF RenameDelete
  <2>2. /\ FileInv /\ SourceAt(entries, handles, rename)
        /\ Migrating(entries, handles, descriptors, current_directory, rename.old, rename.new,
                     directory)
        /\ ReplacedAt(entries, handles, descriptors,
                      migrate_path(current_directory, rename.old, rename.new, directory), rename)
        /\ BackedUp(entries, rename)
        /\ ObjectIn(entries, rename.new) = rename.source
        /\ ObjectIn(entries, rename.old) = NoObject
    BY <2>1, AtDelete
  <2> QED
    BY <1>1, <2>2, Zenon
<1>4. /\ UNCHANGED handles /\ MigratePaths /\ rename' = Idle
      /\ \/ entries' = Deleted(ObjectAt(rename.backup)) /\ result' = "ok"
         \/ UNCHANGED entries /\ result' = "error"
  <2>1. /\ EndRename(OK) => rename' = Idle /\ result' = "ok"
        /\ EndRename("EIO") => rename' = Idle /\ result' = "error"
    BY DEF EndRename, Returned, OK
  <2> QED
    BY <2>1, Zenon DEF RenameDelete
<1>5. /\ IsBelow(old) /\ IsPlace(old) /\ IsBelow(new) /\ IsPlace(new) /\ src \in Objects
      /\ IsBelow(backup) /\ Len(backup) = 2 /\ ObjectIn(entries, backup) = dst
  BY <1>1, <1>3, Zenon DEF SourceAt, BackedUp, IsBelow
<1>6. PICK where : where = migrate_path(cwd, old, new, directory)
  OBVIOUS
<1>7. /\ dst \in Objects /\ dst # src /\ Childless(entries, dst)
      /\ \A d \in Files : handles[d].object # dst
      /\ virtual_root(where) \/ ObjectIn(entries, where) # dst
  BY <1>1, <1>3, <1>6, Zenon DEF ReplacedAt
<1>8. src # NoObject /\ dst # NoObject
  BY <1>5, <1>7, ObjectNumbers
<1>9. Whole(entries) /\ Current(entries)
  BY <1>3, Zenon DEF Migrating
<1>10. /\ Migrated(descriptors, ds, old, new, directory)
       /\ \A d \in Files : descriptors'[d].position = descriptors[d].position
       /\ to = Followed(cwd, old, new, directory)
  <2>1. directory = (entries[rename.source].kind = "dir")
    BY <1>1
  <2>2. /\ Migrated(descriptors, descriptors', rename.old, rename.new, directory)
        /\ \A d \in Files : descriptors'[d].position = descriptors[d].position
        /\ current_directory' = Followed(current_directory, rename.old, rename.new, directory)
    BY <1>3, <1>4, <2>1, PathsMigrate
  <2> QED
    BY <1>1, <1>2, <2>2, Zenon
<1>11. Calm(entries, handles, ds, to) /\ to = where
  <2>1. directory \in BOOLEAN /\ (directory \/ ~DirectoryIn(entries, ObjectIn(entries, new)))
    <3>1. ~directory => ~DirectoryIn(entries, src)
      BY <1>1, <1>5, DirectoryOnes, Zenon
    <3>2. directory \in BOOLEAN
      BY <1>1
    <3> QED
      BY <1>3, <3>1, <3>2, Zenon
  <2>2. /\ Calm(entries, handles, ds, Followed(cwd, old, new, directory))
        /\ Followed(cwd, old, new, directory) = migrate_path(cwd, old, new, directory)
    BY <1>3, <1>5, <1>10, <2>1, MigratedCalm
  <2> QED
    BY <1>6, <1>10, <2>2, Zenon
<1>12. rename'.step = "idle"
  BY <1>4, IdleStep
<1>13. \A c \in Files : handles[c].mode # Closed => handles[c].object \in Objects
  BY <1>11, Zenon DEF Calm, SlotPlaced
<1>14. CASE UNCHANGED entries /\ result' = "error"
  <2>1. LayerAt(entries', handles', descriptors', current_directory', rename')
    BY <1>2, <1>4, <1>11, <1>12, <1>14, Zenon DEF LayerAt
  <2>2. OffsetStep
    BY <1>4, <1>10, <1>13, <1>14, MovedOffsets
  <2>3. RenameEnds
    <3>1. result' # "ok" /\ backup # <<>>
      BY <1>5, <1>14, EmptyData
    <3>2. entries' = entries
      BY <1>14
    <3>3. ObjectIn(entries', rename.new) = rename.source
          /\ ObjectIn(entries', rename.backup) = rename.destination
          /\ rename.backup # <<>>
      BY <1>1, <1>3, <1>5, <3>1, <3>2
    <3> QED
      BY <3>1, <3>3, Zenon DEF RenameEnds
  <2> QED
    BY <2>1, <2>2, <2>3 DEF LayerStep
<1>15. CASE entries' = Deleted(ObjectAt(rename.backup)) /\ result' = "ok"
  <2>1. media = [entries EXCEPT ![dst] = Free]
    <3>1. ObjectAt(rename.backup) = dst
      BY <1>1, <1>5, Zenon DEF ObjectAt
    <3> QED
      BY <1>2, <1>15, <3>1, Zenon DEF Deleted
  <2>2. media[dst] = Free /\ Elsewhere(entries, media, dst)
    BY <1>3, <1>7, <2>1, EntryChanged, Zenon
  <2>3. media[dst].kind = "free" /\ ~media[dst].stale
    BY <2>2, FreeFields
  <2>4. Deletes(entries, media, dst)
    BY <1>7, <2>2, <2>3, Zenon DEF Deletes
  <2>5. Whole(media)
    BY <1>9, <2>4, DeleteWhole
  <2>6. Current(media)
    <3> SUFFICES ASSUME NEW x \in Objects PROVE ~media[x].stale
      BY Zenon DEF Current
    <3>1. CASE x = dst
      BY <2>3, <3>1
    <3>2. CASE x # dst
      <4>1. media[x] = entries[x]
        BY <2>2, <3>2 DEF Elsewhere
      <4> QED
        BY <1>9, <4>1, Zenon DEF Current
    <3> QED
      BY <3>1, <3>2
  <2>7. \A p : IsPlace(p) /\ ObjectIn(entries, p) # NoObject /\ ObjectIn(entries, p) # dst =>
                 ObjectIn(media, p) = ObjectIn(entries, p)
    BY <1>9, <2>4, DeleteKeeps
  <2>8. Calm(media, handles, ds, to)
    <3>1. \A d \in Files : /\ ds[d].allocated /\ ds[d].object = dst => ~LiveIn(media, dst)
                           /\ handles[d].mode # Closed => handles[d].object # dst
      BY <1>7, <2>3, Zenon DEF LiveIn
    <3>2. virtual_root(to) \/ ObjectIn(entries, to) # dst
      BY <1>7, <1>11, Zenon
    <3> QED
      BY <1>11, <2>2, <2>5, <2>6, <2>7, <3>1, <3>2, MediaCalm
  <2>9. LayerAt(entries', handles', descriptors', current_directory', rename')
    BY <1>2, <1>4, <1>12, <2>8, Zenon DEF LayerAt
  <2>10. OffsetStep
    <3>1. \A c \in Files : handles[c].mode # Closed =>
            entries'[handles[c].object].data = entries[handles[c].object].data
      <4> SUFFICES ASSUME NEW c \in Files, handles[c].mode # Closed
                   PROVE  entries'[handles[c].object].data = entries[handles[c].object].data
        OBVIOUS
      <4>1. PICK o : o = handles[c].object
        OBVIOUS
      <4>2. o \in Objects /\ o # dst
        BY <1>7, <1>13, <4>1, Zenon
      <4>3. media[o] = entries[o]
        BY <2>2, <4>2 DEF Elsewhere
      <4> QED
        BY <1>2, <4>1, <4>3
    <3>2. \A c \in Files : /\ SameFile(handles[c], handles'[c])
                           /\ handles'[c].offset = handles[c].offset
      BY <1>4, Zenon DEF SameFile
    <3> QED
      BY <1>10, <3>1, <3>2, OffsetsKept, Zenon
  <2>11. RenameEnds
    <3>1. ObjectIn(media, new) = src
      BY <1>3, <1>5, <1>7, <1>8, <2>7, Zenon
    <3>2. ObjectIn(media, old) = NoObject
      BY <1>3, <1>5, <1>9, <2>4, DeleteLeaves
    <3> QED
      BY <1>1, <1>2, <1>15, <2>3, <3>1, <3>2, Zenon DEF RenameEnds
  <2> QED
    BY <2>9, <2>10, <2>11 DEF LayerStep
<1> QED
  BY <1>4, <1>14, <1>15

-----------------------------------------------------------------------------
(* The invariant of the layer *)

\* The empty volumes satisfy it.
LEMMA InitLayer == Init => LayerInv
<1> SUFFICES ASSUME Init PROVE LayerInv
  OBVIOUS
<1>1. /\ entries = [o \in Objects |-> Free]
      /\ handles = [d \in Files |-> NoHandle]
      /\ descriptors = [d \in Files |-> NoDescriptor]
      /\ current_directory = << <<IF "flash" \in Mounted THEN "flash" ELSE "sd", 0>> >>
      /\ rename = Idle
  BY DEF Init
<1>2. \A o \in Objects : entries[o].kind = "free" /\ ~entries[o].stale
  BY <1>1, FreeFields
<1>3. Whole(entries) /\ Current(entries)
  <2>1. \A o \in Objects : ~LiveIn(entries, o)
    BY <1>2, Zenon DEF LiveIn
  <2>2. Kinds(entries) /\ Parents(entries) /\ Names(entries) /\ Current(entries)
    BY <1>2, <2>1, Zenon DEF Kinds, Parents, Names, Current
  <2>3. Grounded(entries)
    <3> SUFFICES ASSUME NEW S \in SUBSET Objects, S # {}, \A o \in S : LiveIn(entries, o)
                 PROVE  FALSE
      BY Zenon DEF Grounded
    <3> QED
      BY <2>1
  <2> QED
    BY <2>2, <2>3, Zenon DEF Whole
<1>4. \A d \in Files : SlotPlaced(entries, descriptors[d].path, handles[d], descriptors[d])
  <2>1. /\ NoHandle.mode = Closed /\ NoHandle.object = NoObject
        /\ ~NoDescriptor.allocated
    BY DEF NoHandle, NoDescriptor
  <2> SUFFICES ASSUME NEW d \in Files
               PROVE  SlotPlaced(entries, descriptors[d].path, handles[d], descriptors[d])
    OBVIOUS
  <2>2. handles[d] = NoHandle /\ descriptors[d] = NoDescriptor
    BY <1>1
  <2> QED
    BY <2>1, <2>2 DEF SlotPlaced
<1>5. AloneAt(handles)
  <2>1. NoHandle.mode = Closed /\ Closed # "write"
    BY DEF NoHandle, Closed
  <2>2. \A d \in Files : handles[d].mode # "write"
    BY <1>1, <2>1
  <2> QED
    BY <2>2, Zenon DEF AloneAt
<1>6. DirectoryAt(entries, current_directory, current_directory)
  <2>1. PICK cwd, v : /\ cwd = current_directory /\ v = <<IF "flash" \in Mounted THEN "flash" ELSE "sd", 0>>
    OBVIOUS
  <2>2. cwd = <<v>>
    BY <1>1, <2>1
  <2>3. IsSequence(cwd) /\ Len(cwd) = 1 /\ cwd[1] = v
    BY <2>2 DEF IsSequence
  <2>4. Media(cwd) \in Volumes
    BY <2>1, <2>3 DEF Media, Volumes, fold_ascii_case
  <2>5. IsPlace(cwd) /\ Len(cwd) >= 1
    BY <2>3, <2>4 DEF IsPlace
  <2>6. DirectoryIn(entries, ObjectIn(entries, cwd))
    <3>1. ObjectIn(entries, cwd) = Walk(entries, cwd)[1]
      BY <2>3, WalkEnds
    <3>2. 1 \in 1 .. Len(cwd)
      BY <2>3
    <3>3. Walk(entries, cwd)[1] = RootOf(fold_ascii_case(cwd[1]))
      BY <2>3, <3>2, WalkDefined
    <3> QED
      BY <3>1, <3>3, Roots, DirectoryOnes
  <2> QED
    BY <2>1, <2>3, <2>5, <2>6, Zenon DEF DirectoryAt
<1>7. Calm(entries, handles, descriptors, current_directory)
  BY <1>3, <1>4, <1>5, <1>6, Zenon DEF Calm
<1>8. rename.step = "idle"
  BY <1>1, IdleStep
<1> QED
  BY <1>7, <1>8, InitFile, Zenon DEF LayerInv, LayerAt

\* What LayerAt says between two calls.
LEMMA AtIdle ==
  ASSUME LayerInv, Available
  PROVE  FileInv /\ Calm(entries, handles, descriptors, current_directory)
BY DEF LayerInv, LayerAt, Available

\* The calls on descriptors, ...
LEMMA DescriptorLayer ==
  ASSUME LayerInv, DescriptorCall
  PROVE  LayerStep
<1>1. PICK d \in Files :
        \/ Close(d) \/ Fsync(d) \/ BadDescriptor(d)
        \/ \E length \in Lengths : Read(d, length) \/ Write(d, length) \/ Ftruncate(d, length)
        \/ \E offset \in Offsets, origin \in {"SEEK_SET", "SEEK_CUR", "SEEK_END"} :
             Lseek(d, offset, origin)
  BY Zenon DEF DescriptorCall
<1>2. ASSUME Available, CalmStep, UNCHANGED rename PROVE LayerStep
  BY <1>2, IdleLayer
<1>3. Available => FileInv /\ Calm(entries, handles, descriptors, current_directory)
  BY AtIdle
<1>4. CASE Close(d)
  <2>1. Available /\ UNCHANGED rename
    BY <1>4, Zenon DEF Close
  <2> QED
    BY <1>2, <1>3, <1>4, <2>1, CloseCall
<1>5. CASE Fsync(d)
  <2>1. Available /\ UNCHANGED rename
    BY <1>5, Zenon DEF Fsync
  <2> QED
    BY <1>2, <1>3, <1>5, <2>1, FsyncCall
<1>6. CASE BadDescriptor(d)
  <2>1. Available /\ Refuse /\ UNCHANGED rename
    BY <1>6, Zenon DEF BadDescriptor, Refuse
  <2> QED
    BY <1>2, <1>3, <2>1, RefuseCalm
<1>7. ASSUME NEW r, Available, descriptors[d].allocated, Leaves(d, r) PROVE LayerStep
  <2>1. UNCHANGED rename
    BY <1>7, Zenon DEF Leaves, Finish
  <2>2. CalmStep
    BY <1>3, <1>7, LeavesCalm DEF CalmStep
  <2> QED
    BY <1>2, <1>7, <2>1, <2>2
<1>8. CASE \E length \in Lengths : Read(d, length) \/ Write(d, length) \/ Ftruncate(d, length)
  <2>1. PICK length \in Nat : Read(d, length) \/ Write(d, length) \/ Ftruncate(d, length)
    BY <1>8, FilesystemAssumption
  <2>2. Available /\ descriptors[d].allocated
    BY <2>1, Zenon DEF Read, Write, Ftruncate
  <2>3. \E r : Leaves(d, r)
    BY <1>3, <2>1, <2>2, ReadCall, WriteCall, FtruncateCall
  <2> QED
    BY <1>7, <2>2, <2>3, Zenon
<1>9. CASE \E offset \in Offsets, origin \in {"SEEK_SET", "SEEK_CUR", "SEEK_END"} :
             Lseek(d, offset, origin)
  <2>1. PICK offset \in Int, origin \in {"SEEK_SET", "SEEK_CUR", "SEEK_END"} :
          Lseek(d, offset, origin)
    BY <1>9, FilesystemAssumption
  <2>2. Available /\ descriptors[d].allocated
    BY <2>1, Zenon DEF Lseek
  <2>3. \E r : Leaves(d, r)
    BY <1>3, <2>1, <2>2, LseekCall
  <2> QED
    BY <1>7, <2>2, <2>3, Zenon
<1> QED
  BY <1>1, <1>4, <1>5, <1>6, <1>8, <1>9

\* ... those on paths ...
LEMMA PathLayer ==
  ASSUME LayerInv, PathCall
  PROVE  LayerStep
<1>1. PICK path, request :
        /\ path = NormalizedPath(request) /\ request \in Requests
        /\ \/ \E flags : Open(path, flags) \/ OpenFails(path, flags)
           \/ Unlink(path) \/ Mkdir(path) \/ Rmdir(path) \/ Chdir(path)
           \/ \E other \in Requests : Rename(path, NormalizedPath(other))
  BY Zenon DEF PathCall
<1>2. Available
  BY <1>1, Zenon DEF Open, OpenFails, Unlink, Mkdir, Rmdir, Chdir, Rename
<1>3. FileInv /\ Calm(entries, handles, descriptors, current_directory)
  BY <1>2, AtIdle
<1>4. \A other \in Requests : IsSequence(NormalizedPath(other).path)
  <2> SUFFICES ASSUME NEW other \in Requests PROVE IsSequence(NormalizedPath(other).path)
    OBVIOUS
  <2>1. IsSequence(other.parts)
    BY FilesystemAssumption
  <2>2. IsSequence(current_directory)
    BY <1>3, Zenon DEF Calm, DirectoryAt
  <2> QED
    BY <2>1, <2>2, NormalizedPaths, Zenon DEF NormalizedPath
<1>5. IsSequence(path.path)
  BY <1>1, <1>4
<1>6. CASE \E flags : Open(path, flags) \/ OpenFails(path, flags)
  <2>1. PICK flags : Open(path, flags) \/ OpenFails(path, flags)
    BY <1>6
  <2>2. UNCHANGED rename
    BY <2>1, Zenon DEF Open, OpenFails, Refuse
  <2>3. CalmStep
    <3>1. OpenFails(path, flags) => Refuse
      BY Zenon DEF OpenFails
    <3> QED
      BY <1>3, <1>5, <2>1, <3>1, OpenCall, RefuseCalm
  <2> QED
    BY <1>2, <2>2, <2>3, IdleLayer
<1>7. CASE Unlink(path) \/ Mkdir(path) \/ Rmdir(path) \/ Chdir(path)
  <2>1. UNCHANGED rename
    BY <1>7, Zenon DEF Unlink, Mkdir, Rmdir, Chdir, Attempt, Refuse
  <2>2. CalmStep
    BY <1>3, <1>5, <1>7, UnlinkCall, MkdirCall, RmdirCall, ChdirCall
  <2> QED
    BY <1>2, <2>1, <2>2, IdleLayer
<1>8. CASE \E other \in Requests : Rename(path, NormalizedPath(other))
  <2>1. PICK new : IsSequence(new.path) /\ Rename(path, new)
    BY <1>4, <1>8, Zenon
  <2> QED
    BY <1>3, <1>5, <2>1, RenameCall
<1> QED
  BY <1>1, <1>6, <1>7, <1>8

\* ... and no call at all.
LEMMA StutterLayer ==
  ASSUME LayerInv, UNCHANGED vars
  PROVE  LayerStep
<1>1. /\ UNCHANGED <<entries, handles, descriptors, current_directory, rename>>
  BY DEF vars, fsVars
<1>2. LayerAt(entries', handles', descriptors', current_directory', rename')
  BY <1>1 DEF LayerInv
<1>3. OffsetStep
  <2>1. \A d \in Files : StandsAt(entries, handles[d], descriptors[d]) =>
                           StandsAt(entries', handles'[d], descriptors'[d])
    BY <1>1
  <2> QED
    BY <2>1, Zenon DEF OffsetStep
<1>4. RenameEnds
  <2>1. rename'.step = rename.step
    BY <1>1
  <2> QED
    BY <2>1, Zenon DEF RenameEnds
<1> QED
  BY <1>2, <1>3, <1>4 DEF LayerStep

\* Every step keeps the invariant and does what the action properties ask of it.
LEMMA NextLayer == LayerInv /\ [Next]_vars => LayerInv' /\ LayerStep
<1> SUFFICES ASSUME LayerInv, [Next]_vars PROVE LayerInv' /\ LayerStep
  OBVIOUS
<1>1. LayerStep
  BY DescriptorLayer, PathLayer, RenameBackupStep, RenameMoveStep, RenameRestoreStep,
     RenameDeleteStep, StutterLayer, Zenon DEF Next
<1>2. FileInv'
  BY NextFile, Zenon DEF LayerInv
<1> QED
  BY <1>1, <1>2, Zenon DEF LayerInv, LayerStep

-----------------------------------------------------------------------------
(* The theorems about the layer *)

\* LayerInv is inductive, for any number of descriptors, objects and backup names and any
\* paths: at each of its steps a _rename knows where the source, the entry it replaces and
\* the backup are, nothing refers to the entry it replaces, and the paths of descriptors
\* and of the working directory lead to their objects once they are migrated.
THEOREM LayerInvariant == Spec => []LayerInv
<1>1. Init => LayerInv
  BY InitLayer
<1>2. LayerInv /\ [Next]_vars => LayerInv'
  BY NextLayer
<1> QED
  BY <1>1, <1>2, PTL DEF Spec

\* Whatever step _rename is at, the media are a tree without a stale entry.
LEMMA LayerWhole ==
  ASSUME LayerInv
  PROVE  Whole(entries) /\ Current(entries)
BY Zenon DEF LayerInv, LayerAt, Calm, Migrating

\* Every file and directory stays below the root of a volume and current_directory stays a
\* directory, at every step of every _rename and whatever FileX call of it fails: a
\* directory never moves below itself, in any spelling of its path.
THEOREM TreeIsWhole == Spec => []TreeStaysWhole
<1>1. LayerInv => TreeStaysWhole
  <2> SUFFICES ASSUME LayerInv PROVE TreeStaysWhole
    OBVIOUS
  <2>1. Parents(entries) /\ Grounded(entries)
    BY LayerWhole, Zenon DEF Whole
  <2>2. Available => virtual_root(current_directory) \/ IsDirectory(ObjectAt(current_directory))
    <3> SUFFICES ASSUME Available
                 PROVE  virtual_root(current_directory) \/ IsDirectory(ObjectAt(current_directory))
      OBVIOUS
    <3>1. DirectoryAt(entries, current_directory, current_directory)
      BY AtIdle, Zenon DEF Calm
    <3> QED
      BY <3>1, IsDirectoryMeans, Zenon DEF DirectoryAt, ObjectAt
  <2>3. \A o \in Objects : Live(o) => IsDirectory(entries[o].parent)
    <3> SUFFICES ASSUME NEW o \in Objects, Live(o) PROVE IsDirectory(entries[o].parent)
      OBVIOUS
    <3>1. PICK p : p = entries[o].parent
      OBVIOUS
    <3>2. p \in {-1, -2} \/ (p \in Objects /\ entries[p].kind = "dir")
      BY <2>1, <3>1, Zenon DEF Live, LiveIn, Parents
    <3>3. DirectoryIn(entries, p)
      BY <3>2, DirectoryOnes, Zenon
    <3> QED
      BY <3>1, <3>3, IsDirectoryMeans, Zenon
  <2>4. ASSUME NEW S, \A o \in S : o \in Objects /\ Live(o), S # {}
        PROVE  \E o \in S : entries[o].parent \notin S
    <3>1. S \in SUBSET Objects /\ \A o \in S : LiveIn(entries, o)
      BY <2>4, Zenon DEF Live, LiveIn
    <3> QED
      BY <2>1, <2>4, <3>1, Zenon DEF Grounded
  <2>5. \A S \in SUBSET {o \in Objects : Live(o)} : S # {} =>
          \E o \in S : entries[o].parent \notin S
    <3> SUFFICES ASSUME NEW S \in SUBSET {o \in Objects : Live(o)}, S # {}
                 PROVE  \E o \in S : entries[o].parent \notin S
      OBVIOUS
    <3>1. \A o \in S : o \in Objects /\ Live(o)
      OBVIOUS
    <3> QED
      BY <2>4, <3>1, Zenon
  <2> QED
    BY <2>2, <2>3, <2>5, Zenon DEF TreeStaysWhole
<1> QED
  BY <1>1, LayerInvariant, PTL

\* A descriptor names the file it was opened on for as long as that file exists, through
\* renames of the file, of a directory above it or onto another name, and its handle is
\* on no other file: the paths MigratePaths rewrites are those that lead through the source.
THEOREM DescriptorsKeepTheirFile == Spec => []DescriptorKeepsFile
<1>1. LayerInv => DescriptorKeepsFile
  <2> SUFFICES ASSUME LayerInv, Available, NEW d \in Files,
                      descriptors[d].allocated, Live(descriptors[d].object)
               PROVE  /\ ObjectAt(descriptors[d].path) = descriptors[d].object
                      /\ handles[d].object \in {NoObject, descriptors[d].object}
    BY Zenon DEF DescriptorKeepsFile
  <2>1. SlotPlaced(entries, descriptors[d].path, handles[d], descriptors[d])
    BY AtIdle, Zenon DEF Calm
  <2>2. ObjectAt(descriptors[d].path) = descriptors[d].object
    BY <2>1, Zenon DEF SlotPlaced, Live, LiveIn, ObjectAt
  <2>3. handles[d].object \in {NoObject, descriptors[d].object}
    BY <2>1, <2>2, Zenon DEF SlotPlaced, ObjectAt
  <2> QED
    BY <2>2, <2>3
<1> QED
  BY <1>1, LayerInvariant, PTL

\* No directory entry moves while a handle is ahead of it: _rename flushes the media when
\* a descriptor below the source is open, and nothing opens or writes it before it moves.
THEOREM NothingGoesStale == Spec => []NoStaleEntry
<1>1. LayerInv => NoStaleEntry
  BY LayerWhole, Zenon DEF Current, NoStaleEntry
<1> QED
  BY <1>1, LayerInvariant, PTL

\* A _rename that succeeds leaves the source alone at its new path, and one that fails
\* leaves the source at one of its paths and the entry it was to replace under its name
\* or its backup name, whichever of the FileX calls failed.
THEOREM RenamesLoseNothing == Spec => RenameLosesNothing
<1>1. LayerInv /\ [Next]_vars => RenameEnds
  BY NextLayer DEF LayerStep
<1> QED
  BY <1>1, LayerInvariant, PTL DEF Spec, RenameLosesNothing, RenameEnds

\* A call that succeeds leaves FileX's offset of every open handle where the position of
\* its descriptor says: mode switches, truncation, appending, and the calls that change
\* other entries keep the two together.
THEOREM SuccessKeepsOffsets == Spec => SuccessKeepsOffset
<1>1. LayerInv /\ [Next]_vars => OffsetStep
  BY NextLayer DEF LayerStep
<1>2. OffsetStep => \A d \in Files : OffsetAgrees(d) /\ ~OffsetAgrees(d)' => result' = "error"
  BY Zenon DEF OffsetStep, OffsetAgrees, StandsAt, AgreesOn
<1> QED
  BY <1>1, <1>2, LayerInvariant, PTL DEF Spec, SuccessKeepsOffset

=============================================================================
