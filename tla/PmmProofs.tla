----------------------------- MODULE PmmProofs -----------------------------
(***************************************************************************)
(* Pmm keeps its inductive invariant for every memory map and batch size,  *)
(* never panics before the machine's memory is exhausted, and implements   *)
(* PageAllocator.                                                          *)
(***************************************************************************)
EXTENDS Pmm, SequenceTheorems, TLAPS

\* The map's entries are what MapAssumption says, in a form the provers like.
LEMMA EntryFacts ==
  \A i \in Entries : /\ MemMap[i].base \in Nat /\ MemMap[i].length \in Nat
                     /\ MemMap[i].usable \in BOOLEAN
                     /\ EntryEnd(i) \in Nat /\ EntryEnd(i) <= TopFrame * 4096
<1> SUFFICES ASSUME NEW i \in Entries
             PROVE  /\ MemMap[i].base \in Nat /\ MemMap[i].length \in Nat
                    /\ MemMap[i].usable \in BOOLEAN
                    /\ EntryEnd(i) \in Nat /\ EntryEnd(i) <= TopFrame * 4096
  OBVIOUS
<1>1. MemMap[i] \in [base : Nat, length : Nat, usable : BOOLEAN]
  <2> DEFINE R == [base : Nat, length : Nat, usable : BOOLEAN]
  <2>1. MemMap \in Seq(R) /\ i \in 1..Len(MemMap)
    BY MapAssumption DEF Entries
  <2> HIDE DEF R
  <2>2. MemMap[i] \in R
    BY <2>1, ElementOfSeq
  <2>3. QED BY <2>2 DEF R
<1>2. EntryEnd(i) <= TopFrame * 4096
  BY MapAssumption
<1>3. MemMap[i].base \in Nat /\ MemMap[i].length \in Nat
  BY <1>1
<1>4. MemMap[i].usable \in BOOLEAN
  BY <1>1, Zenon
<1>5. QED BY <1>2, <1>3, <1>4 DEF EntryEnd

LEMMA CountFacts == Len(MemMap) \in Nat /\ Entries \subseteq Nat /\ TopFrame \in Nat
BY MapAssumption DEF Entries

\* The aligned range is made of page boundaries, inside the entry.
LEMMA AlignedRange ==
  ASSUME NEW i \in Entries
  PROVE  /\ AlignedStart(i) \in Nat /\ AlignedEnd(i) \in Nat
         /\ AlignedStart(i) % 4096 = 0 /\ AlignedEnd(i) % 4096 = 0
         /\ MemMap[i].base <= AlignedStart(i) /\ LowMemory <= AlignedStart(i)
         /\ AlignedEnd(i) <= EntryEnd(i)
BY EntryFacts DEF AlignedStart, AlignedEnd, ALIGN_UP, ALIGN_DOWN, LowMemory

\* Every page of an entry lies in the aligned range pmm_fill walks.
LEMMA PageInRange ==
  ASSUME NEW i \in Entries, NEW f \in Nat, PageIn(f, i)
  PROVE  AlignedStart(i) <= f * 4096 /\ f * 4096 + 4096 <= AlignedEnd(i)
BY EntryFacts DEF PageIn, AlignedStart, AlignedEnd, ALIGN_UP, ALIGN_DOWN, LowMemory

\* Conversely, every page boundary of that range starts a page of the entry.
LEMMA RangeIsPages ==
  ASSUME NEW i \in Entries, Usable(i), NEW c \in Nat, c % 4096 = 0,
         AlignedStart(i) <= c, c + 4096 <= AlignedEnd(i)
  PROVE  \E f \in Frames : PageIn(f, i) /\ f * 4096 = c
<1> DEFINE f == c \div 4096
<1>1. f \in Nat /\ f * 4096 = c
  OBVIOUS
<1>2. c + 4096 <= EntryEnd(i) /\ MemMap[i].base <= c /\ LowMemory <= c
  BY AlignedRange, EntryFacts DEF LowMemory
<1>3. PageIn(f, i)
  BY <1>1, <1>2 DEF PageIn, Usable
<1>4. f \in 0..TopFrame
  BY <1>1, <1>2, EntryFacts, CountFacts
<1>5. QED
  BY <1>1, <1>3, <1>4 DEF Frames

\* A page belongs to one entry only: usable entries do not overlap.
LEMMA OneEntry ==
  ASSUME NEW i \in Entries, NEW j \in Entries, NEW f \in Nat,
         PageIn(f, i), PageIn(f, j)
  PROVE  i = j
<1> SUFFICES ASSUME i # j PROVE FALSE
  OBVIOUS
<1>1. MemMap[i].usable /\ MemMap[j].usable
  BY DEF PageIn
<1>2. EntryEnd(i) <= MemMap[j].base \/ EntryEnd(j) <= MemMap[i].base
  <2>1. \A m, n \in Entries : MemMap[m].usable /\ MemMap[n].usable /\ m # n
           => EntryEnd(m) <= MemMap[n].base \/ EntryEnd(n) <= MemMap[m].base
    BY MapAssumption
  <2>2. QED BY <1>1, <2>1, Zenon
<1>3. /\ MemMap[i].base <= f * 4096 /\ f * 4096 + 4096 <= EntryEnd(i)
      /\ MemMap[j].base <= f * 4096 /\ f * 4096 + 4096 <= EntryEnd(j)
  BY DEF PageIn
<1>4. QED BY <1>2, <1>3, EntryFacts

LEMMA FrameFacts == Frames \subseteq Nat /\ AllPages \subseteq Nat
BY CountFacts DEF Frames, AllPages

\* What a step of the cursor does to the set of pages it has passed.
LEMMA CursorStart == PassedPages(1, 0) = {}
BY EntryFacts, CountFacts, FrameFacts DEF PassedPages, PassedFrames, PageIn, Entries

LEMMA CursorEnd == PassedPages(Len(MemMap) + 1, 0) = AllPages
<1>1. \A f \in Frames : f \in PassedFrames(Len(MemMap) + 1, 0)
  BY CountFacts DEF PassedFrames, Frames, Entries
<1>2. QED
  BY <1>1 DEF PassedPages, PassedFrames, AllPages

LEMMA CursorSkip ==
  ASSUME NEW e \in Entries, ~Usable(e)
  PROVE  PassedPages(e + 1, 0) = PassedPages(e, 0)
<1>1. \A f \in Frames : ~PageIn(f, e)
  BY PageInRange, AlignedRange, FrameFacts DEF Usable, PageIn
<1>2. \A f \in Frames : \A i \in Entries :
        PageIn(f, i) => ~(f * 4096 < MemMap[i].base + 0)
  BY EntryFacts, FrameFacts DEF PageIn
<1>3. \A i \in Entries : (i < e + 1) <=> (i < e \/ i = e)
  BY CountFacts
<1>4. PassedFrames(e + 1, 0) = PassedFrames(e, 0)
  BY <1>1, <1>2, <1>3 DEF PassedFrames
<1>5. QED
  BY <1>4 DEF PassedPages

LEMMA CursorEnter ==
  ASSUME NEW e \in Entries, Usable(e)
  PROVE  PassedPages(e, AlignedStart(e) - MemMap[e].base) = PassedPages(e, 0)
<1>1. \A f \in Frames :
        PageIn(f, e) => /\ ~(f * 4096 < MemMap[e].base + 0)
                        /\ ~(f * 4096 < MemMap[e].base + (AlignedStart(e) - MemMap[e].base))
  <2> SUFFICES ASSUME NEW f \in Frames, PageIn(f, e)
               PROVE  /\ ~(f * 4096 < MemMap[e].base + 0)
                      /\ ~(f * 4096 < MemMap[e].base + (AlignedStart(e) - MemMap[e].base))
    OBVIOUS
  <2>1. f \in Nat /\ AlignedStart(e) <= f * 4096
    BY PageInRange, FrameFacts
  <2>2. QED BY <2>1, AlignedRange, EntryFacts
<1>2. PassedFrames(e, AlignedStart(e) - MemMap[e].base) = PassedFrames(e, 0)
  BY <1>1 DEF PassedFrames
<1>3. QED
  BY <1>2 DEF PassedPages

LEMMA CursorLeave ==
  ASSUME NEW e \in Entries, Usable(e), NEW off \in Nat, Exhausted(e, off)
  PROVE  PassedPages(e + 1, 0) = PassedPages(e, off)
<1>1. \A f \in Frames : PageIn(f, e) => f * 4096 < MemMap[e].base + off
  BY PageInRange, AlignedRange, EntryFacts, FrameFacts DEF Exhausted, PAGE_SIZE
<1>2. \A f \in Frames : \A i \in Entries :
        PageIn(f, i) => ~(f * 4096 < MemMap[i].base + 0)
  BY EntryFacts, FrameFacts DEF PageIn
<1>3. \A i \in Entries : (i < e + 1) <=> (i < e \/ i = e)
  BY CountFacts
<1>4. PassedFrames(e + 1, 0) = PassedFrames(e, off)
  BY <1>1, <1>2, <1>3 DEF PassedFrames
<1>5. QED
  BY <1>4 DEF PassedPages

LEMMA CursorPush ==
  ASSUME NEW e \in Entries, Usable(e), NEW off \in Nat,
         AlignedStart(e) <= MemMap[e].base + off,
         (MemMap[e].base + off) % 4096 = 0,
         ~Exhausted(e, off)
  PROVE  /\ PassedPages(e, off + 4096) = PassedPages(e, off) \cup {MemMap[e].base + off}
         /\ MemMap[e].base + off \notin PassedPages(e, off)
<1> DEFINE c == MemMap[e].base + off
<1>1. c \in Nat /\ c + 4096 <= AlignedEnd(e)
  BY EntryFacts, AlignedRange DEF Exhausted, PAGE_SIZE
<1>2. PICK k \in Frames : PageIn(k, e) /\ k * 4096 = c
  BY <1>1, RangeIsPages
<1>3. \A f \in Frames : (f * 4096 < MemMap[e].base + (off + 4096))
                          <=> (f * 4096 < MemMap[e].base + off \/ f = k)
  BY <1>2, FrameFacts, EntryFacts
<1>4. PassedFrames(e, off + 4096) = PassedFrames(e, off) \cup {k}
  BY <1>2, <1>3 DEF PassedFrames
<1>5. k \notin PassedFrames(e, off)
  <2> SUFFICES ASSUME NEW i \in Entries, PageIn(k, i),
                      i < e \/ (i = e /\ k * 4096 < MemMap[i].base + off)
               PROVE  FALSE
    BY DEF PassedFrames
  <2>1. i = e
    BY <1>2, OneEntry, FrameFacts
  <2>2. QED
    BY <2>1, <1>2, <1>1, CountFacts, FrameFacts
<1>6. \A f \in PassedFrames(e, off) : f * 4096 = c => f = k
  BY <1>2, FrameFacts DEF PassedFrames
<1>7. QED
  BY <1>2, <1>4, <1>5, <1>6 DEF PassedPages

\* The free list as a sequence: what linking and unlinking the head do.
LEMMA LinkHead ==
  ASSUME NEW s \in Seq(Nat), NEW x \in Nat
  PROVE  /\ <<x>> \o s \in Seq(Nat) /\ <<x>> \o s # <<>>
         /\ Len(<<x>> \o s) = Len(s) + 1
         /\ Listed(<<x>> \o s) = Listed(s) \cup {x}
         /\ NoDup(s) /\ x \notin Listed(s) => NoDup(<<x>> \o s)
<1> DEFINE t == <<x>> \o s
<1>1. /\ t \in Seq(Nat) /\ Len(t) = Len(s) + 1 /\ t[1] = x
      /\ \A k \in 1..Len(s) : t[k + 1] = s[k]
  OBVIOUS
<1>2. \A k \in 1..Len(t) : k = 1 \/ (k - 1 \in 1..Len(s) /\ t[k] = s[k - 1])
  BY <1>1
<1>3. Listed(t) = Listed(s) \cup {x}
  <2>1. \A k \in 1..Len(t) : t[k] \in Listed(s) \cup {x}
    BY <1>1, <1>2 DEF Listed
  <2>2. \A k \in 1..Len(s) : s[k] \in Listed(t)
    <3> TAKE k \in 1..Len(s)
    <3>1. k + 1 \in 1..Len(t) /\ t[k + 1] = s[k]
      BY <1>1
    <3>2. QED BY <3>1 DEF Listed
  <2>3. x \in Listed(t)
    BY <1>1 DEF Listed
  <2>4. QED BY <2>1, <2>2, <2>3 DEF Listed
<1>4. ASSUME NoDup(s), x \notin Listed(s) PROVE NoDup(t)
  <2> SUFFICES ASSUME NEW j \in 1..Len(t), NEW k \in 1..Len(t), t[j] = t[k] PROVE j = k
    BY DEF NoDup
  <2>1. \A m \in 1..Len(s) : s[m] # x
    BY <1>4 DEF Listed
  <2>2. QED BY <1>1, <1>2, <1>4, <2>1 DEF NoDup
<1>5. QED BY <1>1, <1>3, <1>4

LEMMA UnlinkHead ==
  ASSUME NEW s \in Seq(Nat), s # <<>>,
         NoDup(s)
  PROVE  /\ Tail(s) \in Seq(Nat) /\ Head(s) \in Nat
         /\ Listed(s) = Listed(Tail(s)) \cup {Head(s)}
         /\ Head(s) \notin Listed(Tail(s))
         /\ NoDup(Tail(s))
<1>1. /\ Tail(s) \in Seq(Nat) /\ Head(s) \in Nat /\ Head(s) = s[1]
      /\ Len(s) \in Nat /\ Len(s) >= 1 /\ Len(Tail(s)) = Len(s) - 1
      /\ \A k \in 1..Len(Tail(s)) : Tail(s)[k] = s[k + 1]
  OBVIOUS
<1>2. Listed(s) \subseteq Listed(Tail(s)) \cup {Head(s)}
  <2> SUFFICES ASSUME NEW k \in 1..Len(s) PROVE s[k] \in Listed(Tail(s)) \cup {Head(s)}
    BY DEF Listed
  <2>1. CASE k = 1
    BY <2>1, <1>1
  <2>2. CASE k # 1
    <3>1. k - 1 \in 1..Len(Tail(s)) /\ Tail(s)[k - 1] = s[k]
      BY <2>2, <1>1
    <3>2. QED BY <3>1 DEF Listed
  <2>3. QED BY <2>1, <2>2
<1>3. Listed(Tail(s)) \cup {Head(s)} \subseteq Listed(s)
  <2>1. Head(s) \in Listed(s)
    BY <1>1 DEF Listed
  <2>2. \A k \in 1..Len(Tail(s)) : k + 1 \in 1..Len(s)
    BY <1>1
  <2>3. QED BY <2>1, <2>2, <1>1 DEF Listed
<1>4. Head(s) \notin Listed(Tail(s))
  BY <1>1 DEF Listed, NoDup
<1>5. NoDup(Tail(s))
  BY <1>1 DEF NoDup
<1>6. QED BY <1>1, <1>2, <1>3, <1>4, <1>5

\* One page after a page boundary is a page boundary.
LEMMA NextBoundary == \A x \in Nat : x % 4096 = 0 => (x + 4096) % 4096 = 0
OBVIOUS

\* At a usable entry the cursor of pmm_fill starts on a page boundary.
LEMMA StartOfEntry ==
  ASSUME NEW e \in Entries, Usable(e)
  PROVE  /\ AlignedStart(e) - MemMap[e].base \in Nat
         /\ MemMap[e].base + (AlignedStart(e) - MemMap[e].base) = AlignedStart(e)
         /\ AlignedStart(e) % 4096 = 0 /\ AlignedStart(e) <= AlignedEnd(e)
BY AlignedRange, EntryFacts DEF Usable

\* The allocator's invariant is inductive: initial states satisfy it.
LEMMA InvInit == Init => IInv
<1> SUFFICES ASSUME Init PROVE IInv
  OBVIOUS
<1>1. TypeOK
  BY CountFacts, BatchAssumption DEF Init, TypeOK, Pcs
<1>2. Listed(freelist) = {}
  BY DEF Init, Listed
<1>3. SingleOwner
  BY <1>2 DEF Init, SingleOwner, NoDup
<1>4. Conservation
  BY <1>2, CursorStart DEF Init, Conservation
<1>5. CursorSound
  BY DEF Init, CursorSound
<1>6. QED BY <1>1, <1>3, <1>4, <1>5 DEF IInv

\* ... and every step of pmm.c preserves it.
LEMMA InvStep == IInv /\ [Next]_vars => IInv'
<1> SUFFICES ASSUME IInv, [Next]_vars PROVE IInv'
  OBVIOUS
<1> USE CountFacts, BatchAssumption DEF IInv, TypeOK
<1>1. CASE PmmInit
  BY <1>1 DEF PmmInit, SingleOwner, Conservation, CursorSound, Pcs
<1>2. CASE AllocCall
  BY <1>2 DEF AllocCall, SingleOwner, Conservation, CursorSound, Pcs
<1>3. CASE FillSkip
  <2>1. /\ fillEntry \in Entries /\ ~Usable(fillEntry)
        /\ fillEntry' = fillEntry + 1 /\ fillOffset' = 0 /\ pc = "fill"
        /\ UNCHANGED <<freelist, added, pc, caller, owned>>
    BY <1>3 DEF FillSkip, FillGoesOn
  <2>2. fillOffset = 0
    BY <2>1 DEF CursorSound
  <2>3. TypeOK'
    BY <2>1 DEF Entries
  <2>4. SingleOwner'
    BY <2>1 DEF SingleOwner
  <2>5. Conservation'
    BY <2>1, <2>2, CursorSkip DEF Conservation
  <2>6. CursorSound'
    BY <2>1 DEF CursorSound
  <2>7. QED BY <2>3, <2>4, <2>5, <2>6
<1>4. CASE FillEnter
  <2> DEFINE s == AlignedStart(fillEntry) - MemMap[fillEntry].base
  <2>1. /\ fillEntry \in Entries /\ Usable(fillEntry) /\ pc = "fill" /\ pc' = "entry"
        /\ fillOffset' = IF fillOffset = 0 THEN s ELSE fillOffset
        /\ UNCHANGED <<freelist, fillEntry, added, caller, owned>>
    BY <1>4 DEF FillEnter, FillGoesOn
  <2>2. TypeOK'
    BY <2>1, StartOfEntry DEF Pcs
  <2>3. SingleOwner'
    BY <2>1 DEF SingleOwner
  <2>4. Conservation'
    BY <2>1, CursorEnter DEF Conservation
  <2>5. CursorSound'
    <3>1. CASE fillOffset = 0
      <4>1. /\ MemMap[fillEntry].base + fillOffset' = AlignedStart(fillEntry)
            /\ AlignedStart(fillEntry) % 4096 = 0
            /\ AlignedStart(fillEntry) <= AlignedEnd(fillEntry)
            /\ AlignedStart(fillEntry) \in Nat
        BY <2>1, <3>1, StartOfEntry, AlignedRange
      <4>2. QED BY <2>1, <4>1 DEF CursorSound
    <3>2. CASE fillOffset # 0
      BY <2>1, <3>2 DEF CursorSound
    <3>3. QED BY <3>1, <3>2
  <2>6. QED BY <2>2, <2>3, <2>4, <2>5
<1>5. CASE FillPush
  <2> DEFINE c == MemMap[fillEntry].base + fillOffset
  <2>1. /\ fillEntry \in Entries /\ Usable(fillEntry)
        /\ AlignedStart(fillEntry) <= c /\ c % 4096 = 0
        /\ pc = "entry" /\ added < Batch /\ ~Exhausted(fillEntry, fillOffset)
        /\ added <= Len(freelist)
    BY <1>5 DEF FillPush, CursorSound
  <2>2. /\ freelist' = <<c>> \o freelist /\ added' = added + 1
        /\ fillOffset' = fillOffset + 4096
        /\ UNCHANGED <<fillEntry, pc, caller, owned>>
    BY <1>5 DEF FillPush, PAGE_SIZE
  <2>3. c \in Nat /\ c + 4096 <= AlignedEnd(fillEntry)
    <3>1. MemMap[fillEntry].base \in Nat /\ AlignedEnd(fillEntry) \in Nat
      BY <2>1, EntryFacts, AlignedRange
    <3>2. ~(c + 4096 > AlignedEnd(fillEntry))
      BY <2>1 DEF Exhausted, PAGE_SIZE
    <3>3. QED BY <3>1, <3>2
  <2>4. /\ PassedPages(fillEntry, fillOffset + 4096)
             = PassedPages(fillEntry, fillOffset) \cup {c}
        /\ c \notin PassedPages(fillEntry, fillOffset)
    BY <2>1, CursorPush
  <2>5. c \notin Listed(freelist) /\ c \notin owned
    BY <2>4 DEF Conservation
  <2>6. /\ freelist' \in Seq(Nat) /\ freelist' # <<>>
        /\ Len(freelist') = Len(freelist) + 1
        /\ Listed(freelist') = Listed(freelist) \cup {c}
        /\ NoDup(freelist')
    <3>1. freelist \in Seq(Nat) /\ NoDup(freelist)
      BY DEF SingleOwner
    <3> QED BY ONLY <3>1, <2>2, <2>3, <2>5, LinkHead
  <2>7. TypeOK'
    BY <2>1, <2>2, <2>6
  <2>8. SingleOwner'
    BY <2>2, <2>5, <2>6 DEF SingleOwner
  <2>9. Conservation'
    <3>1. Conservation
      OBVIOUS
    <3>2. QED BY ONLY <3>1, <2>2, <2>4, <2>6 DEF Conservation
  <2>10. MemMap[fillEntry].base + (fillOffset + 4096) = c + 4096 /\ (c + 4096) % 4096 = 0
    <3>1. MemMap[fillEntry].base \in Nat /\ c % 4096 = 0
      BY <2>1, EntryFacts
    <3>2. MemMap[fillEntry].base + (fillOffset + 4096) = c + 4096
      <4>1. fillOffset \in Nat
        OBVIOUS
      <4>2. QED BY ONLY <3>1, <4>1
    <3>3. (c + 4096) % 4096 = 0
      <4>1. c \in Nat /\ c % 4096 = 0
        BY <3>1, <2>3
      <4> HIDE DEF c
      <4>2. QED BY ONLY <4>1, NextBoundary
    <3>4. QED BY <3>2, <3>3
  <2>11. CursorSound'
    <3>1. AlignedStart(fillEntry) <= c + 4096
      BY <2>1, <2>3, AlignedRange
    <3>2. QED BY <2>1, <2>2, <2>3, <2>6, <2>10, <3>1 DEF CursorSound
  <2>12. QED BY <2>7, <2>8, <2>9, <2>11
<1>6. CASE FillLeave
  <2>1. fillEntry \in Entries /\ Usable(fillEntry) /\ pc = "entry" /\ pc' = "fill"
    BY <1>6 DEF FillLeave, CursorSound
  <2>2. UNCHANGED <<freelist, added, caller, owned>>
    BY <1>6 DEF FillLeave
  <2>3. CASE Exhausted(fillEntry, fillOffset)
    <3>1. fillEntry' = fillEntry + 1 /\ fillOffset' = 0
      BY <1>6, <2>3 DEF FillLeave
    <3>2. TypeOK'
      BY <2>1, <2>2, <3>1 DEF Entries, Pcs
    <3>3. SingleOwner'
      BY <2>2 DEF SingleOwner
    <3>4. Conservation'
      BY <2>1, <2>2, <2>3, <3>1, CursorLeave DEF Conservation
    <3>5. CursorSound'
      BY <2>1, <2>2, <3>1 DEF CursorSound
    <3>6. QED BY <3>2, <3>3, <3>4, <3>5
  <2>4. CASE ~Exhausted(fillEntry, fillOffset)
    <3>1. UNCHANGED <<fillEntry, fillOffset>>
      BY <1>6, <2>4 DEF FillLeave
    <3>2. QED BY <2>1, <2>2, <3>1 DEF SingleOwner, Conservation, CursorSound, Pcs
  <2>5. QED BY <2>3, <2>4
<1>7. CASE FillDone
  <2>1. /\ pc = "fill" /\ pc' \in {"idle", "pop"}
        /\ UNCHANGED <<freelist, fillEntry, fillOffset, added, caller, owned>>
        /\ fillEntry \notin Entries \/ added = Batch
    BY <1>7 DEF FillDone, FillGoesOn
  <2>2. freelist = <<>> => fillEntry = Len(MemMap) + 1
    BY <2>1 DEF CursorSound, Entries
  <2>3. TypeOK' /\ SingleOwner' /\ Conservation'
    BY <2>1 DEF SingleOwner, Conservation, Pcs
  <2>4. CursorSound'
    BY <2>1, <2>2 DEF CursorSound
  <2>5. QED BY <2>3, <2>4
<1>8. CASE Pop
  <2>1. /\ freelist # <<>> /\ pc' = "idle" /\ pc = "pop"
        /\ owned' = owned \cup {Head(freelist)} /\ freelist' = Tail(freelist)
        /\ UNCHANGED <<fillEntry, fillOffset, added, caller>>
    BY <1>8 DEF Pop
  <2>2. /\ freelist' \in Seq(Nat) /\ Head(freelist) \in Nat
        /\ Listed(freelist) = Listed(freelist') \cup {Head(freelist)}
        /\ Head(freelist) \notin Listed(freelist')
        /\ NoDup(freelist')
    <3>1. freelist \in Seq(Nat) /\ NoDup(freelist)
      BY DEF SingleOwner
    <3> QED BY ONLY <3>1, <2>1, UnlinkHead
  <2>3. TypeOK'
    BY <2>1, <2>2 DEF Pcs
  <2>4. SingleOwner'
    BY <2>1, <2>2 DEF SingleOwner
  <2>5. Conservation'
    BY <2>1, <2>2 DEF Conservation
  <2>6. CursorSound'
    BY <2>1 DEF CursorSound
  <2>7. QED BY <2>3, <2>4, <2>5, <2>6
<1>9. CASE OutOfMemory
  BY <1>9 DEF OutOfMemory, SingleOwner, Conservation, CursorSound, Pcs
<1>10. ASSUME NEW p \in owned, FreePage(p) PROVE IInv'
  <2>1. /\ freelist' = <<p>> \o freelist /\ owned' = owned \ {p} /\ pc = "idle"
        /\ UNCHANGED <<fillEntry, fillOffset, added, pc, caller>> /\ p \in Nat
    BY <1>10 DEF FreePage
  <2>2. p \notin Listed(freelist)
    BY DEF SingleOwner
  <2>3. /\ freelist' \in Seq(Nat)
        /\ Listed(freelist') = Listed(freelist) \cup {p}
        /\ NoDup(freelist')
    <3>1. freelist \in Seq(Nat) /\ NoDup(freelist)
      BY DEF SingleOwner
    <3> QED BY ONLY <3>1, <2>1, <2>2, LinkHead
  <2>4. TypeOK'
    BY <2>1, <2>3
  <2>5. SingleOwner'
    BY <2>1, <2>2, <2>3 DEF SingleOwner
  <2>6. Conservation'
    BY <2>1, <2>3 DEF Conservation
  <2>7. CursorSound'
    BY <2>1 DEF CursorSound
  <2>8. QED BY <2>4, <2>5, <2>6, <2>7
<1>11. CASE UNCHANGED vars
  BY <1>11 DEF vars, SingleOwner, Conservation, CursorSound
<1>12. QED
  BY <1>1, <1>2, <1>3, <1>4, <1>5, <1>6, <1>7, <1>8, <1>9, <1>10, <1>11 DEF Next

\* For every memory map and every batch size: the allocator is type correct,
\* no page has two owners, and the refill cursor neither loses nor invents a page.
THEOREM PmmInvariant == Spec => [](TypeOK /\ SingleOwner /\ Conservation /\ CursorSound)
<1>1. IInv => TypeOK /\ SingleOwner /\ Conservation /\ CursorSound
  BY DEF IInv
<1>2. QED BY <1>1, InvInit, InvStep, PTL DEF Spec

LEMMA PanicExhausted == IInv => PanicMeansExhausted
<1> SUFFICES ASSUME IInv, pc = "panic" PROVE owned = AllPages
  BY DEF PanicMeansExhausted
<1>1. freelist = <<>> /\ fillEntry = Len(MemMap) + 1
  BY DEF IInv, CursorSound
<1>2. fillOffset = 0
  BY <1>1, CountFacts DEF IInv, CursorSound, Entries, TypeOK
<1>3. Listed(freelist) = {}
  BY <1>1 DEF Listed
<1>4. QED BY <1>1, <1>2, <1>3, CursorEnd DEF IInv, Conservation

\* The panic "PMM: out of memory" means what it says, on every machine: every
\* whole page of usable memory above 1 MB is owned.
THEOREM PanicTheorem == Spec => []PanicMeansExhausted
BY InvInit, InvStep, PanicExhausted, PTL DEF Spec

\* Owned and listed pages are pages of the machine.
LEMMA PagesAreReal == IInv => owned \subseteq AllPages /\ Listed(freelist) \subseteq AllPages
<1>1. PassedPages(fillEntry, fillOffset) \subseteq AllPages
  BY DEF PassedPages, PassedFrames, AllPages
<1>2. QED BY <1>1 DEF IInv, Conservation

\* pmm.c implements PageAllocator.
THEOREM Refinement == Spec => ImplementsPageAllocator
<1>1. Init => Abstract!Init
  BY DEF Init, Abstract!Init
<1>2. IInv /\ [Next]_vars => [Abstract!Next]_(Abstract!vars)
  <2> SUFFICES ASSUME IInv, [Next]_vars PROVE [Abstract!Next]_(Abstract!vars)
    OBVIOUS
  <2> USE DEF Abstract!Next, Abstract!vars
  <2>pop. CASE Pop
    <3>1. Head(freelist) \in Listed(freelist) /\ Head(freelist) \notin owned
      BY <2>pop DEF Pop, Listed, IInv, TypeOK, SingleOwner
    <3>2. Head(freelist) \in AllPages \ owned
      BY <3>1, PagesAreReal
    <3>3. Abstract!Acquire
      BY <2>pop, <3>2 DEF Pop, Abstract!Acquire
    <3>4. QED BY <3>3
  <2>panic. CASE OutOfMemory
    <3>1. IInv'
      BY InvStep
    <3>2. PanicMeansExhausted'
      BY <3>1, PanicExhausted, PTL
    <3>3. owned = AllPages
      BY <2>panic, <3>2 DEF OutOfMemory, PanicMeansExhausted
    <3>4. Abstract!GiveUp
      BY <2>panic, <3>3 DEF OutOfMemory, Abstract!GiveUp
    <3>5. QED BY <3>4
  <2>free. ASSUME NEW p \in owned, FreePage(p) PROVE Abstract!Release
    BY <2>free DEF FreePage, Abstract!Release
  <2>silent. CASE \/ PmmInit \/ AllocCall \/ FillSkip \/ FillEnter
             \/ FillPush \/ FillLeave \/ FillDone
    <3>1. UNCHANGED owned /\ pc # "panic" /\ pc' # "panic"
      BY <2>silent DEF PmmInit, AllocCall, FillSkip, FillEnter, FillPush,
                  FillLeave, FillDone
    <3>2. QED BY <3>1
  <2> QED BY <2>silent, <2>pop, <2>panic, <2>free DEF Next, vars
<1>3. QED
  BY <1>1, <1>2, InvInit, InvStep, PTL DEF Spec, ImplementsPageAllocator, Abstract!Spec
=============================================================================
