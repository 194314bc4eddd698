----------------------------- MODULE RootSetProofs -----------------------------
(***************************************************************************)
(* The root set is complete, for any number of objects, threads, roots and *)
(* scanners and any static space.                                          *)
(***************************************************************************)
EXTENDS RootSet, FiniteSetTheorems, TLAPS

(***************************************************************************)
(* Threads and their objects.                                              *)
(***************************************************************************)
Threads ==
  /\ regs \in [Mutator -> SUBSET Object]
  /\ tpc \in [Mutator -> {"new", "starting", "live", "started", "run", "spin"}]
  /\ args \in [Mutator -> Object \cup {NULL}]
  /\ child \in [Mutator -> Mutator \cup {NULL}]
  /\ signalled \subseteq LiveThreads
  /\ ~Stopping => signalled = {}
  /\ \A m \in Mutator :
       /\ tpc[m] = "spin" <=> child[m] # NULL
       /\ args[m] # NULL => tpc[m] \in {"starting", "live", "started"}
       /\ regs[m] # {} => tpc[m] \in {"run", "spin"}

Phase ==
  /\ gcpc \in {"idle", "signal", "halt", "threads", "globals", "static", "scanners"}
  /\ index \in Nat
  /\ free \subseteq Object /\ white \subseteq Object \ free
  /\ gcpc \in {"idle", "signal", "halt"} => white = {}
  /\ gcpc = "static" <=> wpc # "idle"

(***************************************************************************)
(* The table of roots: full up to the count, and one entry further while   *)
(* somebody registers.                                                     *)
(***************************************************************************)
RootTable ==
  /\ global_roots \in [1..MAX_GLOBAL_ROOTS -> Root \cup {NULL}]
  /\ total_global_roots \in 0..MAX_GLOBAL_ROOTS
  /\ registered \subseteq Root
  /\ root \in [Root -> Object \cup {NULL}]
  /\ \A r \in Root \ registered : root[r] = NULL
  /\ registered = {global_roots[i] : i \in 1..total_global_roots}
  /\ IsFiniteSet(registered) /\ Cardinality(registered) = total_global_roots

Registering ==
  /\ rpc \in [Mutator -> {"run", "count", "scanner"}]
  /\ reg \in [Mutator -> Root \cup Nat \cup {NULL}]
  /\ \A m, n \in Mutator : rpc[m] = "count" /\ rpc[n] = "count" => m = n
  /\ \A m \in Mutator : rpc[m] = "count" =>
       /\ total_global_roots < MAX_GLOBAL_ROOTS
       /\ reg[m] = global_roots[total_global_roots + 1]
       /\ reg[m] \in Root \ registered
  /\ \A m \in Mutator : rpc[m] = "scanner" => reg[m] \in Nat /\ root_scanner # NULL

(* A scanner is there before it is counted. *)
Scanners ==
  /\ root_scanner \in Scanner \cup {NULL}
  /\ total_root_scanners \in Nat
  /\ hidden \in [Scanner -> Object \cup {NULL}]
  /\ total_root_scanners > 0 => root_scanner # NULL
  /\ total_root_scanners = 0 => \A f \in Scanner : hidden[f] = NULL
  /\ \A f \in Scanner : hidden[f] # NULL \/ f = root_scanner => f \in offered

(***************************************************************************)
(* The static space is a chain of objects, the last one perhaps unfinished.*)
(***************************************************************************)
Top == IF NobodyAllocates THEN static_frontier_ptr
       ELSE ptr[CHOOSE m \in Mutator : spc[m] # "run"]
End(h) == h + 1 + static[h].size

StaticTypes ==
  /\ static \in [StaticWord -> Object \cup {NULL} \cup HeaderWord]
  /\ static_frontier_ptr \in 0..last_static_ptr
  /\ spc \in [Mutator -> {"run", "header", "class"}]
  /\ ptr \in [Mutator -> Nat]
  /\ size \in [Mutator -> Nat]
  /\ class \in [Mutator -> {SC_NOPOINTERS, SC_POINTERS}]
  /\ statics \subseteq StaticWord

(* The object that a mutator has not finished. *)
Unfinished ==
  /\ \A m, n \in Mutator : spc[m] # "run" /\ spc[n] # "run" => m = n
  /\ \A m \in Mutator : spc[m] # "run" =>
       /\ ptr[m] + 1 + size[m] = static_frontier_ptr
       /\ static[ptr[m]] = IF spc[m] = "header" THEN NULL ELSE Header(size[m], SC_NOPOINTERS)

Chain ==
  /\ 0 \in statics \cup {Top}
  /\ \A h \in statics : static[h] \in HeaderWord /\ End(h) \in statics \cup {Top} /\ End(h) <= Top
  /\ \A h, k \in statics : h < k => End(h) <= k

(* Headers are where objects start, pointers in the bodies of finished ones. *)
Words ==
  /\ \A w \in StaticWord : static[w] \in HeaderWord =>
       w \in statics \/ \E m \in Mutator : spc[m] = "class" /\ w = ptr[m]
  /\ \A w \in StaticWord : static[w] \in Object =>
       \E h \in statics : w \in Body(h) /\ static[h].class = SC_POINTERS

StaticSpaceInv == StaticTypes /\ Unfinished /\ Chain /\ Words

(***************************************************************************)
(* The walk is at an object or has been through all it must visit.         *)
(***************************************************************************)
WalkInv ==
  /\ wpc \in {"idle", "header", "class", "scan", "lost"}
  /\ next \in Nat /\ end \in Nat /\ low \in Nat /\ length \in Nat
  /\ end <= static_frontier_ptr
  /\ wpc # "idle" =>
       /\ before \subseteq statics /\ \A h \in before : h < end
       /\ \/ before \subseteq visited
          \/ /\ wpc # "lost"
             /\ next \in statics \cup {Top}
             /\ \A h \in before : h \in visited \/ h >= next
  /\ wpc = "class" => /\ low > 0 /\ low - 1 \in StaticWord
                      /\ length # 0 => static[low - 1] \in HeaderWord /\ static[low - 1].size = length
  /\ wpc = "scan" => length # 0 /\ \E h \in statics : h < low /\ low + length = End(h)

(***************************************************************************)
(* What a client can get at, and where the collector has still to look.    *)
(***************************************************************************)
InStatics(o) == \E h \in statics : \E w \in Body(h) : static[w] = o
InGlobals(o) == \E r \in registered : root[r] = o
InScanner(o) == total_root_scanners > 0 /\ hidden[root_scanner] = o
InPlaces(o) == InStatics(o) \/ InGlobals(o) \/ InScanner(o)
Accessible(o) ==
  \/ InPlaces(o) \/ no_write_barrier_state = o
  \/ \E m \in Mutator : o \in regs[m] \/ args[m] = o

WordCopy == IF gcpc = "signal" THEN no_write_barrier_state ELSE saved_no_write_barrier_state

(* During a flip: what a thread holds after its handler ran. *)
HasCopy(o) == o \in saved \/ o = WordCopy \/ InPlaces(o)
Copied ==
  Stopping =>
    /\ \A m \in Mutator \ signalled : \A o \in regs[m] \ exposed : HasCopy(o)
    /\ gcpc = "halt" /\ no_write_barrier_state # NULL =>
         no_write_barrier_state \in {saved_no_write_barrier_state} \cup exposed

GlobalsAhead(o) ==
  /\ gcpc \in {"threads", "globals"}
  /\ \E i \in 1..total_global_roots :
       (gcpc = "globals" => i > index) /\ root[global_roots[i]] = o
StaticsAhead(o) ==
  \/ gcpc \in {"threads", "globals"} /\ InStatics(o)
  \/ /\ gcpc = "static"
     /\ \E h \in before : \E w \in Body(h) :
          /\ static[w] = o
          /\ h \notin visited \/ (wpc \in {"class", "scan"} /\ w \in low..(low + length - 1))
ScannerAhead(o) == (gcpc = "scanners" => index = 0) /\ InScanner(o)
Ahead(o) ==
  \/ gcpc = "threads" /\ o \in saved \cup {saved_no_write_barrier_state}
  \/ GlobalsAhead(o) \/ StaticsAhead(o) \/ ScannerAhead(o)

Marking == gcpc \in {"threads", "globals", "static", "scanners"}
WhiteAhead ==
  Marking =>
    \A o \in white \ exposed : Accessible(o) => Ahead(o)

NoneFree == \A o \in free \ exposed : ~Accessible(o)

WordInv ==
  /\ registered_word \in BOOLEAN
  /\ no_write_barrier_state \in Object \cup {NULL}
  /\ ~registered_word => no_write_barrier_state = NULL

Tables == RootTable /\ Registering /\ Scanners /\ WordInv
Space == StaticSpaceInv /\ WalkInv
RunInv == Threads /\ Phase /\ Tables /\ Space /\ Copied /\ WhiteAhead /\ NoneFree

Properties == TypeOK /\ NoRootRecycled /\ StaticComplete /\ RootTableExact /\ ScannerCallsValid

IInv == Properties /\ (status = "run" => RunInv)
-----------------------------------------------------------------------------
(***************************************************************************)
(* The static space.                                                       *)
(***************************************************************************)

(* What a header word says. *)
LEMMA HeaderFields ==
  /\ \A x \in HeaderWord : x.size \in 0..last_static_ptr /\ x.class \in {SC_NOPOINTERS, SC_POINTERS}
  /\ \A x \in HeaderWord : x # NULL /\ x \notin Object
  /\ NULL \notin Object
BY WordAssumption DEF HeaderWord

(* A header that is written is one. *)
LEMMA HeaderIs ==
  ASSUME NEW n \in 0..last_static_ptr, NEW c \in {SC_NOPOINTERS, SC_POINTERS}
  PROVE  Header(n, c) \in HeaderWord /\ Header(n, c).size = n /\ Header(n, c).class = c
BY DEF Header, HeaderWord

(* The end of the finished objects: the frontier, or the unfinished one. *)
TopFacts ==
  /\ NobodyAllocates => Top = static_frontier_ptr
  /\ \A m \in Mutator : spc[m] # "run" => Top = ptr[m]

(* The end of the finished part of the static space. *)
LEMMA TopIs ==
  ASSUME Unfinished
  PROVE  TopFacts
<1>1. NobodyAllocates => Top = static_frontier_ptr
  BY DEF Top
<1>2. ASSUME NEW m \in Mutator, spc[m] # "run"
      PROVE  Top = ptr[m]
  <2> DEFINE k == CHOOSE n \in Mutator : spc[n] # "run"
  <2>1. k \in Mutator /\ spc[k] # "run"
    BY <1>2
  <2>2. k = m
    BY <1>2, <2>1 DEF Unfinished
  <2> QED
    BY <1>2, <2>2 DEF Top, NobodyAllocates
<1> QED
  BY <1>1, <1>2 DEF TopFacts

(* It is in the space, in front of the frontier. *)
LEMMA TopBelow ==
  ASSUME StaticTypes, Unfinished
  PROVE  /\ Top \in Nat /\ Top <= static_frontier_ptr
         /\ ~NobodyAllocates => Top \in StaticWord
<1>1. CASE NobodyAllocates
  BY <1>1, TopIs, StaticAssumption DEF StaticTypes, TopFacts
<1>2. CASE ~NobodyAllocates
  <2>1. PICK m \in Mutator : spc[m] # "run"
    BY <1>2 DEF NobodyAllocates
  <2>2. Top = ptr[m] /\ ptr[m] \in Nat /\ size[m] \in Nat /\ ptr[m] + 1 + size[m] = static_frontier_ptr
    BY <2>1, TopIs DEF StaticTypes, Unfinished, TopFacts
  <2>3. static_frontier_ptr \in 0..last_static_ptr
    BY DEF StaticTypes
  <2> QED
    BY <1>2, <2>2, <2>3, StaticAssumption DEF StaticWord
<1> QED
  BY <1>1, <1>2

(* Finished objects lie in front of it, and no word is in two of them. *)
LEMMA Apart ==
  ASSUME StaticTypes, Unfinished, Chain
  PROVE  /\ \A h \in statics :
              /\ h \in Nat /\ static[h] \in HeaderWord /\ static[h].size \in 0..last_static_ptr
              /\ End(h) = h + 1 + static[h].size /\ End(h) \in Nat
              /\ h < End(h) /\ h < Top /\ End(h) <= Top /\ End(h) \in statics \cup {Top}
              /\ Body(h) = (h + 1)..(End(h) - 1)
         /\ \A h, k \in statics : \A w \in Body(h) : w \in Body(k) => h = k
<1>1. ASSUME NEW h \in statics
      PROVE  /\ h \in Nat /\ static[h] \in HeaderWord /\ static[h].size \in 0..last_static_ptr
             /\ End(h) = h + 1 + static[h].size /\ End(h) \in Nat
             /\ h < End(h) /\ h < Top /\ End(h) <= Top /\ End(h) \in statics \cup {Top}
             /\ Body(h) = (h + 1)..(End(h) - 1)
  <2>1. static[h] \in HeaderWord /\ End(h) <= Top /\ End(h) \in statics \cup {Top}
    BY DEF Chain
  <2>2. static[h].size \in 0..last_static_ptr
    BY <2>1, HeaderFields
  <2>3. h \in Nat
    BY StaticAssumption DEF StaticTypes, StaticWord
  <2>4. Top \in Nat
    BY TopBelow
  <2> QED
    BY <2>1, <2>2, <2>3, <2>4, StaticAssumption DEF End, Body
<1>2. ASSUME NEW h \in statics, NEW k \in statics, NEW w \in Body(h), w \in Body(k)
      PROVE  h = k
  <2>1. h < k => End(h) <= k
    BY DEF Chain
  <2>2. k < h => End(k) <= h
    BY DEF Chain
  <2>3. /\ h \in Nat /\ k \in Nat /\ End(h) \in Nat /\ End(k) \in Nat
        /\ Body(h) = (h + 1)..(End(h) - 1) /\ Body(k) = (k + 1)..(End(k) - 1)
    BY <1>1
  <2> QED
    BY <1>2, <2>1, <2>2, <2>3
<1> QED
  BY <1>1, <1>2

(* Bodies lie in the space. *)
LEMMA BodyInSpace ==
  ASSUME StaticSpaceInv
  PROVE  \A h \in statics : \A w \in Body(h) : w \in StaticWord
<1>1. ASSUME NEW h \in statics, NEW w \in Body(h)
      PROVE  w \in StaticWord
  <2>1. h \in Nat /\ End(h) \in Nat /\ Body(h) = (h + 1)..(End(h) - 1) /\ End(h) <= Top
    BY Apart DEF StaticSpaceInv
  <2>2. Top \in Nat /\ Top <= static_frontier_ptr /\ static_frontier_ptr \in 0..last_static_ptr
    BY TopBelow DEF StaticSpaceInv, StaticTypes
  <2> QED
    BY <2>1, <2>2, StaticAssumption DEF StaticWord
<1> QED
  BY <1>1

(* The frontier moves: what was its place is the unfinished object's. *)
LEMMA MoveFrontierStatic ==
  ASSUME StaticSpaceInv, WalkInv,
         NEW m \in Mutator, NEW n \in StaticSize, NEW c \in {SC_NOPOINTERS, SC_POINTERS},
         MoveFrontier(m, n, c)
  PROVE  StaticSpaceInv' /\ WalkInv'
<1> USE DEF StaticSpaceInv
<1>1. /\ spc[m] = "run" /\ NobodyAllocates
      /\ static_frontier_ptr + n + 1 <= last_static_ptr
      /\ static_frontier_ptr' = static_frontier_ptr + n + 1
      /\ ptr' = [ptr EXCEPT ![m] = static_frontier_ptr]
      /\ size' = [size EXCEPT ![m] = n]
      /\ class' = [class EXCEPT ![m] = c]
      /\ spc' = [spc EXCEPT ![m] = "header"]
      /\ static' = static /\ statics' = statics
      /\ wpc' = wpc /\ next' = next /\ end' = end /\ low' = low /\ length' = length
      /\ before' = before /\ visited' = visited
  BY DEF MoveFrontier, walkVars
<1>2. n \in Nat /\ static_frontier_ptr \in Nat /\ static_frontier_ptr \in StaticWord
  BY <1>1, StaticAssumption DEF StaticTypes, StaticWord
<1>3. StaticTypes'
  BY <1>1, <1>2, StaticAssumption DEF StaticTypes
<1>4. static[static_frontier_ptr] = NULL
  <2>1. static[static_frontier_ptr] \in Object \cup {NULL} \cup HeaderWord
    BY <1>2 DEF StaticTypes
  <2>2. Top = static_frontier_ptr
    BY <1>1, TopIs DEF TopFacts
  <2>3. static_frontier_ptr \notin statics
    BY <2>2, Apart, TopBelow
  <2>4. \A h \in statics : static_frontier_ptr \notin Body(h)
    BY <2>2, Apart, TopBelow
  <2>5. static[static_frontier_ptr] \notin HeaderWord
    BY <1>1, <1>2, <2>3 DEF Words, NobodyAllocates
  <2>6. static[static_frontier_ptr] \notin Object
    BY <1>2, <2>4 DEF Words
  <2> QED
    BY <2>1, <2>5, <2>6
<1>5. Unfinished'
  <2>1. \A k \in Mutator : spc'[k] # "run" => k = m
    BY <1>1 DEF NobodyAllocates, StaticTypes
  <2>2. spc'[m] = "header" /\ ptr'[m] = static_frontier_ptr /\ size'[m] = n
    BY <1>1 DEF StaticTypes
  <2> QED
    BY <1>1, <1>2, <1>4, <2>1, <2>2 DEF Unfinished
<1>6. Top' = Top /\ Top = static_frontier_ptr
  <2>1. Top = static_frontier_ptr
    BY <1>1, TopIs DEF TopFacts
  <2>2. TopFacts'
    BY <1>5, TopIs, PTL
  <2>3. spc'[m] # "run" /\ ptr'[m] = static_frontier_ptr
    BY <1>1 DEF StaticTypes
  <2> QED
    BY <2>1, <2>2, <2>3 DEF TopFacts
<1>7. Chain'
  BY <1>1, <1>6 DEF Chain, End
<1>8. Words'
  BY <1>1, <1>2 DEF Words, Body, StaticWord, NobodyAllocates, StaticTypes
<1>9. WalkInv'
  BY <1>1, <1>2, <1>6 DEF WalkInv, End
<1> QED
  BY <1>3, <1>5, <1>7, <1>8, <1>9

(* The size is written into a header that nobody can have read. *)
LEMMA WriteSizeStatic ==
  ASSUME StaticSpaceInv, WalkInv, NEW m \in Mutator, WriteSize(m)
  PROVE  /\ StaticSpaceInv' /\ WalkInv'
         /\ ptr[m] \notin statics /\ static[ptr[m]] = NULL
<1> USE DEF StaticSpaceInv
<1>1. /\ spc[m] = "header"
      /\ static' = [static EXCEPT ![ptr[m]] = Header(size[m], SC_NOPOINTERS)]
      /\ spc' = [spc EXCEPT ![m] = "class"]
      /\ static_frontier_ptr' = static_frontier_ptr /\ ptr' = ptr /\ size' = size
      /\ class' = class /\ statics' = statics
      /\ wpc' = wpc /\ next' = next /\ end' = end /\ low' = low /\ length' = length
      /\ before' = before /\ visited' = visited
  BY DEF WriteSize, walkVars
<1>2. Top = ptr[m]
  BY <1>1, TopIs DEF TopFacts
<1>3. ptr[m] \in StaticWord /\ ptr[m] \in Nat /\ size[m] \in 0..last_static_ptr
  <2>1. ptr[m] \in Nat /\ size[m] \in Nat /\ ptr[m] + 1 + size[m] = static_frontier_ptr
    BY <1>1 DEF StaticTypes, Unfinished
  <2>2. static_frontier_ptr \in 0..last_static_ptr
    BY DEF StaticTypes
  <2> QED
    BY <2>1, <2>2, StaticAssumption DEF StaticWord
<1>4. ptr[m] \notin statics /\ static[ptr[m]] = NULL
  <2>1. Top \notin statics
    BY Apart, TopBelow
  <2> QED
    BY <1>1, <1>2, <2>1 DEF Unfinished
<1>5. Header(size[m], SC_NOPOINTERS) \in HeaderWord /\ Header(size[m], SC_NOPOINTERS) \notin Object
  BY <1>3, HeaderIs, HeaderFields
<1>6. /\ static'[ptr[m]] = Header(size[m], SC_NOPOINTERS)
      /\ \A w \in StaticWord \ {ptr[m]} : static'[w] = static[w]
  BY <1>1, <1>3 DEF StaticTypes
<1>7. StaticTypes'
  BY <1>1, <1>5 DEF StaticTypes
<1>8. Unfinished'
  <2>1. \A k \in Mutator : spc'[k] # "run" => k = m
    BY <1>1 DEF Unfinished, StaticTypes
  <2>2. spc'[m] = "class"
    BY <1>1 DEF StaticTypes
  <2>3. ptr[m] + 1 + size[m] = static_frontier_ptr
    BY <1>1 DEF Unfinished
  <2> QED
    BY <1>1, <1>6, <2>1, <2>2, <2>3 DEF Unfinished
<1>9. Top' = Top
  <2>1. TopFacts'
    BY <1>8, TopIs, PTL
  <2> QED
    BY <1>1, <1>2, <2>1 DEF TopFacts, StaticTypes
<1>10. \A h \in statics : static'[h] = static[h]
  BY <1>4, <1>6 DEF StaticTypes
<1>11. \A h \in statics : End(h)' = End(h) /\ Body(h)' = Body(h)
  BY <1>10 DEF End, Body
<1>12. Chain'
  BY <1>1, <1>9, <1>10, <1>11 DEF Chain
<1>13. Words'
  <2>1. ASSUME NEW w \in StaticWord, static'[w] \in HeaderWord
        PROVE  w \in statics' \/ \E k \in Mutator : spc'[k] = "class" /\ w = ptr'[k]
    <3>1. CASE w = ptr[m]
      BY <1>1, <3>1 DEF StaticTypes
    <3>2. CASE w # ptr[m]
      <4>1. static[w] \in HeaderWord
        BY <1>6, <2>1, <3>2
      <4>2. w \in statics \/ \E k \in Mutator : spc[k] = "class" /\ w = ptr[k]
        BY <4>1 DEF Words
      <4> QED
        BY <1>1, <4>2 DEF StaticTypes
    <3> QED
      BY <3>1, <3>2
  <2>2. ASSUME NEW w \in StaticWord, static'[w] \in Object
        PROVE  \E h \in statics' : w \in Body(h)' /\ static'[h].class = SC_POINTERS
    <3>1. static[w] \in Object
      BY <1>5, <1>6, <2>2
    <3>2. PICK h \in statics : w \in Body(h) /\ static[h].class = SC_POINTERS
      BY <3>1 DEF Words
    <3> QED
      BY <1>1, <1>10, <1>11, <3>2
  <2> QED
    BY <2>1, <2>2 DEF Words
<1>14. WalkInv'
  <2>1. wpc = "class" /\ length # 0 => static'[low - 1] = static[low - 1]
    <3>1. wpc = "class" /\ length # 0 => low - 1 # ptr[m]
      BY <1>4, HeaderFields DEF WalkInv
    <3> QED
      BY <1>6, <3>1 DEF WalkInv
  <2> QED
    BY <1>1, <1>9, <1>11, <2>1 DEF WalkInv
<1> QED
  BY <1>4, <1>7, <1>8, <1>12, <1>13, <1>14

(* The class is written, and the object is finished. *)
LEMMA FinishStaticStatic ==
  ASSUME StaticSpaceInv, WalkInv, NEW m \in Mutator, FinishStatic(m)
  PROVE  /\ StaticSpaceInv' /\ WalkInv'
         /\ \A h \in statics : static'[h] = static[h] /\ Body(h)' = Body(h)
         /\ \A w \in StaticWord : static[w] \in Object \/ static'[w] \in Object => static'[w] = static[w]
         /\ \A w \in Body(ptr[m])' : w \in StaticWord /\ static'[w] \notin Object
         /\ \A h \in statics : \A w \in Body(h) : w \in StaticWord
<1> USE DEF StaticSpaceInv
<1>1. /\ spc[m] = "class"
      /\ static' = [static EXCEPT ![ptr[m]] = Header(size[m], class[m])]
      /\ statics' = statics \cup {ptr[m]}
      /\ spc' = [spc EXCEPT ![m] = "run"]
      /\ static_frontier_ptr' = static_frontier_ptr /\ ptr' = ptr /\ size' = size
      /\ class' = class
      /\ wpc' = wpc /\ next' = next /\ end' = end /\ low' = low /\ length' = length
      /\ before' = before /\ visited' = visited
  BY DEF FinishStatic, walkVars
<1>2. Top = ptr[m]
  BY <1>1, TopIs DEF TopFacts
<1>3. /\ ptr[m] \in StaticWord /\ ptr[m] \in Nat /\ size[m] \in 0..last_static_ptr
      /\ ptr[m] + 1 + size[m] = static_frontier_ptr /\ static_frontier_ptr \in 0..last_static_ptr
  <2>1. ptr[m] \in Nat /\ size[m] \in Nat /\ ptr[m] + 1 + size[m] = static_frontier_ptr
    BY <1>1 DEF StaticTypes, Unfinished
  <2>2. static_frontier_ptr \in 0..last_static_ptr
    BY DEF StaticTypes
  <2> QED
    BY <2>1, <2>2, StaticAssumption DEF StaticWord
<1>4. ptr[m] \notin statics /\ static[ptr[m]] = Header(size[m], SC_NOPOINTERS)
  <2>1. Top \notin statics
    BY Apart, TopBelow
  <2> QED
    BY <1>1, <1>2, <2>1 DEF Unfinished
<1>5. /\ Header(size[m], class[m]) \in HeaderWord /\ Header(size[m], class[m]) \notin Object
      /\ Header(size[m], class[m]).size = size[m]
      /\ Header(size[m], SC_NOPOINTERS) \in HeaderWord /\ Header(size[m], SC_NOPOINTERS) \notin Object
      /\ Header(size[m], SC_NOPOINTERS).size = size[m]
  <2>1. class[m] \in {SC_NOPOINTERS, SC_POINTERS}
    BY DEF StaticTypes
  <2> QED
    BY <1>3, <2>1, HeaderIs, HeaderFields
<1>6. /\ static'[ptr[m]] = Header(size[m], class[m])
      /\ \A w \in StaticWord \ {ptr[m]} : static'[w] = static[w]
  BY <1>1, <1>3 DEF StaticTypes
<1>7. StaticTypes'
  BY <1>1, <1>3, <1>5 DEF StaticTypes
<1>8. Unfinished' /\ NobodyAllocates'
  <2>1. \A k \in Mutator : spc'[k] = "run"
    BY <1>1 DEF Unfinished, StaticTypes
  <2> QED
    BY <2>1 DEF Unfinished, NobodyAllocates
<1>9. Top' = static_frontier_ptr
  <2>1. TopFacts'
    BY <1>8, TopIs, PTL
  <2> QED
    BY <1>1, <1>8, <2>1 DEF TopFacts
<1>10. \A h \in statics : static'[h] = static[h]
  BY <1>4, <1>6 DEF StaticTypes
<1>11. \A h \in statics : End(h)' = End(h) /\ Body(h)' = Body(h)
  BY <1>10 DEF End, Body
<1>12. End(ptr[m])' = static_frontier_ptr /\ Body(ptr[m])' = (ptr[m] + 1)..(static_frontier_ptr - 1)
  <2>1. static'[ptr[m]].size = size[m]
    BY <1>5, <1>6
  <2>2. PICK p : p = ptr[m]
    OBVIOUS
  <2>3. End(p)' = p + 1 + static'[p].size /\ Body(p)' = (p + 1)..(p + static'[p].size)
    BY DEF End, Body
  <2>4. End(ptr[m])' = End(p)' /\ Body(ptr[m])' = Body(p)'
    BY <1>1, <2>2 DEF End, Body
  <2> QED
    BY <1>3, <2>1, <2>2, <2>3, <2>4
<1>13. \A h \in statics : h \in Nat /\ End(h) \in Nat /\ h < End(h) /\ End(h) <= ptr[m] /\ End(h) \in statics \cup {ptr[m]}
                          /\ Body(h) = (h + 1)..(End(h) - 1)
  BY <1>2, Apart
<1>14. Chain'
  <2>1. 0 \in statics' \cup {Top'}
    BY <1>1, <1>2 DEF Chain
  <2>2. ASSUME NEW h \in statics'
        PROVE  static'[h] \in HeaderWord /\ End(h)' \in statics' \cup {Top'} /\ End(h)' <= Top'
    <3>1. CASE h = ptr[m]
      BY <1>1, <1>3, <1>5, <1>6, <1>9, <1>12, <3>1
    <3>2. CASE h \in statics
      <4>1. static'[h] \in HeaderWord
        BY <1>10, <3>2 DEF Chain
      <4> QED
        BY <4>1, <1>1, <1>3, <1>9, <1>11, <1>13, <3>2
    <3> QED
      BY <1>1, <3>1, <3>2
  <2>3. ASSUME NEW h \in statics', NEW k \in statics', h < k
        PROVE  End(h)' <= k
    <3>0. h \in Nat /\ k \in Nat /\ k <= ptr[m]
      <4>1. \A j \in statics : j \in Nat /\ j <= ptr[m]
        BY <1>3, <1>13
      <4> QED
        BY <1>1, <1>3, <4>1
    <3>1. h \in statics
      <4>1. h # ptr[m]
        BY <1>3, <2>3, <3>0
      <4> QED
        BY <1>1, <4>1
    <3>2. CASE k \in statics
      BY <1>11, <2>3, <3>1, <3>2 DEF Chain
    <3>3. CASE k = ptr[m]
      BY <1>11, <1>13, <3>1, <3>3
    <3> QED
      BY <1>1, <3>2, <3>3
  <2> QED
    BY <2>1, <2>2, <2>3 DEF Chain
<1>15. Words'
  <2>1. ASSUME NEW w \in StaticWord, static'[w] \in HeaderWord
        PROVE  w \in statics'
    <3>1. CASE w = ptr[m]
      BY <1>1, <3>1
    <3>2. CASE w # ptr[m]
      <4>1. static[w] \in HeaderWord
        BY <1>6, <2>1, <3>2
      <4>2. w \in statics \/ \E k \in Mutator : spc[k] = "class" /\ w = ptr[k]
        BY <4>1 DEF Words
      <4>3. \A k \in Mutator : spc[k] = "class" => k = m
        BY <1>1 DEF Unfinished
      <4> QED
        BY <1>1, <3>2, <4>2, <4>3
    <3> QED
      BY <3>1, <3>2
  <2>2. ASSUME NEW w \in StaticWord, static'[w] \in Object
        PROVE  \E h \in statics' : w \in Body(h)' /\ static'[h].class = SC_POINTERS
    <3>1. static[w] \in Object
      BY <1>5, <1>6, <2>2
    <3>2. PICK h \in statics : w \in Body(h) /\ static[h].class = SC_POINTERS
      BY <3>1 DEF Words
    <3> QED
      BY <1>1, <1>10, <1>11, <3>2
  <2> QED
    BY <2>1, <2>2 DEF Words
<1>16. WalkInv'
  <2>1. wpc = "class" /\ length # 0 => static'[low - 1] \in HeaderWord /\ static'[low - 1].size = static[low - 1].size
    <3>1. CASE wpc = "class" /\ length # 0 /\ low - 1 = ptr[m]
      BY <1>4, <1>5, <1>6, <3>1
    <3>2. CASE wpc = "class" /\ length # 0 /\ low - 1 # ptr[m]
      BY <1>6, <3>2 DEF WalkInv
    <3> QED
      BY <3>1, <3>2
  <2>2. wpc = "scan" => length # 0 /\ \E h \in statics' : h < low /\ low + length = End(h)'
    BY <1>1, <1>11 DEF WalkInv
  <2>3. next \in statics \cup {Top} => next \in statics' \cup {Top'}
    BY <1>1, <1>2
  <2> QED
    BY <1>1, <2>1, <2>2, <2>3 DEF WalkInv
<1>17. \A w \in StaticWord : static[w] \in Object \/ static'[w] \in Object => static'[w] = static[w]
  BY <1>4, <1>5, <1>6
<1>18. \A w \in Body(ptr[m])' : w \in StaticWord /\ static'[w] \notin Object
  <2>1. ASSUME NEW w \in Body(ptr[m])'
        PROVE  w \in StaticWord /\ static'[w] \notin Object
    <3>1. w \in StaticWord /\ w > ptr[m] /\ w \in Nat
      BY <1>3, <1>12, <2>1, StaticAssumption DEF StaticWord
    <3>2. \A h \in statics : w \notin Body(h)
      BY <1>3, <1>13, <3>1
    <3>3. static[w] \notin Object
      BY <3>1, <3>2 DEF Words
    <3> QED
      BY <1>17, <3>1, <3>3
  <2> QED
    BY <2>1
<1>19. \A h \in statics : \A w \in Body(h) : w \in StaticWord
  BY <1>3, <1>13, StaticAssumption DEF StaticWord
<1> QED
  BY <1>7, <1>8, <1>10, <1>11, <1>14, <1>15, <1>16, <1>17, <1>18, <1>19

(* A client stores into a word of a finished object that nobody has used. *)
LEMMA StoreStaticStatic ==
  ASSUME StaticSpaceInv, WalkInv, NEW m \in Mutator, NEW k \in statics, NEW v \in StaticWord,
         NEW o \in Object, StoreStatic(m, k, v, o)
  PROVE  /\ StaticSpaceInv' /\ WalkInv'
         /\ \A h \in statics : static'[h] = static[h] /\ Body(h)' = Body(h)
         /\ static[v] = NULL /\ static'[v] = o
         /\ \A w \in StaticWord \ {v} : static'[w] = static[w]
         /\ \A h \in statics : \A w \in Body(h) : w \in StaticWord
<1> USE DEF StaticSpaceInv
<1>1. /\ static[k].class = SC_POINTERS /\ v \in Body(k) /\ static[v] = NULL
      /\ static' = [static EXCEPT ![v] = o]
      /\ static_frontier_ptr' = static_frontier_ptr /\ spc' = spc /\ ptr' = ptr /\ size' = size
      /\ class' = class /\ statics' = statics
      /\ wpc' = wpc /\ next' = next /\ end' = end /\ low' = low /\ length' = length
      /\ before' = before /\ visited' = visited
  BY DEF StoreStatic, walkVars, allocVars
<1>2. static'[v] = o /\ \A w \in StaticWord \ {v} : static'[w] = static[w]
  BY <1>1 DEF StaticTypes
<1>3. \A h \in statics : static'[h] = static[h]
  <2>1. v \notin statics
    BY <1>1, HeaderFields DEF Chain
  <2> QED
    BY <1>2, <2>1 DEF StaticTypes
<1>4. \A h \in statics : End(h)' = End(h) /\ Body(h)' = Body(h)
  BY <1>3 DEF End, Body
<1>5. \A j \in Mutator : spc[j] # "run" => ptr[j] \in StaticWord /\ ptr[j] # v
  <2>1. ASSUME NEW j \in Mutator, spc[j] # "run"
        PROVE  ptr[j] \in StaticWord /\ ptr[j] # v
    <3>1. Top = ptr[j] /\ Top \in StaticWord
      BY <2>1, TopIs, TopBelow DEF TopFacts, NobodyAllocates
    <3>2. v < Top
      <4>1. k \in Nat /\ End(k) \in Nat /\ Body(k) = (k + 1)..(End(k) - 1) /\ End(k) <= Top
        BY Apart
      <4>2. Top \in Nat
        BY TopBelow
      <4> QED
        BY <1>1, <4>1, <4>2
    <3> QED
      BY <3>1, <3>2, TopBelow
  <2> QED
    BY <2>1
<1>6. StaticTypes'
  BY <1>1 DEF StaticTypes
<1>7. Unfinished'
  BY <1>1, <1>2, <1>5 DEF Unfinished
<1>8. Top' = Top
  BY <1>1 DEF Top, NobodyAllocates
<1>9. Chain'
  BY <1>1, <1>3, <1>4, <1>8 DEF Chain
<1>10. Words'
  <2>1. ASSUME NEW w \in StaticWord, static'[w] \in HeaderWord
        PROVE  w \in statics' \/ \E j \in Mutator : spc'[j] = "class" /\ w = ptr'[j]
    <3>1. static[w] \in HeaderWord
      BY <1>2, <2>1, HeaderFields
    <3> QED
      BY <1>1, <3>1 DEF Words
  <2>2. ASSUME NEW w \in StaticWord, static'[w] \in Object
        PROVE  \E h \in statics' : w \in Body(h)' /\ static'[h].class = SC_POINTERS
    <3>1. CASE w = v
      BY <1>1, <1>3, <1>4, <3>1
    <3>2. CASE w # v
      <4>1. PICK h \in statics : w \in Body(h) /\ static[h].class = SC_POINTERS
        BY <1>2, <2>2, <3>2 DEF Words
      <4> QED
        BY <1>1, <1>3, <1>4, <4>1
    <3> QED
      BY <3>1, <3>2
  <2> QED
    BY <2>1, <2>2 DEF Words
<1>11. WalkInv'
  <2>1. wpc = "class" /\ length # 0 => static'[low - 1] = static[low - 1]
    <3>1. wpc = "class" /\ length # 0 => low - 1 # v
      BY <1>1, HeaderFields DEF WalkInv
    <3> QED
      BY <1>2, <3>1 DEF WalkInv
  <2> QED
    BY <1>1, <1>4, <1>8, <2>1 DEF WalkInv
<1>12. \A h \in statics : \A w \in Body(h) : w \in StaticWord
  BY BodyInSpace
<1> QED
  BY <1>1, <1>2, <1>3, <1>4, <1>6, <1>7, <1>9, <1>10, <1>11, <1>12

(* Steps that leave the static space alone, and the walk. *)
LEMMA StaticFrame ==
  ASSUME StaticSpaceInv, UNCHANGED <<static, allocVars>>
  PROVE  StaticSpaceInv' /\ Top' = Top /\ \A h \in statics : End(h)' = End(h) /\ Body(h)' = Body(h)
<1>1. /\ static' = static /\ static_frontier_ptr' = static_frontier_ptr /\ spc' = spc /\ ptr' = ptr
      /\ size' = size /\ class' = class /\ statics' = statics
  BY DEF allocVars
<1>2. Top' = Top
  BY <1>1 DEF Top, NobodyAllocates
<1>3. \A h \in statics : End(h)' = End(h) /\ Body(h)' = Body(h)
  BY <1>1 DEF End, Body
<1>4. StaticTypes'
  BY <1>1 DEF StaticTypes, StaticSpaceInv
<1>5. Unfinished'
  BY <1>1 DEF Unfinished, StaticSpaceInv
<1>6. Chain'
  BY <1>1, <1>2, <1>3 DEF Chain, StaticSpaceInv
<1>7. Words'
  BY <1>1, <1>3 DEF Words, StaticSpaceInv
<1> QED
  BY <1>2, <1>3, <1>4, <1>5, <1>6, <1>7 DEF StaticSpaceInv

(* ... and steps that leave the walk alone too. *)
LEMMA WalkFrame ==
  ASSUME StaticSpaceInv, WalkInv, UNCHANGED staticVars
  PROVE  StaticSpaceInv' /\ WalkInv'
<1>1. /\ static' = static /\ static_frontier_ptr' = static_frontier_ptr /\ statics' = statics
      /\ wpc' = wpc /\ next' = next /\ end' = end /\ low' = low /\ length' = length
      /\ before' = before /\ visited' = visited
  BY DEF staticVars
<1>2. UNCHANGED <<static, allocVars>>
  BY DEF staticVars, allocVars
<1>3. StaticSpaceInv' /\ Top' = Top /\ \A h \in statics : End(h)' = End(h)
  BY <1>2, StaticFrame
<1>4. WalkInv'
  BY <1>1, <1>3 DEF WalkInv
<1> QED
  BY <1>3, <1>4

(***************************************************************************)
(* The walk.                                                               *)
(***************************************************************************)

(* It starts at the first object, or at the end of none. *)
LEMMA StartWalkWalk ==
  ASSUME StaticSpaceInv, WalkInv, StartWalk
  PROVE  StaticSpaceInv' /\ WalkInv'
<1>1. /\ next' = 0 /\ end' = static_frontier_ptr /\ before' = statics /\ visited' = {}
      /\ wpc' = "header" /\ low' = low /\ length' = length
      /\ static' = static /\ statics' = statics /\ static_frontier_ptr' = static_frontier_ptr
  BY DEF StartWalk, allocVars
<1>2. StaticSpaceInv' /\ Top' = Top
  BY StaticFrame DEF StartWalk
<1>3. \A h \in statics : h \in Nat /\ h < static_frontier_ptr
  <2>1. Top \in Nat /\ Top <= static_frontier_ptr /\ static_frontier_ptr \in Nat
    BY TopBelow, StaticAssumption DEF StaticSpaceInv, StaticTypes
  <2>2. \A h \in statics : h \in Nat /\ h < Top
    BY Apart DEF StaticSpaceInv
  <2> QED
    BY <2>1, <2>2
<1>4. 0 \in statics \cup {Top}
  BY DEF StaticSpaceInv, Chain
<1>5. static_frontier_ptr \in Nat
  BY StaticAssumption DEF StaticSpaceInv, StaticTypes
<1>6. WalkInv'
  BY <1>1, <1>2, <1>3, <1>4, <1>5 DEF WalkInv
<1> QED
  BY <1>2, <1>6

(***************************************************************************)
(* From a finished object it goes to the next.  Once it has left them it   *)
(* has been through all it must visit.                                     *)
(***************************************************************************)
LEMMA ReadSizeWalk ==
  ASSUME StaticSpaceInv, WalkInv, ReadSize
  PROVE  /\ StaticSpaceInv' /\ WalkInv'
         /\ \A h \in before \ visited :
              \/ h \notin visited'
              \/ wpc' = "class" /\ low' = h + 1 /\ length' = static[h].size
<1>1. /\ wpc = "header" /\ next < end /\ low' = next + 1
      /\ static' = static /\ statics' = statics /\ static_frontier_ptr' = static_frontier_ptr
      /\ end' = end /\ before' = before
  BY DEF ReadSize, allocVars
<1>2. StaticSpaceInv' /\ Top' = Top /\ \A h \in statics : End(h)' = End(h)
  BY StaticFrame DEF ReadSize
<1>3. /\ next \in StaticWord /\ next \in Nat /\ end \in Nat /\ end <= static_frontier_ptr
      /\ static_frontier_ptr \in 0..last_static_ptr
      /\ static[next] \in Object \cup {NULL} \cup HeaderWord
  <2>1. next \in Nat /\ end \in Nat /\ end <= static_frontier_ptr /\ static_frontier_ptr \in 0..last_static_ptr
    BY DEF WalkInv, StaticSpaceInv, StaticTypes
  <2>2. next \in StaticWord
    BY <1>1, <2>1, StaticAssumption DEF StaticWord
  <2> QED
    BY <2>1, <2>2 DEF StaticSpaceInv, StaticTypes
<1>4. before \subseteq statics /\ \A h \in before : h < end
  BY <1>1 DEF WalkInv
<1>5. before \subseteq visited \/ (next \in statics /\ \A h \in before : h \in visited \/ h >= next)
  <2>1. CASE next = Top /\ \A h \in before : h \in visited \/ h >= next
    <3>1. \A h \in before : h \in Nat /\ h < Top
      BY <1>4, Apart DEF StaticSpaceInv
    <3> QED
      BY <1>3, <2>1, <3>1
  <2> QED
    BY <1>1, <2>1 DEF WalkInv
<1>6. CASE static[next] \in Object
  <2>1. wpc' = "lost" /\ next' = next /\ length' = length /\ visited' = visited
    BY <1>6 DEF ReadSize, IsPointer
  <2>2. before \subseteq visited
    <3>1. next \notin statics
      BY <1>6, Apart, HeaderFields DEF StaticSpaceInv
    <3> QED
      BY <1>5, <3>1
  <2>3. WalkInv'
    BY <1>1, <1>2, <1>3, <1>4, <2>1, <2>2 DEF WalkInv
  <2> QED
    BY <1>2, <2>2, <2>3
<1>7. CASE static[next] \notin Object
  <2> DEFINE n == IF static[next] = NULL THEN 0 ELSE static[next].size
  <2>1. length' = n /\ next' = next + 1 + n /\ visited' = visited \cup {next} /\ wpc' = "class"
    BY <1>7 DEF ReadSize, IsPointer
  <2>2. n \in Nat /\ (n # 0 => static[next] \in HeaderWord /\ static[next].size = n)
    <3>1. static[next] \in HeaderWord => static[next].size \in 0..last_static_ptr
      BY HeaderFields
    <3> QED
      BY <1>3, <1>7, <3>1, StaticAssumption
  <2>3. next \in statics => n = static[next].size /\ next' = End(next) /\ next' \in statics \cup {Top}
    <3>1. next \in statics => /\ static[next] \in HeaderWord /\ static[next].size \in Nat
                              /\ End(next) = next + 1 + static[next].size /\ End(next) \in statics \cup {Top}
      BY Apart, StaticAssumption DEF StaticSpaceInv
    <3>2. next \in statics => n = static[next].size
      BY <3>1, HeaderFields
    <3> QED
      BY <2>1, <3>1, <3>2
  <2>4. \/ before \subseteq visited'
        \/ /\ next' \in statics' \cup {Top'}
           /\ \A h \in before : h \in visited' \/ h >= next'
    <3>1. CASE before \subseteq visited
      BY <2>1, <3>1
    <3>2. CASE next \in statics /\ \A h \in before : h \in visited \/ h >= next
      <4>1. ASSUME NEW h \in before
            PROVE  h \in visited' \/ h >= next'
        <5>1. h \in Nat /\ h \in statics
          BY <1>4, Apart DEF StaticSpaceInv
        <5>2. next < h => End(next) <= h
          BY <3>2, <5>1 DEF StaticSpaceInv, Chain
        <5>3. next' \in Nat
          BY <1>3, <2>1, <2>2
        <5> QED
          BY <1>3, <2>1, <2>3, <3>2, <5>1, <5>2, <5>3
      <4> QED
        BY <1>1, <1>2, <2>3, <3>2, <4>1
    <3> QED
      BY <1>5, <3>1, <3>2
  <2>5. WalkInv'
    <3>1. low' - 1 = next /\ low' \in Nat /\ low' > 0 /\ next' \in Nat /\ length' \in Nat
      BY <1>1, <1>3, <2>1, <2>2
    <3> HIDE DEF n
    <3> QED
      BY <1>1, <1>2, <1>3, <1>4, <2>1, <2>2, <2>4, <3>1 DEF WalkInv
  <2>6. ASSUME NEW h \in before \ visited, h \in visited'
        PROVE  wpc' = "class" /\ low' = h + 1 /\ length' = static[h].size
    <3>1. h = next
      BY <2>1, <2>6
    <3> QED
      BY <1>1, <1>4, <2>1, <2>3, <3>1
  <2> QED
    BY <1>2, <2>5, <2>6
<1> QED
  BY <1>6, <1>7

(***************************************************************************)
(* It scans the body of a finished object only, and does not pass over one *)
(* that has a pointer in it.                                               *)
(***************************************************************************)
LEMMA ReadClassWalk ==
  ASSUME StaticSpaceInv, WalkInv, ReadClass
  PROVE  /\ StaticSpaceInv' /\ WalkInv'
         /\ \A h \in statics : \A w \in Body(h) :
              static[w] \in Object /\ w \in low..(low + length - 1) => wpc' = "scan"
<1>1. /\ wpc = "class"
      /\ wpc' = IF length > 0 /\ static[low - 1] # NULL /\ static[low - 1] \notin Object
                     /\ static[low - 1].class = SC_POINTERS
                THEN "scan" ELSE "header"
      /\ static' = static /\ statics' = statics /\ static_frontier_ptr' = static_frontier_ptr
      /\ next' = next /\ end' = end /\ low' = low /\ length' = length
      /\ before' = before /\ visited' = visited
  BY DEF ReadClass, allocVars, IsPointer
<1>2. StaticSpaceInv' /\ Top' = Top /\ \A h \in statics : End(h)' = End(h)
  BY StaticFrame DEF ReadClass
<1>3. /\ low \in Nat /\ low > 0 /\ low - 1 \in StaticWord /\ length \in Nat
      /\ length # 0 => static[low - 1] \in HeaderWord /\ static[low - 1].size = length
  BY <1>1 DEF WalkInv
<1>4. wpc' = "scan" => length # 0 /\ low - 1 \in statics /\ low + length = End(low - 1)
  <2> SUFFICES ASSUME wpc' = "scan"
               PROVE  length # 0 /\ low - 1 \in statics /\ low + length = End(low - 1)
    OBVIOUS
  <2>1. length # 0 /\ static[low - 1].class = SC_POINTERS
    BY <1>1, <1>3
  <2>2. static[low - 1] \in HeaderWord /\ static[low - 1].size = length
    BY <1>3, <2>1
  <2>3. low - 1 \in statics
    <3>1. SUFFICES ASSUME NEW m \in Mutator, spc[m] = "class", low - 1 = ptr[m]
                   PROVE  FALSE
      BY <1>3, <2>2 DEF StaticSpaceInv, Words
    <3>2. static[ptr[m]] = Header(size[m], SC_NOPOINTERS)
      BY <3>1 DEF StaticSpaceInv, Unfinished
    <3> QED
      BY <2>1, <3>1, <3>2 DEF Header, SC_NOPOINTERS, SC_POINTERS
  <2> QED
    BY <1>3, <2>1, <2>2, <2>3 DEF End
<1>5. WalkInv'
  <2>1. wpc' = "scan" => length # 0 /\ \E h \in statics : h < low /\ low + length = End(h)
    BY <1>3, <1>4
  <2>2. wpc' \in {"scan", "header"}
    BY <1>1
  <2> QED
    BY <1>1, <1>2, <2>1, <2>2 DEF WalkInv
<1>6. ASSUME NEW h \in statics, NEW w \in Body(h), static[w] \in Object, w \in low..(low + length - 1)
      PROVE  wpc' = "scan"
  <2>1. length # 0
    BY <1>3, <1>6
  <2>2. static[low - 1] \in HeaderWord /\ static[low - 1].size = length
    BY <1>3, <2>1
  <2>3. /\ h \in Nat /\ End(h) \in Nat /\ Body(h) = (h + 1)..(End(h) - 1) /\ End(h) <= Top
        /\ Top \in Nat /\ Top <= static_frontier_ptr /\ static_frontier_ptr \in 0..last_static_ptr
    BY Apart, TopBelow DEF StaticSpaceInv, StaticTypes
  <2>4. w \in StaticWord /\ w < Top /\ w \in Nat
    BY <2>3, StaticAssumption DEF StaticWord
  <2>5. low - 1 \in statics
    <3>1. SUFFICES ASSUME NEW m \in Mutator, spc[m] = "class", low - 1 = ptr[m]
                   PROVE  FALSE
      BY <1>3, <2>2 DEF StaticSpaceInv, Words
    <3>2. Top = ptr[m]
      BY <3>1, TopIs DEF StaticSpaceInv, TopFacts
    <3> QED
      BY <1>3, <1>6, <2>4, <3>1, <3>2
  <2>6. w \in Body(low - 1)
    BY <1>3, <1>6, <2>2 DEF Body
  <2>7. PICK k \in statics : w \in Body(k) /\ static[k].class = SC_POINTERS
    BY <1>6, <2>4 DEF StaticSpaceInv, Words
  <2>8. k = low - 1
    BY <2>5, <2>6, <2>7, Apart DEF StaticSpaceInv
  <2> QED
    BY <1>1, <1>3, <2>1, <2>2, <2>7, <2>8, HeaderFields
<1> QED
  BY <1>2, <1>5, <1>6

(* It goes through a body to its end. *)
LEMMA ScanWordWalk ==
  ASSUME StaticSpaceInv, WalkInv, ScanWord
  PROVE  StaticSpaceInv' /\ WalkInv' /\ low \in Nat /\ length \in Nat \ {0}
<1>1. /\ wpc = "scan" /\ low' = low + 1 /\ length' = length - 1
      /\ wpc' = IF length = 1 THEN "header" ELSE "scan"
      /\ static' = static /\ statics' = statics /\ static_frontier_ptr' = static_frontier_ptr
      /\ next' = next /\ end' = end /\ before' = before /\ visited' = visited
  BY DEF ScanWord, allocVars
<1>2. StaticSpaceInv' /\ Top' = Top /\ \A h \in statics : End(h)' = End(h)
  BY StaticFrame DEF ScanWord
<1>3. low \in Nat /\ length \in Nat /\ length # 0
  BY <1>1 DEF WalkInv
<1>4. PICK h \in statics : h < low /\ low + length = End(h)
  BY <1>1 DEF WalkInv
<1>5. h \in Nat
  BY Apart DEF StaticSpaceInv
<1>6. low' \in Nat /\ length' \in Nat /\ h < low' /\ low' + length' = End(h) /\ (wpc' = "scan" => length' # 0)
  BY <1>1, <1>3, <1>4, <1>5
<1>7. WalkInv'
  <2>1. wpc' \in {"scan", "header"}
    BY <1>1
  <2> QED
    BY <1>1, <1>2, <1>6, <2>1 DEF WalkInv
<1> QED
  BY <1>2, <1>3, <1>7

(* A lost walk may go anywhere, having been where it must. *)
LEMMA StrayWalk ==
  ASSUME StaticSpaceInv, WalkInv, Stray
  PROVE  StaticSpaceInv' /\ WalkInv' /\ before \subseteq visited
<1>1. /\ wpc = "lost" /\ next' \in 0..end /\ wpc' = "header"
      /\ static' = static /\ statics' = statics /\ static_frontier_ptr' = static_frontier_ptr
      /\ end' = end /\ low' = low /\ length' = length /\ before' = before /\ visited' = visited
  BY DEF Stray, allocVars
<1>2. StaticSpaceInv' /\ Top' = Top
  BY StaticFrame DEF Stray
<1>3. next' \in Nat
  BY <1>1 DEF WalkInv
<1>4. before \subseteq visited
  BY <1>1 DEF WalkInv
<1>5. WalkInv'
  BY <1>1, <1>2, <1>3, <1>4 DEF WalkInv
<1> QED
  BY <1>2, <1>4, <1>5

(* At the end, or lost, it has been through every object it must visit. *)
LEMMA WalkComplete ==
  ASSUME StaticSpaceInv, WalkInv
  PROVE  StaticComplete
<1>1. CASE wpc = "lost"
  BY <1>1 DEF WalkInv, StaticComplete
<1>2. CASE wpc = "header" /\ next >= end
  <2>1. next \in Nat /\ end \in Nat /\ before \subseteq statics /\ \A h \in before : h < end
    BY <1>2 DEF WalkInv
  <2>2. \A h \in before : h \in Nat
    BY <2>1, Apart DEF StaticSpaceInv
  <2>3. before \subseteq visited \/ \A h \in before : h \in visited \/ h >= next
    BY <1>2 DEF WalkInv
  <2> QED
    BY <1>2, <2>1, <2>2, <2>3 DEF StaticComplete
<1> QED
  BY <1>1, <1>2 DEF StaticComplete

(* It ends having been through every object it must visit. *)
LEMMA EndWalkWalk ==
  ASSUME StaticSpaceInv, WalkInv, EndWalk
  PROVE  StaticSpaceInv' /\ WalkInv' /\ before \subseteq visited
<1>1. /\ wpc = "header" /\ next >= end /\ wpc' = "idle"
      /\ static' = static /\ statics' = statics /\ static_frontier_ptr' = static_frontier_ptr
      /\ next' = next /\ end' = end /\ low' = low /\ length' = length
  BY DEF EndWalk, allocVars
<1>2. StaticSpaceInv'
  BY StaticFrame DEF EndWalk
<1>3. WalkInv'
  BY <1>1 DEF WalkInv
<1> QED
  BY <1>1, <1>2, <1>3, WalkComplete DEF StaticComplete

-----------------------------------------------------------------------------
(***************************************************************************)
(* What a step leaves alone.                                               *)
(***************************************************************************)

(* Steps of nobody's thread. *)
LEMMA ThreadsFrame ==
  ASSUME Threads, UNCHANGED <<regs, threadVars, signalled, gcpc>>
  PROVE  Threads'
BY DEF Threads, LiveThreads, Stopping, threadVars

(* Steps outside the collector's progress. *)
LEMMA PhaseFrame ==
  ASSUME Phase, UNCHANGED <<free, white, gcpc, index, wpc>>
  PROVE  Phase'
BY DEF Phase

(* Steps outside the registrations. *)
LEMMA TablesFrame ==
  ASSUME Tables, UNCHANGED <<regVars, wordVars>>
  PROVE  Tables'
<1>1. /\ rpc' = rpc /\ reg' = reg /\ global_roots' = global_roots
      /\ total_global_roots' = total_global_roots /\ registered' = registered /\ root' = root
      /\ root_scanner' = root_scanner /\ total_root_scanners' = total_root_scanners
      /\ offered' = offered /\ hidden' = hidden
      /\ registered_word' = registered_word /\ no_write_barrier_state' = no_write_barrier_state
  BY DEF regVars, wordVars, globalVars, scannerVars
<1>2. RootTable'
  BY <1>1 DEF RootTable, Tables
<1>3. Registering'
  BY <1>1 DEF Registering, Tables
<1>4. Scanners'
  BY <1>1 DEF Scanners, Tables
<1>5. WordInv'
  BY <1>1 DEF WordInv, Tables
<1> QED
  BY <1>2, <1>3, <1>4, <1>5 DEF Tables

(* The places outside stacks, and what a cycle has still to look at. *)
placeVars == <<static, statics, registered, root, root_scanner, total_root_scanners, hidden>>
aheadVars == <<placeVars, global_roots, total_global_roots, wpc, low, length, before, visited,
               saved_no_write_barrier_state, saved, gcpc, index>>

(* Steps that store in none of them. *)
LEMMA PlacesFrame ==
  ASSUME UNCHANGED placeVars
  PROVE  /\ \A h : Body(h)' = Body(h)
         /\ \A o : /\ InStatics(o)' <=> InStatics(o)
                   /\ InGlobals(o)' <=> InGlobals(o)
                   /\ InScanner(o)' <=> InScanner(o)
                   /\ InPlaces(o)' <=> InPlaces(o)
<1>1. /\ static' = static /\ statics' = statics /\ registered' = registered /\ root' = root
      /\ root_scanner' = root_scanner /\ total_root_scanners' = total_root_scanners /\ hidden' = hidden
  BY DEF placeVars
<1>2. \A h : Body(h)' = Body(h)
  BY <1>1 DEF Body
<1>3. \A o : InStatics(o)' <=> InStatics(o)
  BY <1>1, <1>2 DEF InStatics
<1>4. \A o : InGlobals(o)' <=> InGlobals(o)
  BY <1>1 DEF InGlobals
<1>5. \A o : InScanner(o)' <=> InScanner(o)
  BY <1>1 DEF InScanner
<1> QED
  BY <1>2, <1>3, <1>4, <1>5 DEF InPlaces

(* ... and in which the collector does not go on. *)
LEMMA AheadFrame ==
  ASSUME UNCHANGED aheadVars
  PROVE  \A o : Ahead(o)' <=> Ahead(o)
<1>1. /\ static' = static /\ statics' = statics /\ registered' = registered /\ root' = root
      /\ root_scanner' = root_scanner /\ total_root_scanners' = total_root_scanners /\ hidden' = hidden
      /\ global_roots' = global_roots /\ total_global_roots' = total_global_roots
      /\ wpc' = wpc /\ low' = low /\ length' = length /\ before' = before /\ visited' = visited
      /\ saved_no_write_barrier_state' = saved_no_write_barrier_state /\ saved' = saved
      /\ gcpc' = gcpc /\ index' = index
  BY DEF aheadVars, placeVars
<1>2. UNCHANGED placeVars
  BY <1>1 DEF placeVars
<1>3. \A o : GlobalsAhead(o)' <=> GlobalsAhead(o)
  BY <1>1 DEF GlobalsAhead
<1>4. \A o : StaticsAhead(o)' <=> StaticsAhead(o)
  <2>1. \A h : Body(h)' = Body(h)
    BY <1>2, PlacesFrame
  <2>2. \A o : InStatics(o)' <=> InStatics(o)
    BY <1>2, PlacesFrame
  <2> QED
    BY <1>1, <2>1, <2>2 DEF StaticsAhead
<1>5. \A o : ScannerAhead(o)' <=> ScannerAhead(o)
  BY <1>1 DEF ScannerAhead, InScanner
<1> QED
  BY <1>1, <1>3, <1>4, <1>5 DEF Ahead

(***************************************************************************)
(* A client's step is safe if nothing comes within reach but a new object, *)
(* and nothing goes out of the collector's sight that is not exposed.      *)
(***************************************************************************)
LEMMA ClientSafe ==
  ASSUME Phase, WhiteAhead, NoneFree,
         white' = white, gcpc' = gcpc, free' \subseteq free,
         \A o \in Object : Accessible(o)' => Accessible(o) \/ o \in free \ free',
         \A o \in exposed : o \in exposed' \/ o \in free \ free',
         Marking => \A o \in Object : Ahead(o) => Ahead(o)' \/ o \in exposed'
  PROVE  WhiteAhead' /\ NoneFree'
<1>1. free \subseteq Object /\ white \subseteq Object \ free
  BY DEF Phase
<1>2. NoneFree'
  BY <1>1 DEF NoneFree
<1>3. WhiteAhead'
  <2>1. SUFFICES ASSUME Marking', NEW o \in white' \ exposed', Accessible(o)'
                 PROVE  Ahead(o)'
    BY DEF WhiteAhead
  <2>2. Marking
    BY <2>1 DEF Marking
  <2>3. o \in white \ exposed /\ o \in Object /\ o \notin free
    BY <1>1
  <2>4. Accessible(o)
    BY <2>1, <2>3
  <2> QED
    BY <2>2, <2>3, <2>4 DEF WhiteAhead
<1> QED
  BY <1>2, <1>3

(***************************************************************************)
(* The copies of a flip stay good if nothing comes into the hands of a     *)
(* thread that has been copied but what has a copy or is exposed.          *)
(***************************************************************************)
LEMMA CopiesSafe ==
  ASSUME Threads, Copied, gcpc' = gcpc, signalled \subseteq signalled', exposed \subseteq exposed',
         saved' = saved, WordCopy' = WordCopy,
         saved_no_write_barrier_state' = saved_no_write_barrier_state,
         no_write_barrier_state' = no_write_barrier_state,
         \A o \in Object : InPlaces(o) => InPlaces(o)' \/ o \in exposed',
         \A m \in Mutator \ signalled : \A o \in regs'[m] :
            o \in Object /\ (o \in regs[m] \/ o \in exposed' \/ HasCopy(o))
  PROVE  Copied'
<1>1. SUFFICES ASSUME Stopping'
               PROVE  /\ \A m \in Mutator \ signalled' : \A o \in regs'[m] \ exposed' : HasCopy(o)'
                      /\ gcpc' = "halt" /\ no_write_barrier_state' # NULL =>
                           no_write_barrier_state' \in {saved_no_write_barrier_state'} \cup exposed'
  BY DEF Copied
<1>2. Stopping
  BY <1>1 DEF Stopping
<1>3. ASSUME NEW m \in Mutator \ signalled', NEW o \in regs'[m] \ exposed'
      PROVE  HasCopy(o)'
  <2>1. HasCopy(o) /\ o \in Object
    BY <1>2, <1>3 DEF Copied
  <2> QED
    BY <1>3, <2>1 DEF HasCopy
<1>4. gcpc' = "halt" /\ no_write_barrier_state' # NULL =>
        no_write_barrier_state' \in {saved_no_write_barrier_state'} \cup exposed'
  BY <1>2 DEF Copied
<1> QED
  BY <1>3, <1>4

(* Clients find what the invariant calls accessible, stacks and args apart. *)
LEMMA InRootsIs ==
  ASSUME Scanners
  PROVE  \A o \in Object : o \in InRoots <=> InPlaces(o) \/ no_write_barrier_state = o
<1>1. \A o \in Object : (\E f \in Scanner : Installed(f) /\ hidden[f] = o) <=> InScanner(o)
  BY NullAssumption DEF Installed, InScanner, Scanners
<1> QED
  BY <1>1 DEF InRoots, InPlaces, InStatics, InGlobals

-----------------------------------------------------------------------------
(***************************************************************************)
(* Clients.                                                                *)
(***************************************************************************)

(* A new object is in nobody's reach but the caller's, and not white. *)
LEMMA RTallocateSafe ==
  ASSUME RunInv, NEW m \in Mutator, NEW o \in Object, RTallocate(m, o)
  PROVE  RunInv'
<1> USE DEF RunInv
<1>1. /\ tpc[m] = "run" /\ ~Stopping /\ o \in free
      /\ free' = free \ {o} /\ exposed' = exposed \ {o}
      /\ regs' = [regs EXCEPT ![m] = @ \cup {o}]
      /\ white' = white /\ tpc' = tpc /\ args' = args /\ child' = child
      /\ signalled' = signalled /\ gcpc' = gcpc /\ index' = index /\ wpc' = wpc
      /\ no_write_barrier_state' = no_write_barrier_state
      /\ UNCHANGED staticVars /\ UNCHANGED <<regVars, wordVars>> /\ UNCHANGED aheadVars
      /\ UNCHANGED placeVars
  BY DEF RTallocate, Idle, threadVars, gcVars, aheadVars, placeVars, staticVars, regVars,
         globalVars, scannerVars, wordVars
<1>2. Threads'
  BY <1>1 DEF Threads, LiveThreads, Stopping
<1>3. Phase'
  BY <1>1 DEF Phase
<1>4. Tables' /\ Space'
  BY <1>1, TablesFrame, WalkFrame DEF Space
<1>5. Copied'
  BY <1>1 DEF Copied, Stopping
<1>6. \A x : InPlaces(x)' <=> InPlaces(x)
  BY <1>1, PlacesFrame
<1>7. \A x \in Object : Accessible(x)' => Accessible(x) \/ x \in free \ free'
  BY <1>1, <1>6 DEF Accessible, Threads
<1>8. \A x : Ahead(x)' <=> Ahead(x)
  BY <1>1, AheadFrame
<1>9. WhiteAhead' /\ NoneFree'
  <2>1. \A x \in exposed : x \in exposed' \/ x \in free \ free'
    BY <1>1
  <2>2. free' \subseteq free
    BY <1>1
  <2> QED
    BY <1>1, <1>7, <1>8, <2>1, <2>2, ClientSafe
<1> QED
  BY <1>2, <1>3, <1>4, <1>5, <1>9

(* What a client reads has a copy, or is where the collector will look. *)
LEMMA LoadSafe ==
  ASSUME RunInv, NEW m \in Mutator, NEW o \in Object, Load(m, o)
  PROVE  RunInv'
<1> USE DEF RunInv
<1>1. /\ tpc[m] = "run" /\ o \in InRoots
      /\ regs' = [regs EXCEPT ![m] = @ \cup {o}]
      /\ free' = free /\ exposed' = exposed
      /\ white' = white /\ tpc' = tpc /\ args' = args /\ child' = child
      /\ signalled' = signalled /\ gcpc' = gcpc /\ index' = index /\ wpc' = wpc /\ saved' = saved
      /\ no_write_barrier_state' = no_write_barrier_state
      /\ saved_no_write_barrier_state' = saved_no_write_barrier_state
      /\ UNCHANGED staticVars /\ UNCHANGED <<regVars, wordVars>> /\ UNCHANGED aheadVars
      /\ UNCHANGED placeVars
  BY DEF Load, Idle, threadVars, gcVars, aheadVars, placeVars, staticVars, regVars, heapVars,
         globalVars, scannerVars, wordVars
<1>2. Threads'
  BY <1>1 DEF Threads, LiveThreads, Stopping
<1>3. Phase'
  BY <1>1 DEF Phase
<1>4. Tables' /\ Space'
  BY <1>1, TablesFrame, WalkFrame DEF Space
<1>5. InPlaces(o) \/ no_write_barrier_state = o
  BY <1>1, InRootsIs DEF Tables
<1>6. \A x : InPlaces(x)' <=> InPlaces(x)
  BY <1>1, PlacesFrame
<1>7. Copied'
  <2>1. CASE ~Stopping
    BY <1>1, <2>1 DEF Copied, Stopping
  <2>2. CASE Stopping
    <3>1. HasCopy(o) \/ o \in exposed'
      BY <1>1, <1>5, <2>2, WordAssumption DEF HasCopy, WordCopy, Copied, Stopping
    <3>2. \A n \in Mutator \ signalled : \A x \in regs'[n] :
            x \in Object /\ (x \in regs[n] \/ x \in exposed' \/ HasCopy(x))
      BY <1>1, <3>1 DEF Threads
    <3>3. WordCopy' = WordCopy
      BY <1>1 DEF WordCopy
    <3> QED
      BY <1>1, <1>6, <3>2, <3>3, CopiesSafe
  <2> QED
    BY <2>1, <2>2
<1>8. \A x \in Object : Accessible(x)' => Accessible(x) \/ x \in free \ free'
  BY <1>1, <1>5, <1>6 DEF Accessible, Threads
<1>9. \A x : Ahead(x)' <=> Ahead(x)
  BY <1>1, AheadFrame
<1>10. WhiteAhead' /\ NoneFree'
  BY <1>1, <1>8, <1>9, ClientSafe
<1> QED
  BY <1>2, <1>3, <1>4, <1>7, <1>10

(* Forgetting a pointer harms nobody. *)
LEMMA DropSafe ==
  ASSUME RunInv, NEW m \in Mutator, NEW o \in Object, Drop(m, o)
  PROVE  RunInv'
<1> USE DEF RunInv
<1>1. /\ regs' = [regs EXCEPT ![m] = @ \ {o}]
      /\ free' = free /\ exposed' = exposed
      /\ white' = white /\ tpc' = tpc /\ args' = args /\ child' = child
      /\ signalled' = signalled /\ gcpc' = gcpc /\ index' = index /\ wpc' = wpc /\ saved' = saved
      /\ no_write_barrier_state' = no_write_barrier_state
      /\ saved_no_write_barrier_state' = saved_no_write_barrier_state
      /\ UNCHANGED staticVars /\ UNCHANGED <<regVars, wordVars>> /\ UNCHANGED aheadVars
      /\ UNCHANGED placeVars
  BY DEF Drop, threadVars, gcVars, aheadVars, placeVars, staticVars, regVars, heapVars,
         globalVars, scannerVars, wordVars
<1>2. Threads'
  <2>1. \A n \in Mutator : regs'[n] \subseteq regs[n]
    BY <1>1 DEF Threads
  <2>2. regs' \in [Mutator -> SUBSET Object]
    BY <1>1 DEF Threads
  <2> QED
    BY <1>1, <2>1, <2>2 DEF Threads, LiveThreads, Stopping
<1>3. Phase'
  BY <1>1 DEF Phase
<1>4. Tables' /\ Space'
  BY <1>1, TablesFrame, WalkFrame DEF Space
<1>5. \A x : InPlaces(x)' <=> InPlaces(x)
  BY <1>1, PlacesFrame
<1>6. \A n \in Mutator : \A x \in regs'[n] : x \in Object /\ x \in regs[n]
  BY <1>1 DEF Threads
<1>7. Copied'
  <2>1. WordCopy' = WordCopy
    BY <1>1 DEF WordCopy
  <2> QED
    BY <1>1, <1>5, <1>6, <2>1, CopiesSafe
<1>8. \A x \in Object : Accessible(x)' => Accessible(x) \/ x \in free \ free'
  BY <1>1, <1>5, <1>6 DEF Accessible
<1>9. \A x : Ahead(x)' <=> Ahead(x)
  BY <1>1, AheadFrame
<1>10. WhiteAhead' /\ NoneFree'
  BY <1>1, <1>8, <1>9, ClientSafe
<1> QED
  BY <1>2, <1>3, <1>4, <1>7, <1>10

(* The word may be registered at any time: it has nothing in it yet. *)
LEMMA RegisterWordSafe ==
  ASSUME RunInv, NEW m \in Mutator, RTregister_no_write_barrier_state(m)
  PROVE  RunInv'
<1> USE DEF RunInv
<1>1. /\ registered_word' = TRUE
      /\ regs' = regs /\ free' = free /\ exposed' = exposed
      /\ white' = white /\ tpc' = tpc /\ args' = args /\ child' = child
      /\ signalled' = signalled /\ gcpc' = gcpc /\ index' = index /\ wpc' = wpc /\ saved' = saved
      /\ no_write_barrier_state' = no_write_barrier_state
      /\ saved_no_write_barrier_state' = saved_no_write_barrier_state
      /\ UNCHANGED staticVars /\ UNCHANGED regVars /\ UNCHANGED aheadVars
      /\ UNCHANGED placeVars
  BY DEF RTregister_no_write_barrier_state, threadVars, gcVars, aheadVars, placeVars, staticVars,
         regVars, heapVars, globalVars, scannerVars
<1>2. Threads'
  BY <1>1, ThreadsFrame DEF threadVars
<1>3. Phase'
  BY <1>1 DEF Phase
<1>4. Tables'
  <2>1. RootTable'
    BY <1>1 DEF RootTable, Tables, regVars, globalVars
  <2>2. Registering'
    BY <1>1 DEF Registering, Tables, regVars, globalVars, scannerVars
  <2>3. Scanners'
    BY <1>1 DEF Scanners, Tables, regVars, scannerVars
  <2>4. WordInv'
    BY <1>1 DEF WordInv, Tables
  <2> QED
    BY <2>1, <2>2, <2>3, <2>4 DEF Tables
<1>5. Space'
  BY <1>1, WalkFrame DEF Space
<1>6. \A x : InPlaces(x)' <=> InPlaces(x)
  BY <1>1, PlacesFrame
<1>7. Copied'
  <2>1. WordCopy' = WordCopy
    BY <1>1 DEF WordCopy
  <2>2. \A n \in Mutator : \A x \in regs'[n] : x \in Object /\ x \in regs[n]
    BY <1>1 DEF Threads
  <2> QED
    BY <1>1, <1>6, <2>1, <2>2, CopiesSafe
<1>8. \A x \in Object : Accessible(x)' => Accessible(x) \/ x \in free \ free'
  BY <1>1, <1>6 DEF Accessible
<1>9. \A x : Ahead(x)' <=> Ahead(x)
  BY <1>1, AheadFrame
<1>10. WhiteAhead' /\ NoneFree'
  BY <1>1, <1>8, <1>9, ClientSafe
<1> QED
  BY <1>2, <1>3, <1>4, <1>5, <1>7, <1>10

(* The word changes: during a flip, both the old and the new are exposed. *)
LEMMA StoreNoBarrierSafe ==
  ASSUME RunInv, NEW m \in Mutator, NEW v \in Object \cup {NULL}, StoreNoBarrier(m, v)
  PROVE  RunInv'
<1> USE DEF RunInv
<1>1. /\ registered_word /\ v \in regs[m] \cup {NULL}
      /\ no_write_barrier_state' = v
      /\ exposed' = IF Stopping THEN exposed \cup ({v, no_write_barrier_state} \ {NULL}) ELSE exposed
      /\ regs' = regs /\ free' = free /\ white' = white
      /\ tpc' = tpc /\ args' = args /\ child' = child /\ registered_word' = registered_word
      /\ signalled' = signalled /\ gcpc' = gcpc /\ index' = index /\ wpc' = wpc /\ saved' = saved
      /\ saved_no_write_barrier_state' = saved_no_write_barrier_state
      /\ UNCHANGED staticVars /\ UNCHANGED regVars /\ UNCHANGED aheadVars
      /\ UNCHANGED placeVars
  BY DEF StoreNoBarrier, threadVars, gcVars, aheadVars, placeVars, staticVars,
         regVars, globalVars, scannerVars
<1>2. Threads'
  BY <1>1, ThreadsFrame DEF threadVars
<1>3. Phase'
  BY <1>1 DEF Phase
<1>4. Tables'
  <2>1. RootTable'
    BY <1>1 DEF RootTable, Tables, regVars, globalVars
  <2>2. Registering'
    BY <1>1 DEF Registering, Tables, regVars, globalVars, scannerVars
  <2>3. Scanners'
    BY <1>1 DEF Scanners, Tables, regVars, scannerVars
  <2>4. WordInv'
    BY <1>1 DEF WordInv, Tables
  <2> QED
    BY <2>1, <2>2, <2>3, <2>4 DEF Tables
<1>5. Space'
  BY <1>1, WalkFrame DEF Space
<1>6. \A x : InPlaces(x)' <=> InPlaces(x)
  BY <1>1, PlacesFrame
<1>7. exposed \subseteq exposed'
  BY <1>1
<1>8. Copied'
  <2>1. CASE ~Stopping
    BY <1>1, <2>1 DEF Copied, Stopping
  <2>2. CASE Stopping
    <3>1. ASSUME NEW n \in Mutator \ signalled', NEW x \in regs'[n] \ exposed'
          PROVE  HasCopy(x)'
      <4>1. x \in Object /\ x # NULL
        BY <1>1, WordAssumption DEF Threads
      <4>2. HasCopy(x)
        BY <1>1, <1>7, <2>2, <3>1 DEF Copied
      <4>3. x # no_write_barrier_state
        BY <1>1, <2>2, <3>1, <4>1
      <4> QED
        BY <1>1, <1>6, <4>2, <4>3 DEF HasCopy, WordCopy
    <3>2. no_write_barrier_state' # NULL => no_write_barrier_state' \in exposed'
      BY <1>1, <2>2
    <3> QED
      BY <3>1, <3>2 DEF Copied
  <2> QED
    BY <2>1, <2>2
<1>9. \A x \in Object : Accessible(x)' => Accessible(x) \/ x \in free \ free'
  <2>1. v \in Object => \E n \in Mutator : v \in regs[n]
    BY <1>1, WordAssumption
  <2> QED
    BY <1>1, <1>6, <2>1 DEF Accessible
<1>10. \A x : Ahead(x)' <=> Ahead(x)
  BY <1>1, AheadFrame
<1>11. WhiteAhead' /\ NoneFree'
  BY <1>1, <1>7, <1>9, <1>10, ClientSafe
<1> QED
  BY <1>2, <1>3, <1>4, <1>5, <1>8, <1>11

(***************************************************************************)
(* A store into a place leaves everything in sight: whatever it puts there *)
(* was in the client's hands before.                                       *)
(***************************************************************************)
LEMMA PlacesSafe ==
  ASSUME RunInv, Space', Tables',
         UNCHANGED <<heapVars, regs, threadVars, wordVars, gcVars, wpc>>,
         \A o \in Object : InPlaces(o) => InPlaces(o)',
         \A o \in Object : InPlaces(o)' => Accessible(o),
         Marking => \A o \in Object : Ahead(o) => Ahead(o)'
  PROVE  RunInv'
<1> USE DEF RunInv
<1>1. /\ regs' = regs /\ free' = free /\ white' = white /\ exposed' = exposed
      /\ tpc' = tpc /\ args' = args /\ child' = child
      /\ signalled' = signalled /\ gcpc' = gcpc /\ index' = index /\ wpc' = wpc /\ saved' = saved
      /\ saved_no_write_barrier_state' = saved_no_write_barrier_state
      /\ no_write_barrier_state' = no_write_barrier_state
  BY DEF heapVars, threadVars, wordVars, gcVars
<1>2. Threads'
  BY <1>1, ThreadsFrame DEF threadVars
<1>3. Phase'
  BY <1>1 DEF Phase
<1>4. Copied'
  <2>1. WordCopy' = WordCopy
    BY <1>1 DEF WordCopy
  <2>2. \A n \in Mutator : \A x \in regs'[n] : x \in Object /\ x \in regs[n]
    BY <1>1 DEF Threads
  <2> QED
    BY <1>1, <2>1, <2>2, CopiesSafe
<1>5. \A x \in Object : Accessible(x)' => Accessible(x) \/ x \in free \ free'
  BY <1>1 DEF Accessible
<1>6. WhiteAhead' /\ NoneFree'
  BY <1>1, <1>5, ClientSafe
<1> QED
  BY <1>2, <1>3, <1>4, <1>6

(***************************************************************************)
(* The static space as a place: nothing in it gets out of sight when no    *)
(* word with a pointer changes and no finished object moves.               *)
(***************************************************************************)
LEMMA StaticsAheadKept ==
  ASSUME statics \subseteq statics', gcpc = "static" => before \subseteq statics,
         \A h \in statics : Body(h)' = Body(h),
         \A h \in statics : \A w \in Body(h) : static[w] \in Object => static'[w] = static[w],
         UNCHANGED <<wpc, low, length, before, visited, gcpc>>
  PROVE  \A o \in Object : /\ InStatics(o) => InStatics(o)'
                           /\ StaticsAhead(o) => StaticsAhead(o)'
<1>1. ASSUME NEW o \in Object, InStatics(o)
      PROVE  InStatics(o)'
  BY <1>1 DEF InStatics
<1>2. ASSUME NEW o \in Object, StaticsAhead(o)
      PROVE  StaticsAhead(o)'
  <2>1. CASE gcpc \in {"threads", "globals"} /\ InStatics(o)
    BY <1>1, <2>1 DEF StaticsAhead
  <2>2. CASE /\ gcpc = "static"
             /\ \E h \in before : \E w \in Body(h) :
                  /\ static[w] = o
                  /\ h \notin visited \/ (wpc \in {"class", "scan"} /\ w \in low..(low + length - 1))
    BY <2>2 DEF StaticsAhead
  <2> QED
    BY <1>2, <2>1, <2>2 DEF StaticsAhead
<1> QED
  BY <1>1, <1>2

(* The walk has to visit finished objects only. *)
LEMMA BeforeFinished ==
  ASSUME Phase, Space, gcpc = "static"
  PROVE  before \subseteq statics
BY DEF Phase, Space, WalkInv

(* So a step of RTstatic_allocate or of its client is safe. *)
LEMMA StaticStoreSafe ==
  ASSUME RunInv, Space',
         UNCHANGED <<heapVars, regs, threadVars, regVars, wordVars, gcVars, walkVars>>,
         statics \subseteq statics',
         \A h \in statics : Body(h)' = Body(h),
         \A h \in statics : \A w \in Body(h) : static[w] \in Object => static'[w] = static[w],
         \A o \in Object : InStatics(o)' => Accessible(o)
  PROVE  RunInv'
<1> USE DEF RunInv
<1>1. /\ registered' = registered /\ root' = root /\ global_roots' = global_roots
      /\ total_global_roots' = total_global_roots /\ root_scanner' = root_scanner
      /\ total_root_scanners' = total_root_scanners /\ hidden' = hidden
      /\ gcpc' = gcpc /\ index' = index /\ saved' = saved
      /\ saved_no_write_barrier_state' = saved_no_write_barrier_state
      /\ wpc' = wpc /\ low' = low /\ length' = length /\ before' = before /\ visited' = visited
  BY DEF regVars, globalVars, scannerVars, gcVars, walkVars
<1>2. Tables'
  BY TablesFrame
<1>3. \A o \in Object : /\ InStatics(o) => InStatics(o)'
                        /\ StaticsAhead(o) => StaticsAhead(o)'
  BY <1>1, BeforeFinished, StaticsAheadKept
<1>4. \A o : (InGlobals(o)' <=> InGlobals(o)) /\ (InScanner(o)' <=> InScanner(o))
  BY <1>1 DEF InGlobals, InScanner
<1>5. \A o \in Object : InPlaces(o) => InPlaces(o)'
  BY <1>3, <1>4 DEF InPlaces
<1>6. \A o \in Object : InPlaces(o)' => Accessible(o)
  BY <1>4 DEF InPlaces, Accessible
<1>7. \A o \in Object : Ahead(o) => Ahead(o)'
  <2>1. \A o : GlobalsAhead(o)' <=> GlobalsAhead(o)
    BY <1>1 DEF GlobalsAhead
  <2>2. \A o : ScannerAhead(o)' <=> ScannerAhead(o)
    BY <1>1, <1>4 DEF ScannerAhead
  <2> QED
    BY <1>1, <1>3, <2>1, <2>2 DEF Ahead
<1> QED
  BY <1>1, <1>2, <1>5, <1>6, <1>7, PlacesSafe

(* RTstatic_allocate, and the client's stores into what it returns. *)
LEMMA StaticClientSafe ==
  ASSUME RunInv, NEW m \in Mutator, StaticClient(m)
  PROVE  RunInv'
<1> USE DEF RunInv, Space
<1>1. UNCHANGED <<heapVars, regs, threadVars, regVars, wordVars, gcVars>>
  BY DEF StaticClient
<1>2. \A o : InStatics(o) => Accessible(o)
  BY DEF Accessible, InPlaces
<1>3. ASSUME NEW n \in StaticSize, NEW c \in {SC_NOPOINTERS, SC_POINTERS}, MoveFrontier(m, n, c)
      PROVE  RunInv'
  <2>1. static' = static /\ statics' = statics /\ UNCHANGED walkVars
    BY <1>3 DEF MoveFrontier
  <2>2. Space'
    BY <1>3, MoveFrontierStatic
  <2>3. \A h \in statics : Body(h)' = Body(h)
    BY <2>1 DEF Body
  <2>4. \A o : InStatics(o)' => InStatics(o)
    BY <2>1, <2>3 DEF InStatics
  <2> QED
    BY <1>1, <1>2, <2>1, <2>2, <2>3, <2>4, StaticStoreSafe
<1>4. CASE WriteSize(m)
  <2>1. /\ static' = [static EXCEPT ![ptr[m]] = Header(size[m], SC_NOPOINTERS)]
        /\ statics' = statics /\ UNCHANGED walkVars
    BY <1>4 DEF WriteSize
  <2>2. Space' /\ ptr[m] \notin statics /\ static[ptr[m]] = NULL
    BY <1>4, WriteSizeStatic
  <2>3. \A h \in statics : static'[h] = static[h]
    BY <2>1, <2>2 DEF StaticSpaceInv, StaticTypes
  <2>4. \A h \in statics : Body(h)' = Body(h)
    BY <2>3 DEF Body
  <2>5. Header(size[m], SC_NOPOINTERS) \notin Object
    <3>1. size[m] \in Nat /\ ptr[m] \in Nat /\ ptr[m] + 1 + size[m] = static_frontier_ptr
      BY <1>4 DEF StaticSpaceInv, StaticTypes, Unfinished, WriteSize
    <3>2. size[m] \in 0..last_static_ptr
      BY <3>1, StaticAssumption DEF StaticSpaceInv, StaticTypes
    <3> QED
      BY <3>2, HeaderIs, HeaderFields
  <2>6. \A h \in statics : \A w \in Body(h) : w \in StaticWord
    BY BodyInSpace
  <2>7. \A w \in StaticWord : static[w] \in Object \/ static'[w] \in Object => static'[w] = static[w]
    BY <2>1, <2>2, <2>5, WordAssumption DEF StaticSpaceInv, StaticTypes
  <2>8. \A o \in Object : InStatics(o)' => InStatics(o)
    BY <2>1, <2>4, <2>6, <2>7 DEF InStatics
  <2> QED
    BY <1>1, <1>2, <2>1, <2>2, <2>4, <2>6, <2>7, <2>8, StaticStoreSafe
<1>5. CASE FinishStatic(m)
  <2>1. statics' = statics \cup {ptr[m]} /\ ptr' = ptr /\ UNCHANGED walkVars
    BY <1>5 DEF FinishStatic
  <2>2. /\ Space'
        /\ \A h \in statics : static'[h] = static[h] /\ Body(h)' = Body(h)
        /\ \A w \in StaticWord : static[w] \in Object \/ static'[w] \in Object => static'[w] = static[w]
        /\ \A w \in Body(ptr[m])' : w \in StaticWord /\ static'[w] \notin Object
        /\ \A h \in statics : \A w \in Body(h) : w \in StaticWord
    BY <1>5, FinishStaticStatic
  <2>3. ASSUME NEW o \in Object, InStatics(o)'
        PROVE  InStatics(o)
    <3>1. PICK h \in statics' : \E w \in Body(h)' : static'[w] = o
      BY <2>3 DEF InStatics
    <3>2. CASE h = ptr[m]
      <4>1. Body(h)' = Body(ptr[m])'
        BY <2>1, <3>2 DEF Body
      <4> QED
        BY <2>2, <3>1, <4>1
    <3>3. CASE h \in statics
      BY <2>2, <3>1, <3>3 DEF InStatics
    <3> QED
      BY <2>1, <3>2, <3>3
  <2> QED
    BY <1>1, <1>2, <2>1, <2>2, <2>3, StaticStoreSafe
<1>6. ASSUME NEW h \in statics, NEW w \in StaticWord, NEW o \in regs[m], StoreStatic(m, h, w, o)
      PROVE  RunInv'
  <2>1. o \in Object
    BY DEF Threads
  <2>2. statics' = statics /\ UNCHANGED walkVars
    BY <1>6 DEF StoreStatic, allocVars
  <2>3. /\ Space'
        /\ \A k \in statics : static'[k] = static[k] /\ Body(k)' = Body(k)
        /\ static[w] = NULL /\ static'[w] = o
        /\ \A x \in StaticWord \ {w} : static'[x] = static[x]
        /\ \A k \in statics : \A x \in Body(k) : x \in StaticWord
    BY <1>6, <2>1, StoreStaticStatic
  <2>4. \A k \in statics : \A x \in Body(k) : static[x] \in Object => static'[x] = static[x]
    BY <2>3, WordAssumption
  <2>5. Accessible(o)
    BY DEF Accessible
  <2>6. ASSUME NEW x \in Object, InStatics(x)'
        PROVE  Accessible(x)
    <3>1. PICK k \in statics : \E y \in Body(k) : static'[y] = x
      BY <2>2, <2>3, <2>6 DEF InStatics
    <3>2. PICK y \in Body(k) : static'[y] = x
      BY <3>1
    <3>3. CASE y = w
      BY <2>3, <2>5, <3>2, <3>3
    <3>4. CASE y # w
      <4>1. InStatics(x)
        BY <2>3, <3>2, <3>4 DEF InStatics
      <4> QED
        BY <1>2, <4>1
    <3> QED
      BY <3>3, <3>4
  <2> QED
    BY <1>1, <2>2, <2>3, <2>4, <2>6, StaticStoreSafe
<1> QED
  BY <1>3, <1>4, <1>5, <1>6 DEF StaticClient

-----------------------------------------------------------------------------
(***************************************************************************)
(* Registrations.                                                          *)
(***************************************************************************)

(* The entry behind the counted ones is written. *)
LEMMA StoreRootSafe ==
  ASSUME RunInv, NEW m \in Mutator, NEW r \in Root, StoreRoot(m, r)
  PROVE  RunInv'
<1> USE DEF RunInv
<1>1. /\ NobodyRegisters /\ r \notin registered /\ total_global_roots < MAX_GLOBAL_ROOTS
      /\ global_roots' = [global_roots EXCEPT ![total_global_roots + 1] = r]
      /\ reg' = [reg EXCEPT ![m] = r] /\ rpc' = [rpc EXCEPT ![m] = "count"]
      /\ total_global_roots' = total_global_roots /\ registered' = registered /\ root' = root
      /\ root_scanner' = root_scanner /\ total_root_scanners' = total_root_scanners
      /\ hidden' = hidden /\ offered' = offered
      /\ gcpc' = gcpc /\ index' = index /\ saved' = saved
      /\ saved_no_write_barrier_state' = saved_no_write_barrier_state
      /\ UNCHANGED staticVars
      /\ UNCHANGED <<heapVars, regs, threadVars, wordVars, gcVars>>
  BY DEF StoreRoot, scannerVars, gcVars
<1>2. /\ total_global_roots \in 0..MAX_GLOBAL_ROOTS
      /\ global_roots \in [1..MAX_GLOBAL_ROOTS -> Root \cup {NULL}]
      /\ rpc \in [Mutator -> {"run", "count", "scanner"}]
      /\ reg \in [Mutator -> Root \cup Nat \cup {NULL}]
  BY DEF Tables, RootTable, Registering
<1>3. /\ total_global_roots + 1 \in 1..MAX_GLOBAL_ROOTS
      /\ global_roots'[total_global_roots + 1] = r
      /\ \A i \in 1..total_global_roots : global_roots'[i] = global_roots[i]
  BY <1>1, <1>2, MaxGlobalRootsAssumption
<1>4. RootTable'
  <2>1. {global_roots'[i] : i \in 1..total_global_roots} = {global_roots[i] : i \in 1..total_global_roots}
    BY <1>3
  <2>2. global_roots' \in [1..MAX_GLOBAL_ROOTS -> Root \cup {NULL}]
    BY <1>1, <1>2
  <2> QED
    BY <1>1, <2>1, <2>2 DEF Tables, RootTable
<1>5. Registering'
  <2>1. rpc'[m] = "count" /\ reg'[m] = r
    BY <1>1, <1>2
  <2>2. \A k \in Mutator : rpc'[k] = "count" => k = m
    BY <1>1, <1>2 DEF NobodyRegisters
  <2>3. \A k \in Mutator : rpc'[k] = "scanner" => reg'[k] \in Nat /\ root_scanner' # NULL
    BY <1>1, <1>2 DEF Tables, Registering
  <2>4. rpc' \in [Mutator -> {"run", "count", "scanner"}] /\ reg' \in [Mutator -> Root \cup Nat \cup {NULL}]
    BY <1>1, <1>2
  <2> QED
    BY <1>1, <1>3, <2>1, <2>2, <2>3, <2>4 DEF Registering
<1>6. Scanners' /\ WordInv'
  BY <1>1 DEF Tables, Scanners, WordInv, wordVars
<1>7. Space'
  BY <1>1, WalkFrame DEF Space
<1>8. \A o : InPlaces(o)' <=> InPlaces(o)
  BY <1>1, PlacesFrame DEF placeVars, staticVars
<1>9. \A o : Ahead(o)' <=> Ahead(o)
  <2>1. \A o : GlobalsAhead(o)' <=> GlobalsAhead(o)
    BY <1>1, <1>3 DEF GlobalsAhead
  <2>2. \A o : InStatics(o)' <=> InStatics(o)
    BY <1>1, PlacesFrame DEF placeVars, staticVars
  <2>3. \A o : StaticsAhead(o)' <=> StaticsAhead(o)
    BY <1>1, <2>2 DEF StaticsAhead, staticVars, Body
  <2>4. \A o : ScannerAhead(o)' <=> ScannerAhead(o)
    BY <1>1 DEF ScannerAhead, InScanner
  <2> QED
    BY <1>1, <2>1, <2>3, <2>4 DEF Ahead
<1>10. \A o : InPlaces(o) => Accessible(o)
  BY DEF Accessible
<1>11. Tables'
  BY <1>4, <1>5, <1>6 DEF Tables
<1>12. wpc' = wpc
  BY <1>1 DEF staticVars
<1> QED
  BY <1>1, <1>7, <1>8, <1>9, <1>10, <1>11, <1>12, PlacesSafe

(* It is counted: the root is registered, and there is nothing in it yet. *)
LEMMA CountRootSafe ==
  ASSUME RunInv, NEW m \in Mutator, CountRoot(m)
  PROVE  RunInv'
<1> USE DEF RunInv
<1>1. /\ rpc[m] = "count" /\ total_global_roots' = total_global_roots + 1
      /\ registered' = registered \cup {reg[m]}
      /\ reg' = [reg EXCEPT ![m] = NULL] /\ rpc' = [rpc EXCEPT ![m] = "run"]
      /\ global_roots' = global_roots /\ root' = root
      /\ root_scanner' = root_scanner /\ total_root_scanners' = total_root_scanners
      /\ hidden' = hidden /\ offered' = offered
      /\ gcpc' = gcpc /\ index' = index /\ saved' = saved
      /\ saved_no_write_barrier_state' = saved_no_write_barrier_state
      /\ UNCHANGED staticVars
      /\ UNCHANGED <<heapVars, regs, threadVars, wordVars, gcVars>>
  BY DEF CountRoot, scannerVars, gcVars
<1>2. /\ total_global_roots \in 0..MAX_GLOBAL_ROOTS
      /\ rpc \in [Mutator -> {"run", "count", "scanner"}]
      /\ reg \in [Mutator -> Root \cup Nat \cup {NULL}]
      /\ total_global_roots < MAX_GLOBAL_ROOTS
      /\ reg[m] = global_roots[total_global_roots + 1]
      /\ reg[m] \in Root \ registered /\ root[reg[m]] = NULL
  BY <1>1 DEF Tables, RootTable, Registering
<1>3. RootTable'
  <2>1. registered' = {global_roots'[i] : i \in 1..total_global_roots'}
    <3>1. 1..total_global_roots' = (1..total_global_roots) \cup {total_global_roots + 1}
      BY <1>1, <1>2
    <3>2. registered = {global_roots[i] : i \in 1..total_global_roots}
      BY DEF Tables, RootTable
    <3> QED
      BY <1>1, <1>2, <3>1, <3>2
  <2>2. IsFiniteSet(registered') /\ Cardinality(registered') = total_global_roots'
    <3>1. IsFiniteSet(registered) /\ Cardinality(registered) = total_global_roots
      BY DEF Tables, RootTable
    <3>2. IsFiniteSet(registered \cup {reg[m]}) /\ Cardinality(registered \cup {reg[m]}) = Cardinality(registered) + 1
      BY <1>2, <3>1, FS_AddElement
    <3> QED
      BY <1>1, <3>1, <3>2
  <2>3. total_global_roots' \in 0..MAX_GLOBAL_ROOTS
    BY <1>1, <1>2, MaxGlobalRootsAssumption
  <2>4. /\ global_roots' \in [1..MAX_GLOBAL_ROOTS -> Root \cup {NULL}]
        /\ registered' \subseteq Root /\ root' \in [Root -> Object \cup {NULL}]
        /\ \A r \in Root \ registered' : root'[r] = NULL
    BY <1>1, <1>2 DEF Tables, RootTable
  <2> QED
    BY <2>1, <2>2, <2>3, <2>4 DEF RootTable
<1>4. Registering'
  <2>1. \A k \in Mutator : rpc'[k] # "count"
    BY <1>1, <1>2 DEF Tables, Registering
  <2>2. \A k \in Mutator : rpc'[k] = "scanner" => reg'[k] \in Nat /\ root_scanner' # NULL
    BY <1>1, <1>2 DEF Tables, Registering
  <2>3. rpc' \in [Mutator -> {"run", "count", "scanner"}] /\ reg' \in [Mutator -> Root \cup Nat \cup {NULL}]
    BY <1>1, <1>2
  <2> QED
    BY <2>1, <2>2, <2>3 DEF Registering
<1>5. Scanners' /\ WordInv'
  BY <1>1 DEF Tables, Scanners, WordInv, wordVars
<1>6. Space'
  BY <1>1, WalkFrame DEF Space
<1>7. \A h : Body(h)' = Body(h)
  BY <1>1 DEF Body, staticVars
<1>8. \A o : InStatics(o)' <=> InStatics(o)
  BY <1>1, <1>7 DEF InStatics, staticVars
<1>9. \A o \in Object : InGlobals(o)' <=> InGlobals(o)
  BY <1>1, <1>2, WordAssumption DEF InGlobals
<1>10. \A o : InScanner(o)' <=> InScanner(o)
  BY <1>1 DEF InScanner
<1>11. \A o \in Object : InPlaces(o)' <=> InPlaces(o)
  BY <1>8, <1>9, <1>10 DEF InPlaces
<1>12. \A o \in Object : Ahead(o) => Ahead(o)'
  <2>1. \A o : GlobalsAhead(o) => GlobalsAhead(o)'
    <3>1. \A i \in 1..total_global_roots : i \in 1..total_global_roots'
      BY <1>1, <1>2
    <3> QED
      BY <1>1, <3>1 DEF GlobalsAhead
  <2>2. \A o : StaticsAhead(o)' <=> StaticsAhead(o)
    BY <1>1, <1>7, <1>8 DEF StaticsAhead, staticVars
  <2>3. \A o : ScannerAhead(o)' <=> ScannerAhead(o)
    BY <1>1, <1>10 DEF ScannerAhead
  <2> QED
    BY <1>1, <2>1, <2>2, <2>3 DEF Ahead
<1>13. \A o : InPlaces(o) => Accessible(o)
  BY DEF Accessible
<1>14. Tables'
  BY <1>3, <1>4, <1>5 DEF Tables
<1>15. wpc' = wpc
  BY <1>1 DEF staticVars
<1> QED
  BY <1>1, <1>6, <1>11, <1>12, <1>13, <1>14, <1>15, PlacesSafe

(* Steps outside the static space leave it as the place it is. *)
LEMMA StaticsFrame ==
  ASSUME UNCHANGED <<staticVars, gcpc>>
  PROVE  \A o : (InStatics(o)' <=> InStatics(o)) /\ (StaticsAhead(o)' <=> StaticsAhead(o))
<1>1. /\ static' = static /\ statics' = statics /\ gcpc' = gcpc
      /\ wpc' = wpc /\ low' = low /\ length' = length /\ before' = before /\ visited' = visited
  BY DEF staticVars
<1>2. \A h : Body(h)' = Body(h)
  BY <1>1 DEF Body
<1>3. \A o : InStatics(o)' <=> InStatics(o)
  BY <1>1, <1>2 DEF InStatics
<1>4. \A o : StaticsAhead(o)' <=> StaticsAhead(o)
  BY <1>1, <1>2, <1>3 DEF StaticsAhead
<1> QED
  BY <1>3, <1>4

(* A registered root that holds nothing gets what the client holds. *)
LEMMA StoreGlobalSafe ==
  ASSUME RunInv, NEW m \in Mutator, NEW r \in Root, NEW v \in Object, StoreGlobal(m, r, v)
  PROVE  RunInv'
<1> USE DEF RunInv
<1>1. /\ r \in registered /\ root[r] = NULL /\ v \in regs[m]
      /\ root' = [root EXCEPT ![r] = v]
      /\ rpc' = rpc /\ reg' = reg /\ global_roots' = global_roots
      /\ total_global_roots' = total_global_roots /\ registered' = registered
      /\ root_scanner' = root_scanner /\ total_root_scanners' = total_root_scanners
      /\ hidden' = hidden /\ offered' = offered
      /\ gcpc' = gcpc /\ index' = index /\ saved' = saved
      /\ saved_no_write_barrier_state' = saved_no_write_barrier_state
      /\ UNCHANGED staticVars
      /\ UNCHANGED <<heapVars, regs, threadVars, wordVars, gcVars>>
  BY DEF StoreGlobal, scannerVars, gcVars
<1>2. root \in [Root -> Object \cup {NULL}]
  BY DEF Tables, RootTable
<1>3. /\ root'[r] = v /\ \A q \in Root \ {r} : root'[q] = root[q]
      /\ root' \in [Root -> Object \cup {NULL}]
  BY <1>1, <1>2
<1>4. RootTable'
  BY <1>1, <1>3 DEF Tables, RootTable
<1>5. Registering' /\ Scanners' /\ WordInv'
  BY <1>1 DEF Tables, Registering, Scanners, WordInv, wordVars
<1>6. Tables' /\ Space'
  BY <1>1, <1>4, <1>5, WalkFrame DEF Space, Tables
<1>7. \A o : (InStatics(o)' <=> InStatics(o)) /\ (StaticsAhead(o)' <=> StaticsAhead(o))
  BY <1>1, StaticsFrame
<1>8. \A o : InScanner(o)' <=> InScanner(o)
  BY <1>1 DEF InScanner
<1>9. \A q \in Root : root[q] \in Object => root'[q] = root[q]
  BY <1>1, <1>3, WordAssumption
<1>10. \A o \in Object : InGlobals(o) => InGlobals(o)'
  BY <1>1, <1>9 DEF InGlobals, Tables, RootTable
<1>11. \A o \in Object : InGlobals(o)' => InGlobals(o) \/ o = v
  BY <1>1, <1>3 DEF InGlobals, Tables, RootTable
<1>12. \A o \in Object : GlobalsAhead(o) => GlobalsAhead(o)'
  <2>1. \A i \in 1..total_global_roots : global_roots[i] \in Root
    BY DEF Tables, RootTable
  <2> QED
    BY <1>1, <1>9, <2>1 DEF GlobalsAhead
<1>13. \A o : ScannerAhead(o)' <=> ScannerAhead(o)
  BY <1>1, <1>8 DEF ScannerAhead
<1>14. \A o \in Object : Ahead(o) => Ahead(o)'
  BY <1>1, <1>7, <1>12, <1>13 DEF Ahead
<1>15. \A o \in Object : InPlaces(o) => InPlaces(o)'
  BY <1>7, <1>8, <1>10 DEF InPlaces
<1>16. \A o \in Object : InPlaces(o)' => Accessible(o)
  BY <1>1, <1>7, <1>8, <1>11 DEF InPlaces, Accessible
<1>17. wpc' = wpc
  BY <1>1 DEF staticVars
<1> QED
  BY <1>1, <1>6, <1>14, <1>15, <1>16, <1>17, PlacesSafe

(* The scanner that was there is replaced; what it knew of is exposed. *)
LEMMA StoreScannerSafe ==
  ASSUME RunInv, NEW m \in Mutator, NEW f \in Scanner, StoreScanner(m, f)
  PROVE  RunInv'
<1> USE DEF RunInv
<1>1. /\ f \notin offered /\ offered' = offered \cup {f} /\ root_scanner' = f
      /\ reg' = [reg EXCEPT ![m] = total_root_scanners] /\ rpc' = [rpc EXCEPT ![m] = "scanner"]
      /\ exposed' = exposed \cup {o \in Object : root_scanner # NULL /\ hidden[root_scanner] = o}
      /\ rpc[m] = "run"
      /\ global_roots' = global_roots /\ root' = root
      /\ total_global_roots' = total_global_roots /\ registered' = registered
      /\ total_root_scanners' = total_root_scanners /\ hidden' = hidden
      /\ regs' = regs /\ free' = free /\ white' = white
      /\ tpc' = tpc /\ args' = args /\ child' = child
      /\ signalled' = signalled /\ gcpc' = gcpc /\ index' = index /\ saved' = saved
      /\ saved_no_write_barrier_state' = saved_no_write_barrier_state
      /\ no_write_barrier_state' = no_write_barrier_state /\ registered_word' = registered_word
      /\ UNCHANGED staticVars /\ wpc' = wpc
  BY DEF StoreScanner, Idle, globalVars, threadVars, wordVars, gcVars, staticVars
<1>2. /\ rpc \in [Mutator -> {"run", "count", "scanner"}]
      /\ reg \in [Mutator -> Root \cup Nat \cup {NULL}]
      /\ total_root_scanners \in Nat /\ hidden[f] = NULL
      /\ total_root_scanners > 0 => root_scanner # NULL
  BY <1>1 DEF Tables, Registering, Scanners
<1>3. RootTable' /\ WordInv'
  BY <1>1 DEF Tables, RootTable, WordInv
<1>4. Registering'
  <2>1. rpc' \in [Mutator -> {"run", "count", "scanner"}] /\ reg' \in [Mutator -> Root \cup Nat \cup {NULL}]
    BY <1>1, <1>2
  <2>2. \A k \in Mutator : rpc'[k] = "count" => rpc[k] = "count" /\ reg'[k] = reg[k]
    BY <1>1, <1>2
  <2>3. \A k \in Mutator : rpc'[k] = "scanner" => reg'[k] \in Nat /\ root_scanner' # NULL
    <3>1. f # NULL
      BY NullAssumption
    <3> QED
      BY <1>1, <1>2, <3>1 DEF Tables, Registering
  <2> QED
    BY <1>1, <2>1, <2>2, <2>3 DEF Tables, Registering
<1>5. Scanners'
  BY <1>1, NullAssumption DEF Tables, Scanners
<1>6. Tables' /\ Space' /\ Threads' /\ Phase'
  BY <1>1, <1>3, <1>4, <1>5, WalkFrame, ThreadsFrame, PhaseFrame DEF Space, Tables, threadVars
<1>7. \A o : (InStatics(o)' <=> InStatics(o)) /\ (StaticsAhead(o)' <=> StaticsAhead(o))
  BY <1>1, StaticsFrame
<1>8. \A o : (InGlobals(o)' <=> InGlobals(o)) /\ (GlobalsAhead(o)' <=> GlobalsAhead(o))
  BY <1>1 DEF InGlobals, GlobalsAhead
<1>9. \A o \in Object : (InScanner(o) => o \in exposed') /\ ~InScanner(o)'
  BY <1>1, <1>2, WordAssumption DEF InScanner
<1>10. \A o \in Object : (InPlaces(o) => InPlaces(o)' \/ o \in exposed') /\ (InPlaces(o)' => InPlaces(o))
  BY <1>7, <1>8, <1>9 DEF InPlaces
<1>11. \A o \in Object : Ahead(o) => Ahead(o)' \/ o \in exposed'
  BY <1>1, <1>7, <1>8, <1>9 DEF Ahead, ScannerAhead
<1>12. Copied'
  <2>1. WordCopy' = WordCopy
    BY <1>1 DEF WordCopy
  <2>2. \A n \in Mutator : \A x \in regs'[n] : x \in Object /\ x \in regs[n]
    BY <1>1 DEF Threads
  <2>3. exposed \subseteq exposed'
    BY <1>1
  <2> QED
    BY <1>1, <1>10, <2>1, <2>2, <2>3, CopiesSafe
<1>13. WhiteAhead' /\ NoneFree'
  <2>1. \A o \in Object : Accessible(o)' => Accessible(o) \/ o \in free \ free'
    BY <1>1, <1>10 DEF Accessible
  <2>2. \A o \in exposed : o \in exposed' \/ o \in free \ free'
    BY <1>1
  <2> QED
    BY <1>1, <1>11, <2>1, <2>2, ClientSafe
<1> QED
  BY <1>6, <1>12, <1>13

(* It is counted: now the client may use it. *)
LEMMA CountScannerSafe ==
  ASSUME RunInv, NEW m \in Mutator, CountScanner(m)
  PROVE  RunInv'
<1> USE DEF RunInv
<1>1. /\ rpc[m] = "scanner" /\ total_root_scanners' = reg[m] + 1
      /\ reg' = [reg EXCEPT ![m] = NULL] /\ rpc' = [rpc EXCEPT ![m] = "run"]
      /\ global_roots' = global_roots /\ root' = root
      /\ total_global_roots' = total_global_roots /\ registered' = registered
      /\ root_scanner' = root_scanner /\ hidden' = hidden /\ offered' = offered
      /\ gcpc' = gcpc /\ index' = index /\ saved' = saved
      /\ saved_no_write_barrier_state' = saved_no_write_barrier_state
      /\ UNCHANGED staticVars /\ wpc' = wpc
      /\ UNCHANGED <<heapVars, regs, threadVars, wordVars, gcVars>>
  BY DEF CountScanner, globalVars, gcVars, staticVars
<1>2. /\ rpc \in [Mutator -> {"run", "count", "scanner"}]
      /\ reg \in [Mutator -> Root \cup Nat \cup {NULL}]
      /\ reg[m] \in Nat /\ root_scanner # NULL /\ root_scanner \in Scanner
      /\ total_root_scanners \in Nat
      /\ total_root_scanners = 0 => \A f \in Scanner : hidden[f] = NULL
  BY <1>1 DEF Tables, Registering, Scanners
<1>3. total_root_scanners' \in Nat /\ total_root_scanners' > 0
  BY <1>1, <1>2
<1>4. Registering'
  <2>1. rpc' \in [Mutator -> {"run", "count", "scanner"}] /\ reg' \in [Mutator -> Root \cup Nat \cup {NULL}]
    BY <1>1, <1>2
  <2>2. \A k \in Mutator : rpc'[k] # "run" => rpc'[k] = rpc[k] /\ reg'[k] = reg[k]
    BY <1>1, <1>2
  <2> QED
    BY <1>1, <2>1, <2>2 DEF Tables, Registering
<1>5. Scanners'
  BY <1>1, <1>2, <1>3 DEF Tables, Scanners
<1>6. RootTable' /\ WordInv'
  BY <1>1 DEF Tables, RootTable, WordInv, wordVars
<1>7. Tables' /\ Space'
  BY <1>1, <1>4, <1>5, <1>6, WalkFrame DEF Space, Tables
<1>8. \A o : (InStatics(o)' <=> InStatics(o)) /\ (StaticsAhead(o)' <=> StaticsAhead(o))
  BY <1>1, StaticsFrame
<1>9. \A o : (InGlobals(o)' <=> InGlobals(o)) /\ (GlobalsAhead(o)' <=> GlobalsAhead(o))
  BY <1>1 DEF InGlobals, GlobalsAhead
<1>10. \A o \in Object : InScanner(o)' <=> InScanner(o)
  BY <1>1, <1>2, <1>3, WordAssumption DEF InScanner
<1>11. \A o \in Object : InPlaces(o)' <=> InPlaces(o)
  BY <1>8, <1>9, <1>10 DEF InPlaces
<1>12. \A o \in Object : Ahead(o) => Ahead(o)'
  BY <1>1, <1>8, <1>9, <1>10 DEF Ahead, ScannerAhead
<1>13. \A o : InPlaces(o) => Accessible(o)
  BY DEF Accessible
<1> QED
  BY <1>1, <1>7, <1>11, <1>12, <1>13, PlacesSafe

(* The client puts an object where the installed scanner will find it. *)
LEMMA StoreHiddenSafe ==
  ASSUME RunInv, NEW m \in Mutator, NEW f \in Scanner, NEW v \in Object, StoreHidden(m, f, v)
  PROVE  RunInv'
<1> USE DEF RunInv
<1>1. /\ root_scanner = f /\ total_root_scanners > 0 /\ hidden[f] = NULL /\ v \in regs[m]
      /\ hidden' = [hidden EXCEPT ![f] = v]
      /\ rpc' = rpc /\ reg' = reg /\ global_roots' = global_roots /\ root' = root
      /\ total_global_roots' = total_global_roots /\ registered' = registered
      /\ root_scanner' = root_scanner /\ total_root_scanners' = total_root_scanners
      /\ offered' = offered
      /\ gcpc' = gcpc /\ index' = index /\ saved' = saved
      /\ saved_no_write_barrier_state' = saved_no_write_barrier_state
      /\ UNCHANGED staticVars /\ wpc' = wpc
      /\ UNCHANGED <<heapVars, regs, threadVars, wordVars, gcVars>>
  BY DEF StoreHidden, Installed, globalVars, gcVars, staticVars
<1>2. f \in offered
  BY <1>1, NullAssumption DEF Tables, Scanners
<1>3. Scanners'
  BY <1>1, <1>2 DEF Tables, Scanners
<1>4. RootTable' /\ Registering' /\ WordInv'
  BY <1>1 DEF Tables, RootTable, Registering, WordInv, wordVars
<1>5. Tables' /\ Space'
  BY <1>1, <1>3, <1>4, WalkFrame DEF Space, Tables
<1>6. \A o : (InStatics(o)' <=> InStatics(o)) /\ (StaticsAhead(o)' <=> StaticsAhead(o))
  BY <1>1, StaticsFrame
<1>7. \A o : (InGlobals(o)' <=> InGlobals(o)) /\ (GlobalsAhead(o)' <=> GlobalsAhead(o))
  BY <1>1 DEF InGlobals, GlobalsAhead
<1>8. \A o \in Object : ~InScanner(o) /\ (InScanner(o)' => o = v)
  BY <1>1, WordAssumption DEF InScanner, Tables, Scanners
<1>9. \A o \in Object : InPlaces(o) => InPlaces(o)'
  BY <1>6, <1>7, <1>8 DEF InPlaces
<1>10. \A o \in Object : InPlaces(o)' => Accessible(o)
  BY <1>1, <1>6, <1>7, <1>8 DEF InPlaces, Accessible
<1>11. \A o \in Object : Ahead(o) => Ahead(o)'
  BY <1>1, <1>6, <1>7, <1>8 DEF Ahead, ScannerAhead
<1> QED
  BY <1>1, <1>5, <1>9, <1>10, <1>11, PlacesSafe

-----------------------------------------------------------------------------
(***************************************************************************)
(* Threads.                                                                *)
(***************************************************************************)

(***************************************************************************)
(* A step in the life of a thread is safe if its stack and args get only   *)
(* what a client can get at, and a copied stack during a flip only what is *)
(* exposed.                                                                *)
(***************************************************************************)
LEMMA ThreadSafe ==
  ASSUME RunInv, Threads', exposed \subseteq exposed',
         UNCHANGED <<staticVars, free, white, regVars, wordVars, gcVars>>,
         \A m \in Mutator : \A o \in Object :
            o \in regs'[m] \/ args'[m] = o => \E n \in Mutator : o \in regs[n] \/ args[n] = o,
         Stopping => \A m \in Mutator : \A o \in regs'[m] : o \in regs[m] \/ o \in exposed'
  PROVE  RunInv'
<1> USE DEF RunInv
<1>1. /\ signalled' = signalled /\ gcpc' = gcpc /\ index' = index /\ wpc' = wpc /\ saved' = saved
      /\ free' = free /\ white' = white
      /\ no_write_barrier_state' = no_write_barrier_state
      /\ saved_no_write_barrier_state' = saved_no_write_barrier_state
      /\ UNCHANGED aheadVars /\ UNCHANGED placeVars
  BY DEF gcVars, aheadVars, placeVars, staticVars, regVars, globalVars, scannerVars, wordVars
<1>2. Phase' /\ Tables' /\ Space'
  BY <1>1, PhaseFrame, TablesFrame, WalkFrame DEF Space
<1>3. \A x : InPlaces(x)' <=> InPlaces(x)
  BY <1>1, PlacesFrame
<1>4. Copied'
  <2>1. CASE ~Stopping
    BY <1>1, <2>1 DEF Copied, Stopping
  <2>2. CASE Stopping
    <3>1. WordCopy' = WordCopy
      BY <1>1 DEF WordCopy
    <3>2. \A n \in Mutator \ signalled : \A x \in regs'[n] :
            x \in Object /\ (x \in regs[n] \/ x \in exposed' \/ HasCopy(x))
      BY <2>2 DEF Threads
    <3> QED
      BY <1>1, <1>3, <3>1, <3>2, CopiesSafe
  <2> QED
    BY <2>1, <2>2
<1>5. \A x \in Object : Accessible(x)' => Accessible(x) \/ x \in free \ free'
  BY <1>1, <1>3 DEF Accessible
<1>6. \A x : Ahead(x)' <=> Ahead(x)
  BY <1>1, AheadFrame
<1>7. WhiteAhead' /\ NoneFree'
  BY <1>1, <1>5, <1>6, ClientSafe
<1> QED
  BY <1>2, <1>4, <1>7

(* RTpthread_create puts what its caller holds into args. *)
LEMMA CreateSafe ==
  ASSUME RunInv, NEW m \in Mutator, NEW c \in Mutator, NEW v \in Object \cup {NULL},
         RTpthread_create(m, c, v)
  PROVE  RunInv'
<1> USE DEF RunInv
<1>1. /\ tpc[m] = "run" /\ ~Stopping /\ tpc[c] = "new" /\ v \in regs[m] \cup {NULL}
      /\ args' = [args EXCEPT ![c] = v]
      /\ tpc' = [tpc EXCEPT ![m] = "spin", ![c] = "starting"]
      /\ child' = [child EXCEPT ![m] = c]
      /\ regs' = regs /\ exposed' = exposed /\ signalled' = signalled /\ gcpc' = gcpc
      /\ UNCHANGED <<staticVars, free, white, regVars, wordVars, gcVars>>
  BY DEF RTpthread_create, Idle, heapVars, gcVars
<1>2. m # c /\ c # NULL /\ signalled = {} /\ child[c] = NULL /\ regs[c] = {}
  BY <1>1, NullAssumption DEF Threads
<1>3. /\ tpc'[m] = "spin" /\ tpc'[c] = "starting" /\ child'[m] = c /\ args'[c] = v
      /\ \A k \in Mutator \ {m, c} : tpc'[k] = tpc[k]
      /\ \A k \in Mutator \ {m} : child'[k] = child[k]
      /\ \A k \in Mutator \ {c} : args'[k] = args[k]
      /\ tpc' \in [Mutator -> {"new", "starting", "live", "started", "run", "spin"}]
      /\ args' \in [Mutator -> Object \cup {NULL}]
      /\ child' \in [Mutator -> Mutator \cup {NULL}]
      /\ regs \in [Mutator -> SUBSET Object]
  BY <1>1, <1>2 DEF Threads
<1>4. Threads'
  <2>1. \A k \in Mutator : /\ tpc'[k] = "spin" <=> child'[k] # NULL
                           /\ args'[k] # NULL => tpc'[k] \in {"starting", "live", "started"}
                           /\ regs'[k] # {} => tpc'[k] \in {"run", "spin"}
    BY <1>1, <1>2, <1>3 DEF Threads
  <2>2. signalled' \subseteq LiveThreads' /\ (~Stopping' => signalled' = {})
    BY <1>1, <1>2
  <2> QED
    BY <1>1, <1>3, <2>1, <2>2 DEF Threads
<1>5. \A k \in Mutator : \A o \in Object :
        o \in regs'[k] \/ args'[k] = o => \E n \in Mutator : o \in regs[n] \/ args[n] = o
  BY <1>1, <1>3, WordAssumption
<1> QED
  BY <1>1, <1>4, <1>5, ThreadSafe

(* The new thread gets on the list, and its creator may see it started. *)
LEMMA StartSafe ==
  ASSUME RunInv, NEW m \in Mutator, make_thread_live(m) \/ SetStarted(m) \/ CreateReturns(m)
  PROVE  RunInv'
<1> USE DEF RunInv
<1>1. /\ regs' = regs /\ args' = args /\ exposed' = exposed /\ signalled' = signalled /\ gcpc' = gcpc
      /\ UNCHANGED <<staticVars, free, white, regVars, wordVars, gcVars>>
  BY DEF make_thread_live, SetStarted, CreateReturns, heapVars, gcVars
<1>2. \/ tpc[m] = "starting" /\ tpc' = [tpc EXCEPT ![m] = "live"] /\ child' = child
      \/ tpc[m] = "live" /\ tpc' = [tpc EXCEPT ![m] = "started"] /\ child' = child
      \/ tpc[m] = "spin" /\ tpc' = [tpc EXCEPT ![m] = "run"] /\ child' = [child EXCEPT ![m] = NULL]
  BY DEF make_thread_live, SetStarted, CreateReturns
<1>3. Threads'
  <2>1. /\ tpc' \in [Mutator -> {"new", "starting", "live", "started", "run", "spin"}]
        /\ child' \in [Mutator -> Mutator \cup {NULL}]
    BY <1>2 DEF Threads
  <2>2. \A k \in Mutator : /\ tpc'[k] = "spin" <=> child'[k] # NULL
                           /\ args'[k] # NULL => tpc'[k] \in {"starting", "live", "started"}
                           /\ regs'[k] # {} => tpc'[k] \in {"run", "spin"}
    BY <1>1, <1>2 DEF Threads
  <2>3. LiveThreads \subseteq LiveThreads'
    BY <1>2 DEF Threads, LiveThreads
  <2> QED
    BY <1>1, <2>1, <2>2, <2>3 DEF Threads, Stopping
<1> QED
  BY <1>1, <1>3, ThreadSafe

(* start_func gets args, which during a flip nobody has copied. *)
LEMMA CallStartFuncSafe ==
  ASSUME RunInv, NEW m \in Mutator, CallStartFunc(m)
  PROVE  RunInv'
<1> USE DEF RunInv
<1>1. /\ tpc[m] = "started"
      /\ regs' = [regs EXCEPT ![m] = {args[m]} \ {NULL}]
      /\ args' = [args EXCEPT ![m] = NULL]
      /\ tpc' = [tpc EXCEPT ![m] = "run"]
      /\ exposed' = IF Stopping THEN exposed \cup ({args[m]} \ {NULL}) ELSE exposed
      /\ child' = child /\ signalled' = signalled /\ gcpc' = gcpc
      /\ UNCHANGED <<staticVars, free, white, regVars, wordVars, gcVars>>
  BY DEF CallStartFunc, gcVars
<1>2. args[m] \in Object \cup {NULL}
  BY DEF Threads
<1>3. /\ regs' \in [Mutator -> SUBSET Object] /\ args' \in [Mutator -> Object \cup {NULL}]
      /\ tpc' \in [Mutator -> {"new", "starting", "live", "started", "run", "spin"}]
      /\ regs'[m] = {args[m]} \ {NULL} /\ args'[m] = NULL /\ tpc'[m] = "run"
      /\ \A k \in Mutator \ {m} : regs'[k] = regs[k] /\ args'[k] = args[k] /\ tpc'[k] = tpc[k]
  BY <1>1, <1>2 DEF Threads
<1>4. Threads'
  <2>1. \A k \in Mutator : /\ tpc'[k] = "spin" <=> child'[k] # NULL
                           /\ args'[k] # NULL => tpc'[k] \in {"starting", "live", "started"}
                           /\ regs'[k] # {} => tpc'[k] \in {"run", "spin"}
    BY <1>1, <1>3 DEF Threads
  <2>2. LiveThreads \subseteq LiveThreads'
    BY <1>3 DEF LiveThreads
  <2> QED
    BY <1>1, <1>3, <2>1, <2>2 DEF Threads, Stopping
<1>5. \A k \in Mutator : \A o \in Object :
        o \in regs'[k] \/ args'[k] = o => \E n \in Mutator : o \in regs[n] \/ args[n] = o
  BY <1>3, WordAssumption
<1>6. Stopping => \A k \in Mutator : \A o \in regs'[k] : o \in regs[k] \/ o \in exposed'
  BY <1>1, <1>3
<1>7. exposed \subseteq exposed'
  BY <1>1
<1> QED
  BY <1>1, <1>4, <1>5, <1>6, <1>7, ThreadSafe

(* A thread exits with what is on its stack. *)
LEMMA ThreadExitsSafe ==
  ASSUME RunInv, NEW m \in Mutator, ThreadExits(m)
  PROVE  RunInv'
<1> USE DEF RunInv
<1>1. /\ tpc[m] = "run" /\ ~Stopping
      /\ regs' = [regs EXCEPT ![m] = {}]
      /\ tpc' = [tpc EXCEPT ![m] = "new"]
      /\ args' = args /\ exposed' = exposed /\ child' = child /\ signalled' = signalled /\ gcpc' = gcpc
      /\ UNCHANGED <<staticVars, free, white, regVars, wordVars, gcVars>>
  BY DEF ThreadExits, Idle, heapVars, gcVars
<1>2. signalled = {}
  BY <1>1 DEF Threads
<1>3. Threads'
  BY <1>1, <1>2 DEF Threads, Stopping
<1>4. \A k \in Mutator : \A o \in Object :
        o \in regs'[k] \/ args'[k] = o => \E n \in Mutator : o \in regs[n] \/ args[n] = o
  BY <1>1 DEF Threads
<1> QED
  BY <1>1, <1>3, <1>4, ThreadSafe

-----------------------------------------------------------------------------
(***************************************************************************)
(* The flip.                                                               *)
(***************************************************************************)

(* Whoever is not signalled has no stack yet. *)
LEMMA SignalSafe ==
  ASSUME RunInv, SignalMutators
  PROVE  RunInv'
<1> USE DEF RunInv
<1>1. /\ gcpc = "idle" /\ gcpc' = "signal"
      /\ signalled' = LiveThreads /\ saved' = {} /\ exposed' = exposed \cap free
      /\ regs' = regs /\ tpc' = tpc /\ args' = args /\ child' = child
      /\ free' = free /\ white' = white /\ index' = index /\ wpc' = wpc
      /\ no_write_barrier_state' = no_write_barrier_state
      /\ UNCHANGED staticVars /\ UNCHANGED <<regVars, wordVars>> /\ UNCHANGED placeVars
  BY DEF SignalMutators, threadVars, placeVars, staticVars, regVars, globalVars, scannerVars, wordVars
<1>2. LiveThreads' = LiveThreads
  BY <1>1 DEF LiveThreads
<1>3. Threads'
  BY <1>1, <1>2 DEF Threads, Stopping
<1>4. Phase'
  BY <1>1 DEF Phase
<1>5. Tables' /\ Space'
  BY <1>1, TablesFrame, WalkFrame DEF Space
<1>6. Copied'
  <2>1. \A m \in Mutator \ signalled' : regs'[m] = {}
    BY <1>1 DEF Threads, LiveThreads
  <2> QED
    BY <1>1, <2>1 DEF Copied
<1>7. \A x : InPlaces(x)' <=> InPlaces(x)
  BY <1>1, PlacesFrame
<1>8. NoneFree'
  BY <1>1, <1>7 DEF NoneFree, Accessible
<1>9. WhiteAhead'
  BY <1>1 DEF WhiteAhead, Marking
<1> QED
  BY <1>3, <1>4, <1>5, <1>6, <1>8, <1>9

(* The word is copied: it is empty as long as nobody has registered it. *)
LEMMA SaveWordSafe ==
  ASSUME RunInv, SaveNoBarrierState
  PROVE  RunInv'
<1> USE DEF RunInv
<1>1. /\ gcpc = "signal" /\ gcpc' = "halt"
      /\ saved_no_write_barrier_state' = IF registered_word THEN no_write_barrier_state
                                         ELSE saved_no_write_barrier_state
      /\ signalled' = signalled /\ saved' = saved /\ exposed' = exposed
      /\ regs' = regs /\ tpc' = tpc /\ args' = args /\ child' = child
      /\ free' = free /\ white' = white /\ index' = index /\ wpc' = wpc
      /\ no_write_barrier_state' = no_write_barrier_state
      /\ UNCHANGED staticVars /\ UNCHANGED <<regVars, wordVars>> /\ UNCHANGED placeVars
  BY DEF SaveNoBarrierState, heapVars, threadVars, placeVars, staticVars, regVars, globalVars,
         scannerVars, wordVars
<1>2. Threads'
  BY <1>1 DEF Threads, LiveThreads, Stopping
<1>3. Phase'
  BY <1>1 DEF Phase
<1>4. Tables' /\ Space'
  BY <1>1, TablesFrame, WalkFrame DEF Space
<1>5. \A x : InPlaces(x)' <=> InPlaces(x)
  BY <1>1, PlacesFrame
<1>6. no_write_barrier_state # NULL => saved_no_write_barrier_state' = no_write_barrier_state
  BY <1>1 DEF Tables, WordInv
<1>7. Copied'
  <2>1. ASSUME NEW m \in Mutator \ signalled', NEW o \in regs'[m] \ exposed'
        PROVE  HasCopy(o)'
    <3>1. HasCopy(o)
      BY <1>1, <2>1 DEF Copied, Stopping
    <3>2. o # NULL
      BY <1>1, <2>1, WordAssumption DEF Threads
    <3> QED
      BY <1>1, <1>5, <1>6, <3>1, <3>2 DEF HasCopy, WordCopy
  <2> QED
    BY <1>1, <1>6, <2>1 DEF Copied
<1>8. NoneFree'
  BY <1>1, <1>5 DEF NoneFree, Accessible
<1>9. WhiteAhead'
  BY <1>1 DEF WhiteAhead, Marking
<1> QED
  BY <1>2, <1>3, <1>4, <1>7, <1>8, <1>9

(* A handler copies its stack. *)
LEMMA HandlerSafe ==
  ASSUME RunInv, NEW m \in Mutator, gc_flip_action_func(m)
  PROVE  RunInv'
<1> USE DEF RunInv
<1>1. /\ m \in signalled /\ saved' = saved \cup regs[m] /\ signalled' = signalled \ {m}
      /\ gcpc' = gcpc /\ saved_no_write_barrier_state' = saved_no_write_barrier_state
      /\ exposed' = exposed /\ regs' = regs /\ tpc' = tpc /\ args' = args /\ child' = child
      /\ free' = free /\ white' = white /\ index' = index /\ wpc' = wpc
      /\ no_write_barrier_state' = no_write_barrier_state
      /\ UNCHANGED staticVars /\ UNCHANGED <<regVars, wordVars>> /\ UNCHANGED placeVars
  BY DEF gc_flip_action_func, heapVars, threadVars, placeVars, staticVars, regVars, globalVars,
         scannerVars, wordVars
<1>2. Stopping
  BY <1>1 DEF Threads
<1>3. Threads'
  BY <1>1 DEF Threads, LiveThreads, Stopping
<1>4. Phase' /\ Tables' /\ Space'
  BY <1>1, PhaseFrame, TablesFrame, WalkFrame DEF Space
<1>5. \A x : InPlaces(x)' <=> InPlaces(x)
  BY <1>1, PlacesFrame
<1>6. Copied'
  <2>1. ASSUME NEW n \in Mutator \ signalled', NEW o \in regs'[n] \ exposed'
        PROVE  HasCopy(o)'
    <3>1. CASE n = m
      BY <1>1, <2>1, <3>1 DEF HasCopy
    <3>2. CASE n # m
      <4>1. HasCopy(o)
        BY <1>1, <1>2, <2>1, <3>2 DEF Copied
      <4> QED
        BY <1>1, <1>5, <4>1 DEF HasCopy, WordCopy
    <3> QED
      BY <3>1, <3>2
  <2> QED
    BY <1>1, <1>2, <2>1 DEF Copied
<1>7. NoneFree'
  BY <1>1, <1>5 DEF NoneFree, Accessible
<1>8. WhiteAhead'
  BY <1>1, <1>2 DEF WhiteAhead, Marking, Stopping
<1> QED
  BY <1>3, <1>4, <1>6, <1>7, <1>8

(***************************************************************************)
(* When the colours swap, whatever a client can get at has a copy, or is   *)
(* in a place nobody has looked at yet, or is exposed.                     *)
(***************************************************************************)
LEMMA SwapSafe ==
  ASSUME RunInv, SwapColors
  PROVE  RunInv'
<1> USE DEF RunInv
<1>1. /\ gcpc = "halt" /\ signalled = {} /\ white' = Object \ free /\ gcpc' = "threads"
      /\ exposed' = (exposed \cap free)
                      \cup (((exposed \cup {args[c] : c \in Mutator}) \ {NULL})
                              \ (saved \cup {saved_no_write_barrier_state}))
      /\ saved' = saved /\ signalled' = signalled
      /\ saved_no_write_barrier_state' = saved_no_write_barrier_state
      /\ regs' = regs /\ tpc' = tpc /\ args' = args /\ child' = child
      /\ free' = free /\ index' = index /\ wpc' = wpc
      /\ no_write_barrier_state' = no_write_barrier_state
      /\ total_global_roots' = total_global_roots /\ global_roots' = global_roots /\ root' = root
      /\ UNCHANGED staticVars /\ UNCHANGED <<regVars, wordVars>> /\ UNCHANGED placeVars
  BY DEF SwapColors, threadVars, placeVars, staticVars, regVars, globalVars, scannerVars, wordVars
<1>2. Threads'
  BY <1>1 DEF Threads, LiveThreads, Stopping
<1>3. Phase'
  BY <1>1 DEF Phase
<1>4. Tables' /\ Space'
  BY <1>1, TablesFrame, WalkFrame DEF Space
<1>5. Copied'
  BY <1>1 DEF Copied, Stopping
<1>6. \A x : /\ InStatics(x)' <=> InStatics(x)
             /\ InScanner(x)' <=> InScanner(x)
             /\ InPlaces(x)' <=> InPlaces(x)
  BY <1>1, PlacesFrame
<1>7. NoneFree'
  BY <1>1, <1>6 DEF NoneFree, Accessible
<1>8. WhiteAhead'
  <2>1. SUFFICES ASSUME NEW o \in white' \ exposed', Accessible(o)'
                 PROVE  Ahead(o)'
    BY DEF WhiteAhead
  <2>2. o \in Object /\ o \notin free /\ o # NULL /\ Accessible(o)
    BY <1>1, <1>6, <2>1, WordAssumption DEF Accessible
  <2>3. ASSUME InPlaces(o)
        PROVE  Ahead(o)'
    <3>1. InGlobals(o) => GlobalsAhead(o)'
      BY <1>1 DEF InGlobals, GlobalsAhead, Tables, RootTable
    <3>2. InStatics(o) => StaticsAhead(o)'
      BY <1>1, <1>6 DEF StaticsAhead
    <3>3. InScanner(o) => ScannerAhead(o)'
      BY <1>1, <1>6 DEF ScannerAhead
    <3> QED
      BY <2>3, <3>1, <3>2, <3>3 DEF InPlaces, Ahead
  <2>4. ASSUME o \in saved \cup {saved_no_write_barrier_state}
        PROVE  Ahead(o)'
    BY <1>1, <2>4 DEF Ahead
  <2>5. ASSUME o \in exposed \/ \E m \in Mutator : args[m] = o
        PROVE  Ahead(o)'
    <3>1. o \in saved \cup {saved_no_write_barrier_state}
      BY <1>1, <2>1, <2>2, <2>5
    <3> QED
      BY <2>4, <3>1
  <2>6. ASSUME NEW m \in Mutator, o \in regs[m]
        PROVE  Ahead(o)'
    <3>1. o \in exposed \/ HasCopy(o)
      BY <1>1, <2>6 DEF Copied, Stopping
    <3> QED
      BY <1>1, <2>3, <2>4, <2>5, <3>1 DEF HasCopy, WordCopy
  <2>7. ASSUME no_write_barrier_state = o
        PROVE  Ahead(o)'
    <3>1. o \in exposed \/ o = saved_no_write_barrier_state
      BY <1>1, <2>2, <2>7 DEF Copied, Stopping
    <3> QED
      BY <2>4, <2>5, <3>1
  <2> QED
    BY <2>2, <2>3, <2>5, <2>6, <2>7 DEF Accessible
<1> QED
  BY <1>2, <1>3, <1>4, <1>5, <1>7, <1>8

-----------------------------------------------------------------------------
(***************************************************************************)
(* scan_root_set and the recycling.                                        *)
(***************************************************************************)

(***************************************************************************)
(* A step of the scan is safe if what it leaves white stays ahead of it.   *)
(***************************************************************************)
LEMMA ScanSafe ==
  ASSUME RunInv, Marking, Marking', Phase', Space', white' \subseteq white,
         UNCHANGED <<static, statics, free, exposed, regs, threadVars, regVars, wordVars, signalled>>,
         \A o \in white' : Ahead(o) => Ahead(o)'
  PROVE  RunInv'
<1> USE DEF RunInv
<1>1. /\ regs' = regs /\ tpc' = tpc /\ args' = args /\ child' = child /\ signalled' = signalled
      /\ free' = free /\ exposed' = exposed
      /\ no_write_barrier_state' = no_write_barrier_state /\ UNCHANGED placeVars
  BY DEF threadVars, wordVars, placeVars, regVars, globalVars, scannerVars
<1>2. ~Stopping /\ ~Stopping'
  BY DEF Marking, Stopping
<1>3. Threads'
  BY <1>1, <1>2 DEF Threads, LiveThreads
<1>4. Tables'
  BY TablesFrame
<1>5. Copied'
  BY <1>2 DEF Copied
<1>6. \A x : InPlaces(x)' <=> InPlaces(x)
  BY <1>1, PlacesFrame
<1>7. \A x : Accessible(x)' <=> Accessible(x)
  BY <1>1, <1>6 DEF Accessible
<1>8. WhiteAhead' /\ NoneFree'
  BY <1>1, <1>7 DEF WhiteAhead, NoneFree
<1> QED
  BY <1>3, <1>4, <1>5, <1>8

(* The copies are scanned. *)
LEMMA ScanThreadsSafe ==
  ASSUME RunInv, scan_threads
  PROVE  RunInv'
<1> USE DEF RunInv
<1>1. /\ gcpc = "threads" /\ white' = (white \ saved) \ {saved_no_write_barrier_state}
      /\ gcpc' = "globals" /\ index' = 0 /\ free' = free /\ wpc' = wpc
      /\ static' = static /\ statics' = statics
      /\ total_global_roots' = total_global_roots /\ global_roots' = global_roots /\ root' = root
      /\ UNCHANGED placeVars /\ UNCHANGED staticVars
      /\ UNCHANGED <<free, exposed, regs, threadVars, regVars, wordVars, signalled>>
  BY DEF scan_threads, placeVars, staticVars, regVars, globalVars, scannerVars
<1>2. Phase' /\ Space'
  BY <1>1, WalkFrame DEF Phase, Space
<1>3. ASSUME NEW o \in white', Ahead(o)
      PROVE  Ahead(o)'
  <2>1. InStatics(o)' <=> InStatics(o)
    BY <1>1, PlacesFrame
  <2>2. InScanner(o)' <=> InScanner(o)
    BY <1>1, PlacesFrame
  <2>3. GlobalsAhead(o) => GlobalsAhead(o)'
    BY <1>1 DEF GlobalsAhead
  <2>4. StaticsAhead(o) => StaticsAhead(o)'
    BY <1>1, <2>1 DEF StaticsAhead
  <2>5. ScannerAhead(o) => ScannerAhead(o)'
    BY <1>1, <2>2 DEF ScannerAhead
  <2>6. o \notin saved \cup {saved_no_write_barrier_state}
    BY <1>1
  <2> QED
    BY <1>3, <2>3, <2>4, <2>5, <2>6 DEF Ahead
<1>4. Marking /\ Marking' /\ white' \subseteq white
  BY <1>1 DEF Marking
<1> QED
  BY <1>1, <1>2, <1>3, <1>4, ScanSafe

(* A global root is scanned. *)
LEMMA ScanGlobalSafe ==
  ASSUME RunInv, scan_global_roots
  PROVE  RunInv'
<1> USE DEF RunInv
<1>1. /\ gcpc = "globals" /\ index < total_global_roots
      /\ white' = white \ {root[global_roots[index + 1]]}
      /\ index' = index + 1 /\ gcpc' = gcpc /\ free' = free /\ wpc' = wpc
      /\ static' = static /\ statics' = statics
      /\ total_global_roots' = total_global_roots /\ global_roots' = global_roots /\ root' = root
      /\ UNCHANGED placeVars /\ UNCHANGED staticVars
      /\ UNCHANGED <<free, exposed, regs, threadVars, regVars, wordVars, signalled>>
  BY DEF scan_global_roots, placeVars, staticVars, regVars, globalVars, scannerVars
<1>2. index \in Nat /\ total_global_roots \in Nat
  BY MaxGlobalRootsAssumption DEF Phase, Tables, RootTable
<1>3. Phase' /\ Space'
  BY <1>1, <1>2, WalkFrame DEF Phase, Space
<1>4. ASSUME NEW o \in white', Ahead(o)
      PROVE  Ahead(o)'
  <2>1. InScanner(o)' <=> InScanner(o)
    BY <1>1, PlacesFrame
  <2>2. GlobalsAhead(o) => GlobalsAhead(o)'
    <3>1. ASSUME GlobalsAhead(o)
          PROVE  GlobalsAhead(o)'
      <4>1. PICK i \in 1..total_global_roots : i > index /\ root[global_roots[i]] = o
        BY <1>1, <3>1 DEF GlobalsAhead
      <4>2. i # index + 1
        BY <1>1, <4>1
      <4>3. i > index + 1
        BY <1>2, <4>1, <4>2
      <4> QED
        BY <1>1, <4>1, <4>3 DEF GlobalsAhead
    <3> QED
      BY <3>1
  <2>3. StaticsAhead(o) => StaticsAhead(o)'
    BY <1>1, StaticsFrame
  <2>4. ScannerAhead(o) => ScannerAhead(o)'
    BY <1>1, <2>1 DEF ScannerAhead
  <2> QED
    BY <1>1, <1>4, <2>2, <2>3, <2>4 DEF Ahead
<1>5. Marking /\ Marking' /\ white' \subseteq white
  BY <1>1 DEF Marking
<1> QED
  BY <1>1, <1>3, <1>4, <1>5, ScanSafe

(* The walk begins when no counted root is left. *)
LEMMA GlobalsScannedSafe ==
  ASSUME RunInv, GlobalsScanned
  PROVE  RunInv'
<1> USE DEF RunInv
<1>1. /\ gcpc = "globals" /\ index >= total_global_roots /\ StartWalk
      /\ gcpc' = "static" /\ free' = free /\ white' = white /\ index' = index
      /\ UNCHANGED <<static, statics, free, exposed, regs, threadVars, regVars, wordVars, signalled>>
      /\ UNCHANGED placeVars
  BY DEF GlobalsScanned, StartWalk, heapVars, allocVars, placeVars, regVars, globalVars, scannerVars
<1>2. wpc' = "header" /\ before' = statics /\ visited' = {}
  BY <1>1 DEF StartWalk
<1>3. Space'
  BY <1>1, StartWalkWalk DEF Space
<1>4. Phase'
  BY <1>1, <1>2 DEF Phase
<1>5. ASSUME NEW o \in white', Ahead(o)
      PROVE  Ahead(o)'
  <2>1. InScanner(o)' <=> InScanner(o)
    BY <1>1, PlacesFrame
  <2>2. ~GlobalsAhead(o)
    <3>1. index \in Nat /\ total_global_roots \in Nat
      BY MaxGlobalRootsAssumption DEF Phase, Tables, RootTable
    <3> QED
      BY <1>1, <3>1 DEF GlobalsAhead
  <2>3. StaticsAhead(o) => StaticsAhead(o)'
    <3>1. InStatics(o) => InStatics(o)'
      BY <1>1, PlacesFrame
    <3> QED
      BY <1>1, <1>2, <3>1 DEF StaticsAhead, InStatics
  <2>4. ScannerAhead(o) => ScannerAhead(o)'
    BY <1>1, <2>1 DEF ScannerAhead
  <2> QED
    BY <1>1, <1>5, <2>2, <2>3, <2>4 DEF Ahead
<1>6. Marking /\ Marking' /\ white' \subseteq white
  BY <1>1 DEF Marking
<1> QED
  BY <1>1, <1>3, <1>4, <1>5, <1>6, ScanSafe

(* A step of the walk. *)
LEMMA WalkSafe ==
  ASSUME RunInv, scan_static_space
  PROVE  RunInv'
<1> USE DEF RunInv
<1>1. /\ gcpc = "static" /\ gcpc' = "static" /\ index' = index
      /\ UNCHANGED <<free, exposed, regs, threadVars, regVars, wordVars, signalled>>
  BY DEF scan_static_space, gcVars
<1>2. /\ UNCHANGED <<static, statics>> /\ before' = before
      /\ wpc' # "idle" /\ white' \subseteq white
  BY DEF scan_static_space, ReadSize, ReadClass, ScanWord, Stray, allocVars
<1>3. UNCHANGED placeVars
  BY <1>1, <1>2 DEF placeVars, regVars, globalVars, scannerVars
<1>4. Phase'
  BY <1>1, <1>2 DEF Phase
<1>5. StaticSpaceInv /\ WalkInv /\ before \subseteq statics /\ \A h : Body(h)' = Body(h)
  BY <1>1, <1>3, BeforeFinished, PlacesFrame DEF Space
<1>6. Marking /\ Marking'
  BY <1>1 DEF Marking
<1>7. ASSUME \A o \in white' : StaticsAhead(o) => StaticsAhead(o)'
      PROVE  \A o \in white' : Ahead(o) => Ahead(o)'
  <2>1. \A o : InScanner(o)' <=> InScanner(o)
    BY <1>3, PlacesFrame
  <2>2. \A o : ~GlobalsAhead(o)
    BY <1>1 DEF GlobalsAhead
  <2> QED
    BY <1>1, <1>7, <2>1, <2>2 DEF Ahead, ScannerAhead
<1>8. ASSUME NEW o, StaticsAhead(o)
      PROVE  \E h \in before : \E w \in Body(h) :
               /\ static[w] = o
               /\ h \notin visited \/ (wpc \in {"class", "scan"} /\ w \in low..(low + length - 1))
  BY <1>1, <1>8 DEF StaticsAhead
<1>9. CASE ReadSize
  <2>1. /\ Space'
        /\ \A h \in before \ visited :
             \/ h \notin visited'
             \/ wpc' = "class" /\ low' = h + 1 /\ length' = static[h].size
    BY <1>5, <1>9, ReadSizeWalk DEF Space
  <2>2. wpc = "header"
    BY <1>9 DEF ReadSize
  <2>3. ASSUME NEW o \in white', StaticsAhead(o)
        PROVE  StaticsAhead(o)'
    <3>1. PICK h \in before : \E w \in Body(h) : static[w] = o /\ h \notin visited
      BY <1>8, <2>2, <2>3
    <3>2. PICK w \in Body(h) : static[w] = o /\ h \notin visited
      BY <3>1
    <3>3. CASE h \notin visited'
      BY <1>1, <1>2, <1>5, <3>2, <3>3 DEF StaticsAhead
    <3>4. CASE wpc' = "class" /\ low' = h + 1 /\ length' = static[h].size
      <4>1. h \in Nat /\ static[h].size \in 0..last_static_ptr
        BY <1>5, Apart DEF StaticSpaceInv
      <4>2. w \in low'..(low' + length' - 1)
        BY <3>4, <4>1, StaticAssumption DEF Body
      <4> QED
        BY <1>1, <1>2, <1>5, <3>2, <3>4, <4>2 DEF StaticsAhead
    <3> QED
      BY <2>1, <3>2, <3>3, <3>4
  <2> QED
    BY <1>1, <1>2, <1>4, <1>6, <1>7, <2>1, <2>3, ScanSafe
<1>10. CASE ReadClass
  <2>1. /\ Space'
        /\ \A h \in statics : \A w \in Body(h) :
             static[w] \in Object /\ w \in low..(low + length - 1) => wpc' = "scan"
    BY <1>5, <1>10, ReadClassWalk DEF Space
  <2>2. low' = low /\ length' = length /\ visited' = visited
    BY <1>10 DEF ReadClass
  <2>3. ASSUME NEW o \in white', StaticsAhead(o)
        PROVE  StaticsAhead(o)'
    <3>1. o \in Object
      BY <1>2 DEF Phase
    <3>2. PICK h \in before : \E w \in Body(h) : static[w] = o /\ (h \notin visited \/ w \in low..(low + length - 1))
      BY <1>8, <2>3
    <3>3. PICK w \in Body(h) : static[w] = o /\ (h \notin visited \/ w \in low..(low + length - 1))
      BY <3>2
    <3>4. CASE h \notin visited
      BY <1>1, <1>2, <1>5, <2>2, <3>3, <3>4 DEF StaticsAhead
    <3>5. CASE w \in low..(low + length - 1)
      <4>1. wpc' = "scan"
        BY <1>5, <2>1, <3>1, <3>3, <3>5
      <4> QED
        BY <1>1, <1>2, <1>5, <2>2, <3>3, <3>5, <4>1 DEF StaticsAhead
    <3> QED
      BY <3>3, <3>4, <3>5
  <2> QED
    BY <1>1, <1>2, <1>4, <1>6, <1>7, <2>1, <2>3, ScanSafe
<1>11. CASE ScanWord /\ white' = white \ {static[low]}
  <2>1. Space' /\ low \in Nat /\ length \in Nat \ {0}
    BY <1>5, <1>11, ScanWordWalk DEF Space
  <2>2. /\ wpc = "scan" /\ low' = low + 1 /\ length' = length - 1 /\ visited' = visited
        /\ wpc' = IF length = 1 THEN "header" ELSE "scan"
    BY <1>11 DEF ScanWord
  <2>3. ASSUME NEW o \in white', StaticsAhead(o)
        PROVE  StaticsAhead(o)'
    <3>1. PICK h \in before : \E w \in Body(h) : static[w] = o /\ (h \notin visited \/ w \in low..(low + length - 1))
      BY <1>8, <2>3
    <3>2. PICK w \in Body(h) : static[w] = o /\ (h \notin visited \/ w \in low..(low + length - 1))
      BY <3>1
    <3>3. CASE h \notin visited
      BY <1>1, <1>2, <1>5, <2>2, <3>2, <3>3 DEF StaticsAhead
    <3>4. CASE w \in low..(low + length - 1)
      <4>1. w # low
        BY <1>11, <2>3, <3>2
      <4>2. wpc' = "scan" /\ w \in low'..(low' + length' - 1)
        BY <2>1, <2>2, <3>4, <4>1
      <4> QED
        BY <1>1, <1>2, <1>5, <3>2, <4>2 DEF StaticsAhead
    <3> QED
      BY <3>2, <3>3, <3>4
  <2> QED
    BY <1>1, <1>2, <1>4, <1>6, <1>7, <2>1, <2>3, ScanSafe
<1>12. CASE Stray
  <2>1. Space' /\ before \subseteq visited
    BY <1>5, <1>12, StrayWalk DEF Space
  <2>2. wpc = "lost"
    BY <1>12 DEF Stray
  <2>3. \A o \in white' : ~StaticsAhead(o)
    BY <1>8, <2>1, <2>2
  <2> QED
    BY <1>1, <1>2, <1>4, <1>6, <1>7, <2>1, <2>3, ScanSafe
<1> QED
  BY <1>9, <1>10, <1>11, <1>12 DEF scan_static_space

(* The walk ends with nothing left behind it. *)
LEMMA StaticScannedSafe ==
  ASSUME RunInv, StaticScanned
  PROVE  RunInv'
<1> USE DEF RunInv
<1>1. /\ gcpc = "static" /\ EndWalk /\ gcpc' = "scanners" /\ index' = 0
      /\ free' = free /\ white' = white
      /\ UNCHANGED <<static, statics, free, exposed, regs, threadVars, regVars, wordVars, signalled>>
      /\ UNCHANGED placeVars
  BY DEF StaticScanned, EndWalk, heapVars, allocVars, placeVars, regVars, globalVars, scannerVars
<1>2. Space' /\ before \subseteq visited
  BY <1>1, EndWalkWalk DEF Space
<1>3. wpc = "header" /\ wpc' = "idle"
  BY <1>1 DEF EndWalk
<1>4. Phase'
  BY <1>1, <1>3 DEF Phase
<1>5. ASSUME NEW o \in white', Ahead(o)
      PROVE  Ahead(o)'
  <2>1. InScanner(o)' <=> InScanner(o)
    BY <1>1, PlacesFrame
  <2>2. ~GlobalsAhead(o) /\ ~StaticsAhead(o)
    BY <1>1, <1>2, <1>3 DEF GlobalsAhead, StaticsAhead
  <2> QED
    BY <1>1, <1>5, <2>1, <2>2 DEF Ahead, ScannerAhead
<1>6. Marking /\ Marking' /\ white' \subseteq white
  BY <1>1 DEF Marking
<1> QED
  BY <1>1, <1>2, <1>4, <1>5, <1>6, ScanSafe

(* The installed scanner is called. *)
LEMMA CallScannerSafe ==
  ASSUME RunInv, CallRootScanner, index = 0, root_scanner # NULL
  PROVE  RunInv' /\ status' = status
<1> USE DEF RunInv
<1>1. /\ gcpc = "scanners" /\ white' = white \ {hidden[root_scanner]} /\ status' = status
      /\ gcpc' = gcpc /\ index' = index + 1
      /\ free' = free /\ wpc' = wpc
      /\ UNCHANGED <<static, statics, free, exposed, regs, threadVars, regVars, wordVars, signalled>>
      /\ UNCHANGED placeVars /\ UNCHANGED staticVars
  BY DEF CallRootScanner, staticVars, placeVars, regVars, globalVars, scannerVars
<1>2. Phase' /\ Space'
  BY <1>1, WalkFrame DEF Phase, Space
<1>3. ASSUME NEW o \in white', Ahead(o)
      PROVE  Ahead(o)'
  <2>1. ~GlobalsAhead(o) /\ ~StaticsAhead(o)
    BY <1>1 DEF GlobalsAhead, StaticsAhead
  <2>2. ~InScanner(o)
    BY <1>1 DEF InScanner
  <2> QED
    BY <1>1, <1>3, <2>1, <2>2 DEF Ahead, ScannerAhead
<1>4. Marking /\ Marking' /\ white' \subseteq white
  BY <1>1 DEF Marking
<1> QED
  BY <1>1, <1>2, <1>3, <1>4, ScanSafe

(* What is white now is out of everybody's reach, or exposed. *)
LEMMA RecycleSafe ==
  ASSUME RunInv, recycle_all_garbage
  PROVE  RunInv'
<1> USE DEF RunInv
<1>1. /\ gcpc = "scanners" /\ index >= total_root_scanners
      /\ free' = free \cup white /\ white' = {} /\ gcpc' = "idle" /\ index' = 0
      /\ regs' = regs /\ tpc' = tpc /\ args' = args /\ child' = child /\ signalled' = signalled
      /\ exposed' = exposed /\ wpc' = wpc /\ no_write_barrier_state' = no_write_barrier_state
      /\ UNCHANGED <<regVars, wordVars>> /\ UNCHANGED placeVars /\ UNCHANGED staticVars
  BY DEF recycle_all_garbage, threadVars, staticVars, placeVars, wordVars, regVars, globalVars,
         scannerVars
<1>2. Threads'
  BY <1>1 DEF Threads, LiveThreads, Stopping
<1>3. Phase'
  BY <1>1 DEF Phase
<1>4. Tables' /\ Space'
  BY <1>1, TablesFrame, WalkFrame DEF Space
<1>5. Copied' /\ WhiteAhead'
  BY <1>1 DEF Copied, Stopping, WhiteAhead, Marking
<1>6. \A x : InPlaces(x)' <=> InPlaces(x)
  BY <1>1, PlacesFrame
<1>7. \A o \in white : ~Ahead(o)
  <2>1. \A o : ~InScanner(o) \/ index # 0
    BY <1>1 DEF InScanner, Tables, Scanners, Phase
  <2> QED
    BY <1>1, <2>1 DEF Ahead, GlobalsAhead, StaticsAhead, ScannerAhead
<1>8. NoneFree'
  <2>1. \A o \in white \ exposed : ~Accessible(o)
    BY <1>1, <1>7 DEF WhiteAhead, Marking
  <2>2. \A o : Accessible(o)' <=> Accessible(o)
    BY <1>1, <1>6 DEF Accessible
  <2> QED
    BY <1>1, <2>1, <2>2 DEF NoneFree
<1> QED
  BY <1>2, <1>3, <1>4, <1>5, <1>8
-----------------------------------------------------------------------------
(***************************************************************************)
(* The theorems.                                                           *)
(***************************************************************************)

(* The invariant implies the properties. *)
LEMMA RunProperties ==
  ASSUME RunInv, status = "run"
  PROVE  Properties
<1> USE DEF RunInv
<1>1. TypeOK
  <2>1. free \subseteq Object /\ white \subseteq Object \ free
    BY DEF Phase
  <2>2. static_frontier_ptr \in 0..last_static_ptr /\ end <= last_static_ptr
    <3>1. static_frontier_ptr \in 0..last_static_ptr
      BY DEF Space, StaticSpaceInv, StaticTypes
    <3>2. end \in Nat /\ end <= static_frontier_ptr
      BY DEF Space, WalkInv
    <3> QED
      BY <3>1, <3>2, StaticAssumption
  <2>3. wpc = "scan" => low \in StaticWord
    <3>1. SUFFICES ASSUME wpc = "scan"
                   PROVE  low \in StaticWord
      OBVIOUS
    <3>2. PICK h \in statics : h < low /\ low + length = End(h)
      BY <3>1 DEF Space, WalkInv
    <3>3. low \in Nat /\ length \in Nat /\ length # 0
      BY <3>1 DEF Space, WalkInv
    <3>4. End(h) \in Nat /\ End(h) <= Top /\ Top \in Nat /\ Top <= static_frontier_ptr
      BY Apart, TopBelow DEF Space, StaticSpaceInv
    <3> QED
      BY <2>2, <3>2, <3>3, <3>4, StaticAssumption DEF StaticWord
  <2> QED
    BY <2>1, <2>2, <2>3 DEF TypeOK, Threads, Tables, RootTable
<1>2. NoRootRecycled
  BY InRootsIs DEF Tables, Phase, NoRootRecycled, NoneFree, Accessible
<1>3. StaticComplete
  BY WalkComplete DEF Space
<1>4. RootTableExact
  BY DEF RootTableExact, Tables, RootTable
<1>5. ScannerCallsValid
  BY DEF ScannerCallsValid
<1> QED
  BY <1>1, <1>2, <1>3, <1>4, <1>5 DEF Properties

(* The initial state. *)
LEMMA InitInv == Init => IInv
<1> SUFFICES ASSUME Init
             PROVE  RunInv
  BY RunProperties DEF IInv, Init
<1>1. Threads
  BY MainAssumption, NullAssumption DEF Init, Threads, LiveThreads, Stopping
<1>2. Phase
  BY DEF Init, StaticInit, Phase
<1>3. Tables
  <2>1. RootTable
    <3>1. IsFiniteSet({}) /\ Cardinality({}) = 0
      BY FS_EmptySet
    <3>2. {global_roots[i] : i \in 1..total_global_roots} = {}
      BY DEF Init
    <3> QED
      BY <3>1, <3>2, MaxGlobalRootsAssumption DEF Init, RootTable
  <2>2. Registering
    BY DEF Init, Registering
  <2>3. Scanners
    BY NullAssumption DEF Init, Scanners
  <2>4. WordInv
    BY DEF Init, WordInv
  <2> QED
    BY <2>1, <2>2, <2>3, <2>4 DEF Tables
<1>4. Space
  <2>1. StaticTypes
    BY StaticAssumption DEF Init, StaticInit, StaticTypes
  <2>2. Unfinished /\ NobodyAllocates
    BY DEF Init, StaticInit, Unfinished, NobodyAllocates
  <2>3. Top = 0
    BY <2>2, TopIs DEF TopFacts, Init, StaticInit
  <2>4. Chain
    BY <2>3 DEF Init, StaticInit, Chain
  <2>5. Words
    BY HeaderFields DEF Init, StaticInit, Words
  <2>6. WalkInv
    BY DEF Init, StaticInit, WalkInv
  <2> QED
    BY <2>1, <2>2, <2>4, <2>5, <2>6 DEF Space, StaticSpaceInv
<1>5. Copied /\ WhiteAhead
  BY DEF Init, Copied, Stopping, WhiteAhead, Marking
<1>6. NoneFree
  <2>1. ASSUME NEW o \in Object
        PROVE  ~Accessible(o)
    <3>1. ~InStatics(o) /\ ~InGlobals(o) /\ ~InScanner(o)
      BY DEF Init, StaticInit, InStatics, InGlobals, InScanner
    <3> QED
      BY <3>1, WordAssumption DEF Init, Accessible, InPlaces
  <2> QED
    BY <2>1 DEF NoneFree, Init
<1> QED
  BY <1>1, <1>2, <1>3, <1>4, <1>5, <1>6 DEF RunInv

(* The variables of the properties, but for the status and the frontier. *)
seenVars == <<static, statics, wpc, next, end, low, before, visited, free, white, exposed, regs,
              tpc, args, child, rpc, global_roots, total_global_roots, registered, root,
              root_scanner, total_root_scanners, hidden, no_write_barrier_state, signalled, gcpc>>

(* A step that ends the process leaves the properties true. *)
LEMMA EndProperties ==
  ASSUME Properties, UNCHANGED seenVars, status' # "run",
         status' = "crashed" /\ gcpc = "scanners" => total_root_scanners > 1
  PROVE  Properties'
<1>1. /\ static' = static /\ statics' = statics /\ wpc' = wpc /\ next' = next /\ end' = end
      /\ low' = low /\ before' = before /\ visited' = visited /\ free' = free /\ white' = white
      /\ exposed' = exposed /\ regs' = regs /\ tpc' = tpc /\ args' = args /\ child' = child
      /\ rpc' = rpc /\ global_roots' = global_roots /\ total_global_roots' = total_global_roots
      /\ registered' = registered /\ root' = root /\ root_scanner' = root_scanner
      /\ total_root_scanners' = total_root_scanners /\ hidden' = hidden
      /\ no_write_barrier_state' = no_write_barrier_state /\ signalled' = signalled /\ gcpc' = gcpc
  BY DEF seenVars
<1>2. TypeOK'
  <2>1. LiveThreads' = LiveThreads
    BY <1>1 DEF LiveThreads
  <2> QED
    BY <1>1, <2>1 DEF Properties, TypeOK
<1>3. NoRootRecycled'
  <2>1. InRoots' = InRoots
    BY <1>1 DEF InRoots, Body, Installed
  <2> QED
    BY <1>1, <2>1 DEF Properties, NoRootRecycled
<1>4. StaticComplete'
  BY <1>1 DEF Properties, StaticComplete
<1>5. RootTableExact'
  BY <1>1 DEF Properties, RootTableExact, NobodyRegisters
<1>6. ScannerCallsValid'
  BY <1>1 DEF ScannerCallsValid
<1> QED
  BY <1>2, <1>3, <1>4, <1>5, <1>6 DEF Properties

(* A step of a thread, in the library or in the client. *)
LEMMA MutatorInv ==
  ASSUME RunInv, status = "run", NEW m \in Mutator, Client(m) \/ Thread(m)
  PROVE  \/ RunInv' /\ status' = "run"
         \/ /\ UNCHANGED seenVars
            /\ status' = "stopped"
<1>1. ASSUME OutOfStaticMemory(m)
      PROVE  UNCHANGED seenVars /\ status' = "stopped"
  <2>1. PICK n \in StaticSize : StaticExhausted(m, n)
    BY <1>1 DEF OutOfStaticMemory
  <2>2. UNCHANGED <<static, statics, wpc, next, end, low, before, visited>>
    BY <2>1 DEF StaticExhausted, walkVars
  <2> QED
    BY <1>1, <2>2 DEF OutOfStaticMemory, seenVars, heapVars, threadVars, regVars, globalVars,
                      scannerVars, wordVars, gcVars
<1>2. ASSUME RootsFull(m)
      PROVE  UNCHANGED seenVars /\ status' = "stopped"
  BY <1>2 DEF RootsFull, seenVars, staticVars, heapVars, threadVars, regVars, globalVars,
              scannerVars, wordVars, gcVars
<1>3. ASSUME NEW o \in Object, RTallocate(m, o) \/ Load(m, o) \/ Drop(m, o)
      PROVE  RunInv' /\ status' = "run"
  BY <1>3, RTallocateSafe, LoadSafe, DropSafe DEF RTallocate, Load, Drop
<1>4. ASSUME StaticClient(m)
      PROVE  RunInv' /\ status' = "run"
  BY <1>4, StaticClientSafe DEF StaticClient
<1>5. ASSUME RTregister_no_write_barrier_state(m)
      PROVE  RunInv' /\ status' = "run"
  BY <1>5, RegisterWordSafe DEF RTregister_no_write_barrier_state
<1>6. ASSUME NEW v \in Object \cup {NULL}, StoreNoBarrier(m, v)
      PROVE  RunInv' /\ status' = "run"
  BY <1>6, StoreNoBarrierSafe DEF StoreNoBarrier
<1>7. ASSUME NEW r \in Root, StoreRoot(m, r)
      PROVE  RunInv' /\ status' = "run"
  BY <1>7, StoreRootSafe DEF StoreRoot
<1>8. ASSUME NEW r \in Root, NEW o \in Object, StoreGlobal(m, r, o)
      PROVE  RunInv' /\ status' = "run"
  BY <1>8, StoreGlobalSafe DEF StoreGlobal
<1>9. ASSUME CountRoot(m)
      PROVE  RunInv' /\ status' = "run"
  BY <1>9, CountRootSafe DEF CountRoot
<1>10. ASSUME NEW f \in Scanner, StoreScanner(m, f)
       PROVE  RunInv' /\ status' = "run"
  BY <1>10, StoreScannerSafe DEF StoreScanner
<1>11. ASSUME NEW f \in Scanner, NEW o \in Object, StoreHidden(m, f, o)
       PROVE  RunInv' /\ status' = "run"
  BY <1>11, StoreHiddenSafe DEF StoreHidden
<1>12. ASSUME CountScanner(m)
       PROVE  RunInv' /\ status' = "run"
  BY <1>12, CountScannerSafe DEF CountScanner
<1>13. ASSUME NEW c \in Mutator, NEW v \in Object \cup {NULL}, RTpthread_create(m, c, v)
       PROVE  RunInv' /\ status' = "run"
  BY <1>13, CreateSafe DEF RTpthread_create
<1>14. ASSUME make_thread_live(m) \/ SetStarted(m) \/ CreateReturns(m)
       PROVE  RunInv' /\ status' = "run"
  BY <1>14, StartSafe DEF make_thread_live, SetStarted, CreateReturns
<1>15. ASSUME CallStartFunc(m)
       PROVE  RunInv' /\ status' = "run"
  BY <1>15, CallStartFuncSafe DEF CallStartFunc
<1>16. ASSUME ThreadExits(m)
       PROVE  RunInv' /\ status' = "run"
  BY <1>16, ThreadExitsSafe DEF ThreadExits
<1>17. ASSUME gc_flip_action_func(m)
       PROVE  RunInv' /\ status' = "run"
  BY <1>17, HandlerSafe DEF gc_flip_action_func
<1>18. CASE Client(m)
  BY <1>1, <1>2, <1>3, <1>4, <1>5, <1>6, <1>7, <1>8, <1>9, <1>10, <1>11, <1>12, <1>18 DEF Client
<1>19. CASE Thread(m)
  BY <1>13, <1>14, <1>15, <1>16, <1>17, <1>19 DEF Thread
<1> QED
  BY <1>18, <1>19

(* A step of the collector. *)
LEMMA CollectorInv ==
  ASSUME RunInv, status = "run", flip \/ scan_root_set \/ recycle_all_garbage
  PROVE  \/ RunInv' /\ status' = "run"
         \/ /\ UNCHANGED seenVars
            /\ status' = "crashed"
            /\ gcpc = "scanners" => total_root_scanners > 1
<1>1. CASE flip
  BY <1>1, SignalSafe, SaveWordSafe, SwapSafe DEF flip, SignalMutators, SaveNoBarrierState, SwapColors
<1>2. CASE recycle_all_garbage
  BY <1>2, RecycleSafe DEF recycle_all_garbage
<1>3. CASE scan_threads \/ scan_global_roots
  BY <1>3, ScanThreadsSafe, ScanGlobalSafe DEF scan_threads, scan_global_roots
<1>4. CASE GlobalsScanned \/ scan_static_space \/ StaticScanned
  BY <1>4, GlobalsScannedSafe, WalkSafe, StaticScannedSafe DEF GlobalsScanned, scan_static_space, StaticScanned
<1>5. CASE StrayOutside
  BY <1>5 DEF StrayOutside, seenVars, staticVars, heapVars, threadVars, regVars, globalVars,
              scannerVars, wordVars, gcVars
<1>6. CASE CallRootScanner /\ index = 0 /\ root_scanner # NULL
  BY <1>6, CallScannerSafe
<1>7. CASE CallRootScanner /\ ~(index = 0 /\ root_scanner # NULL)
  <2>1. status' = "crashed" /\ index < total_root_scanners /\ UNCHANGED seenVars
    BY <1>7 DEF CallRootScanner, seenVars, staticVars, threadVars, regVars, globalVars,
                scannerVars, wordVars
  <2>2. index \in Nat /\ total_root_scanners \in Nat /\ (total_root_scanners > 0 => root_scanner # NULL)
    BY DEF RunInv, Phase, Tables, Scanners
  <2>3. total_root_scanners > 1
    BY <1>7, <2>1, <2>2
  <2> QED
    BY <2>1, <2>3
<1> QED
  BY <1>1, <1>2, <1>3, <1>4, <1>5, <1>6, <1>7 DEF scan_root_set

(* Nothing changes. *)
LEMMA StutterInv ==
  ASSUME IInv, UNCHANGED vars
  PROVE  IInv'
<1>1. UNCHANGED staticVars /\ UNCHANGED <<regVars, wordVars>> /\ UNCHANGED aheadVars /\ UNCHANGED placeVars
  BY DEF vars, staticVars, regVars, wordVars, gcVars, aheadVars, placeVars, globalVars, scannerVars
<1>2. /\ regs' = regs /\ tpc' = tpc /\ args' = args /\ child' = child /\ signalled' = signalled
      /\ free' = free /\ white' = white /\ exposed' = exposed /\ gcpc' = gcpc /\ index' = index
      /\ wpc' = wpc /\ saved' = saved /\ status' = status
      /\ no_write_barrier_state' = no_write_barrier_state
      /\ saved_no_write_barrier_state' = saved_no_write_barrier_state
  BY DEF vars, staticVars, heapVars, threadVars, wordVars, gcVars
<1>3. CASE status = "run"
  <2> USE DEF RunInv
  <2>1. RunInv
    BY <1>3 DEF IInv
  <2>2. Threads'
    BY <1>2, <2>1, ThreadsFrame DEF threadVars
  <2>3. exposed \subseteq exposed' /\ UNCHANGED <<staticVars, free, white, regVars, wordVars, gcVars>>
    BY <1>2 DEF vars, heapVars
  <2>4. RunInv'
    BY <1>2, <2>1, <2>2, <2>3, ThreadSafe
  <2>5. RunInv' /\ (status = "run")'
    BY <1>2, <1>3, <2>4
  <2>6. Properties'
    BY <2>5, RunProperties, PTL
  <2> QED
    BY <2>4, <2>6 DEF IInv
<1>4. CASE status # "run"
  <2>1. UNCHANGED seenVars
    BY DEF vars, seenVars, staticVars, heapVars, threadVars, regVars, globalVars, scannerVars,
           wordVars, gcVars
  <2>2. Properties
    BY DEF IInv
  <2>3. status' = "crashed" /\ gcpc = "scanners" => total_root_scanners > 1
    BY <1>2, <2>2 DEF Properties, ScannerCallsValid
  <2>4. Properties'
    BY <1>2, <1>4, <2>1, <2>2, <2>3, EndProperties
  <2> QED
    BY <1>2, <1>4, <2>4 DEF IInv
<1> QED
  BY <1>3, <1>4

(* The invariant is inductive. *)
LEMMA NextInv == IInv /\ [Next]_vars => IInv'
<1> SUFFICES ASSUME IInv, [Next]_vars
             PROVE  IInv'
  OBVIOUS
<1>1. CASE UNCHANGED vars
  BY <1>1, StutterInv
<1>2. CASE Next
  <2>1. status = "run" /\ RunInv /\ Properties
    BY <1>2 DEF Next, IInv
  <2>2. \/ RunInv' /\ status' = "run"
        \/ /\ UNCHANGED seenVars
           /\ status' = "stopped" \/ (status' = "crashed" /\ (gcpc = "scanners" => total_root_scanners > 1))
    BY <1>2, <2>1, MutatorInv, CollectorInv DEF Next
  <2>3. CASE RunInv' /\ status' = "run"
    <3>1. RunInv' /\ (status = "run")'
      BY <2>3
    <3>2. Properties'
      BY <3>1, RunProperties, PTL
    <3> QED
      BY <2>3, <3>2 DEF IInv
  <2>4. CASE /\ UNCHANGED seenVars
             /\ status' = "stopped" \/ (status' = "crashed" /\ (gcpc = "scanners" => total_root_scanners > 1))
    <3>1. Properties'
      BY <2>1, <2>4, EndProperties
    <3> QED
      BY <2>4, <3>1 DEF IInv
  <2> QED
    BY <2>2, <2>3, <2>4
<1> QED
  BY <1>1, <1>2

(***************************************************************************)
(* IInv is an invariant: the threads, the tables, the static space and the *)
(* walk are in order while the process runs, during a flip what a copied   *)
(* thread holds has a copy, and during the scan of the root set what is    *)
(* white and in a client's reach is ahead of the scan.                     *)
(***************************************************************************)
THEOREM Invariance == Spec => []IInv
BY InitInv, NextInv, PTL DEF Spec

(* Types, the walk inside the space, and who may have args or a child.     *)
THEOREM TypeCorrect == Spec => []TypeOK
<1>1. IInv => TypeOK
  BY DEF IInv, Properties
<1> QED
  BY <1>1, Invariance, PTL

(***************************************************************************)
(* The root set that stop_all_mutators_and_save_state copies and           *)
(* scan_root_set reads is complete, although each of its six parts is      *)
(* looked at at a time of its own and mutators run meanwhile: nothing a    *)
(* client can get at is recycled, but what is exposed.                     *)
(***************************************************************************)
THEOREM RootSetComplete == Spec => []NoRootRecycled
<1>1. IInv => NoRootRecycled
  BY DEF IInv, Properties
<1> QED
  BY <1>1, Invariance, PTL

(* scan_static_space, without the lock, passes through the header of every *)
(* object that was finished when it read static_frontier_ptr.              *)
THEOREM StaticWalkComplete == Spec => []StaticComplete
<1>1. IInv => StaticComplete
  BY DEF IInv, Properties
<1> QED
  BY <1>1, Invariance, PTL

(* The table of register_global_root holds each registered root once.      *)
THEOREM RootTableCorrect == Spec => []RootTableExact
<1>1. IInv => RootTableExact
  BY DEF IInv, Properties
<1> QED
  BY <1>1, Invariance, PTL

(* RTregister_root_scanner, without a lock, lets the collector call no     *)
(* scanner that is not there as long as one is counted.                    *)
THEOREM ScannerCallsCorrect == Spec => []ScannerCallsValid
<1>1. IInv => ScannerCallsValid
  BY DEF IInv, Properties
<1> QED
  BY <1>1, Invariance, PTL
=============================================================================
