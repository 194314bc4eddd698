---------------------------- MODULE GroupListProofs ----------------------------
(***************************************************************************)
(* The lists of a size group, for any finite set of pages, any number of   *)
(* objects on a page and any number of mutators.                           *)
(***************************************************************************)
EXTENDS GroupListRefinement, Induction

(***************************************************************************)
(* Lists.  nx and pv link the members of S in the order of their ranks.    *)
(***************************************************************************)
Chain(S, nx, pv, rk) ==
  /\ \A o, q \in S : rk[o] = rk[q] => o = q
  /\ \A o \in S : nx[o] # NULL => nx[o] \in S /\ pv[nx[o]] = o /\ rk[o] < rk[nx[o]]
  /\ \A o \in S : pv[o] # NULL => pv[o] \in S /\ nx[pv[o]] = o /\ rk[pv[o]] < rk[o]
  /\ \A o, q \in S : rk[o] < rk[q] => /\ nx[o] # NULL /\ rk[nx[o]] <= rk[q]
                                      /\ pv[q] # NULL /\ rk[o] <= rk[pv[q]]

IsFirst(S, rk, h) == IF S = {} THEN h = NULL ELSE h \in S /\ \A q \in S : rk[h] <= rk[q]
IsLast(S, rk, h) == IF S = {} THEN h = NULL ELSE h \in S /\ \A q \in S : rk[q] <= rk[h]

(***************************************************************************)
(* The objects of the group's pages by colour, and by list.                *)
(***************************************************************************)
Group == {o \in Object : table[o[1]] = "GROUP"}
Colored(c) == {o \in Group : color[o] = c}
White == Colored(unmarked_color) \ {target}
Main == {o \in Group : ~WHITEP(o)} \cup (IF gcpc = "paint" THEN {target} ELSE {})
Green == Colored(GREEN)

(* The ranks say gray, then black, then green; the pointers say where. *)
Chains(rk) == Chain(Main, next, prev, rk) /\ Chain(White, next, prev, rk)

Ends(rk) ==
  /\ IsFirst(White, rk, white) /\ IsLast(Main, rk, last) /\ IsFirst(Green, rk, free)
  /\ \A o \in Main \ Green : \A q \in Green : rk[o] < rk[q]

Boundary(rk) ==
  /\ IF Main = {} THEN black = NULL ELSE black \in Main
  /\ \A o \in Main : /\ rk[o] < rk[black] => GRAYP(o) \/ o = target
                     /\ rk[o] > rk[black] => ~GRAYP(o) /\ o # target
  /\ gray # NULL => IsFirst(Main, rk, gray) /\ ~GREENP(gray)
  /\ gray = NULL => Colored(GRAY) = {}

Lists(rk) == Chains(rk) /\ Ends(rk) /\ Boundary(rk)

(***************************************************************************)
(* Where the collector is.                                                 *)
(***************************************************************************)
Greying ==
  /\ Linked => target = NULL
  /\ ~Linked => /\ target \in Group /\ WHITEP(target) /\ prev[target] = NULL /\ gray = NULL
                /\ return = "vector" => mark_count = 1
                /\ return # "scan"
  /\ gcpc = "back" => black # NULL /\ next[target] = black
  /\ gcpc = "paint" => black # NULL

Tracing ==
  /\ gcpc = "vector" /\ mark_count = 0 => Colored(GRAY) = {}
  /\ gcpc \in {"flip", "recycle", "identify", "free"} => Colored(GRAY) = {}
  /\ gcpc \in {"flip", "identify", "free"} => Colored(unmarked_color) = {}
  /\ gcpc = "scan" => current \in Colored(GRAY)

Scanning(rk) ==
  gcpc = "scan" => \A o \in Main : rk[o] > rk[current] => ~GRAYP(o)

Coalescing ==
  gcpc = "free" => page \in Page /\ table[page] = "GROUP"

Counts ==
  /\ white_count = Cardinality(Colored(unmarked_color))
  /\ black_scanned_count + black_alloc_count = Cardinality(Colored(marked_color))

Locking ==
  \A m \in Mutator : /\ mpc[m] \in {"pages", "again", "pop", "oom"} => free_lock = m
                     /\ mpc[m] = "pop" => free # NULL

IInv ==
  /\ TypeOK /\ Greying /\ Tracing /\ Coalescing /\ Counts /\ Locking
  /\ \E rk \in [Object -> Int] : Lists(rk) /\ Scanning(rk)
-----------------------------------------------------------------------------
(***************************************************************************)
(* What the list operations do to a chain.  The lemmas are about any       *)
(* links, so that they apply to next and prev before and after a step.     *)
(***************************************************************************)
Link == Object \cup {NULL}

(* NULL is no object and no mutator. *)
LEMMA NullFacts == NULL \notin Object /\ NULL \notin Mutator
BY NullAssumption

(* Only the links of its members matter, and the order of their ranks. *)
LEMMA ChainOrder ==
  ASSUME NEW S \in SUBSET Object,
         NEW nx \in [Object -> Link], NEW pv \in [Object -> Link],
         NEW rk \in [Object -> Int], NEW rr \in [Object -> Int],
         Chain(S, nx, pv, rk),
         \A o, q \in S : rr[o] <= rr[q] <=> rk[o] <= rk[q]
  PROVE  Chain(S, nx, pv, rr)
<1>1. \A o, q \in S : /\ rk[o] \in Int /\ rk[q] \in Int
                      /\ rr[o] < rr[q] <=> rk[o] < rk[q]
                      /\ rr[o] <= rr[q] <=> rk[o] <= rk[q]
                      /\ rr[o] = rr[q] <=> rk[o] = rk[q]
  <2> TAKE o, q \in S
  <2>1. rk[o] \in Int /\ rk[q] \in Int /\ rr[o] \in Int /\ rr[q] \in Int
    OBVIOUS
  <2>2. (rr[o] <= rr[q] <=> rk[o] <= rk[q]) /\ (rr[q] <= rr[o] <=> rk[q] <= rk[o])
    OBVIOUS
  <2> QED
    BY <2>1, <2>2
<1> QED
  BY <1>1 DEF Chain

(* A chain whose links and ranks are the same on its members is still one. *)
LEMMA ChainSame ==
  ASSUME NEW S \in SUBSET Object,
         NEW nx \in [Object -> Link], NEW pv \in [Object -> Link],
         NEW nn \in [Object -> Link], NEW pp \in [Object -> Link],
         NEW rk \in [Object -> Int], NEW rr \in [Object -> Int],
         Chain(S, nx, pv, rk),
         \A o \in S : nn[o] = nx[o] /\ pp[o] = pv[o] /\ rr[o] = rk[o]
  PROVE  Chain(S, nn, pp, rr)
BY DEF Chain

(* Unlinking a member. *)
IsUnlink(S, R, o, nx, pv, nn, pp, rk) ==
  /\ S \in SUBSET Object /\ o \in S /\ R = S \ {o} /\ rk \in [Object -> Int]
  /\ nx \in [Object -> Link] /\ pv \in [Object -> Link]
  /\ nn = SetLink(nx, pv[o], nx[o]) /\ pp = SetLink(pv, nx[o], pv[o])

(* SET_LINK_POINTER on both neighbours of o leaves a chain of the others. *)
LEMMA ChainRemove ==
  ASSUME NEW S, NEW R, NEW o, NEW nx, NEW pv, NEW nn, NEW pp, NEW rk,
         Chain(S, nx, pv, rk), IsUnlink(S, R, o, nx, pv, nn, pp, rk)
  PROVE  /\ nn \in [Object -> Link] /\ pp \in [Object -> Link]
         /\ Chain(R, nn, pp, rk)
         /\ \A q \in Object \ R : nn[q] = nx[q] /\ pp[q] = pv[q]
         /\ nn[o] = nx[o] /\ pp[o] = pv[o]
<1> USE DEF IsUnlink
<1>0. /\ NULL \notin Object
      /\ nx[o] \in Link /\ pv[o] \in Link
      /\ nx[o] # NULL => nx[o] \in S /\ pv[nx[o]] = o /\ rk[o] < rk[nx[o]] /\ nx[o] # o
      /\ pv[o] # NULL => pv[o] \in S /\ nx[pv[o]] = o /\ rk[pv[o]] < rk[o] /\ pv[o] # o
  BY NullFacts DEF Chain, Link
<1>1. nn \in [Object -> Link] /\ pp \in [Object -> Link]
  BY <1>0 DEF SetLink, Link
<1>2. \A q \in Object : /\ nn[q] = IF q = pv[o] THEN nx[o] ELSE nx[q]
                        /\ pp[q] = IF q = nx[o] THEN pv[o] ELSE pv[q]
  BY <1>0 DEF SetLink, Link
<1>3. \A q \in S : rk[q] \in Int
  OBVIOUS
<1>4. \A q \in S \ {o} : nn[q] # NULL => nn[q] \in S \ {o} /\ pp[nn[q]] = q /\ rk[q] < rk[nn[q]]
  <2> SUFFICES ASSUME NEW q \in S \ {o}, nn[q] # NULL
               PROVE  nn[q] \in S \ {o} /\ pp[nn[q]] = q /\ rk[q] < rk[nn[q]]
    OBVIOUS
  <2>1. CASE q = pv[o]
    <3>1. nn[q] = nx[o] /\ nx[o] # NULL /\ nx[o] \in S /\ nx[o] # o
      BY <2>1, <1>0, <1>2
    <3>2. pp[nx[o]] = q
      BY <2>1, <3>1, <1>2
    <3>3. rk[q] < rk[nx[o]]
      BY <2>1, <3>1, <1>0, <1>3
    <3> QED
      BY <3>1, <3>2, <3>3
  <2>2. CASE q # pv[o]
    <3>1. nn[q] = nx[q] /\ nx[q] \in S /\ pv[nx[q]] = q /\ rk[q] < rk[nx[q]]
      BY <2>2, <1>2 DEF Chain
    <3>2. nx[q] # o
      BY <2>2, <3>1
    <3>3. nx[q] # nx[o]
      BY <3>1, <1>0
    <3> QED
      BY <3>1, <3>2, <3>3, <1>2
  <2> QED
    BY <2>1, <2>2
<1>5. \A q \in S \ {o} : pp[q] # NULL => pp[q] \in S \ {o} /\ nn[pp[q]] = q /\ rk[pp[q]] < rk[q]
  <2> SUFFICES ASSUME NEW q \in S \ {o}, pp[q] # NULL
               PROVE  pp[q] \in S \ {o} /\ nn[pp[q]] = q /\ rk[pp[q]] < rk[q]
    OBVIOUS
  <2>1. CASE q = nx[o]
    <3>1. pp[q] = pv[o] /\ pv[o] # NULL /\ pv[o] \in S /\ pv[o] # o
      BY <2>1, <1>0, <1>2
    <3>2. nn[pv[o]] = q
      BY <2>1, <3>1, <1>2
    <3>3. rk[pv[o]] < rk[q]
      BY <2>1, <3>1, <1>0, <1>3
    <3> QED
      BY <3>1, <3>2, <3>3
  <2>2. CASE q # nx[o]
    <3>1. pp[q] = pv[q] /\ pv[q] \in S /\ nx[pv[q]] = q /\ rk[pv[q]] < rk[q]
      BY <2>2, <1>2 DEF Chain
    <3>2. pv[q] # o
      BY <2>2, <3>1
    <3>3. pv[q] # pv[o]
      BY <3>1, <1>0
    <3> QED
      BY <3>1, <3>2, <3>3, <1>2
  <2> QED
    BY <2>1, <2>2
<1>6. ASSUME NEW a \in S \ {o}, NEW b \in S \ {o}, rk[a] < rk[b]
      PROVE  /\ nn[a] # NULL /\ rk[nn[a]] <= rk[b]
             /\ pp[b] # NULL /\ rk[a] <= rk[pp[b]]
  <2>1. /\ nx[a] # NULL /\ rk[nx[a]] <= rk[b] /\ nx[a] \in S
        /\ pv[b] # NULL /\ rk[a] <= rk[pv[b]] /\ pv[b] \in S
    BY <1>6 DEF Chain
  <2>2. rk[o] # rk[a] /\ rk[o] # rk[b]
    BY DEF Chain
  <2>3. rk[o] \in Int /\ rk[a] \in Int /\ rk[b] \in Int
    OBVIOUS
  <2>4. nn[a] # NULL /\ rk[nn[a]] <= rk[b]
    <3>1. CASE a = pv[o]
      <4>1. nx[a] = o
        BY <3>1, <1>0
      <4>2. rk[o] < rk[b]
        BY <4>1, <2>1, <2>2, <2>3
      <4>3. nx[o] # NULL /\ rk[nx[o]] <= rk[b]
        BY <4>2 DEF Chain
      <4> QED
        BY <3>1, <4>3, <1>2
    <3> QED
      BY <3>1, <2>1, <1>2
  <2>5. pp[b] # NULL /\ rk[a] <= rk[pp[b]]
    <3>1. CASE b = nx[o]
      <4>1. pv[b] = o
        BY <3>1, <1>0
      <4>2. rk[a] < rk[o]
        BY <4>1, <2>1, <2>2, <2>3
      <4>3. pv[o] # NULL /\ rk[a] <= rk[pv[o]]
        BY <4>2 DEF Chain
      <4> QED
        BY <3>1, <4>3, <1>2
    <3> QED
      BY <3>1, <2>1, <1>2
  <2> QED
    BY <2>4, <2>5
<1>7. \A a, b \in S \ {o} : rk[a] = rk[b] => a = b
  BY DEF Chain
<1>8. Chain(S \ {o}, nn, pp, rk)
  BY <1>4, <1>5, <1>6, <1>7 DEF Chain
<1>9. \A q \in Object \ (S \ {o}) : nn[q] = nx[q] /\ pp[q] = pv[q]
  BY <1>0, <1>2
<1> QED
  BY <1>1, <1>8, <1>9

(* Linking the last member of one chain to the first of another. *)
IsJoin(V, S, T, l, h, nx, pv, nn, pp, rk) ==
  /\ V = S \cup T /\ S \in SUBSET Object /\ T \in SUBSET Object /\ rk \in [Object -> Int]
  /\ nx \in [Object -> Link] /\ pv \in [Object -> Link]
  /\ nn \in [Object -> Link] /\ pp \in [Object -> Link]
  /\ IsLast(S, rk, l) /\ h \in T /\ IsFirst(T, rk, h)
  /\ \A o \in S, q \in T : rk[o] < rk[q]
  /\ \A o \in S : nn[o] = IF o = l THEN h ELSE nx[o]
  /\ \A o \in S : pp[o] = pv[o]
  /\ \A q \in T : nn[q] = nx[q]
  /\ \A q \in T : pp[q] = IF q = h THEN l ELSE pv[q]

(* The joined list is a chain of both sets. *)
LEMMA ChainJoin ==
  ASSUME NEW V, NEW S, NEW T, NEW l, NEW h, NEW nx, NEW pv, NEW nn, NEW pp, NEW rk,
         Chain(S, nx, pv, rk), Chain(T, nx, pv, rk),
         IsJoin(V, S, T, l, h, nx, pv, nn, pp, rk)
  PROVE  Chain(V, nn, pp, rk)
<1> USE DEF IsJoin
<1>0. NULL \notin Object /\ \A q \in S \cup T : rk[q] \in Int
  BY NullFacts
<1>1. S \cap T = {}
  BY <1>0
<1>2. /\ S # {} => l \in S /\ \A q \in S : rk[q] <= rk[l]
      /\ S = {} => l = NULL
      /\ \A q \in T : rk[h] <= rk[q]
  BY DEF IsLast, IsFirst
<1>3. ASSUME NEW o \in S
      PROVE  nx[o] # NULL => o # l
  BY <1>0, <1>2 DEF Chain
<1>4. ASSUME NEW q \in T
      PROVE  pv[q] # NULL => q # h
  BY <1>0, <1>2 DEF Chain
<1>5. \A o, q \in S \cup T : rk[o] = rk[q] => o = q
  BY <1>0 DEF Chain
<1>6. \A o \in S \cup T : nn[o] # NULL => nn[o] \in S \cup T /\ pp[nn[o]] = o /\ rk[o] < rk[nn[o]]
  <2>1. ASSUME NEW o \in S, nn[o] # NULL
        PROVE  nn[o] \in S \cup T /\ pp[nn[o]] = o /\ rk[o] < rk[nn[o]]
    <3>1. CASE o = l
      BY <3>1
    <3>2. CASE o # l
      BY <3>2, <2>1 DEF Chain
    <3> QED
      BY <3>1, <3>2
  <2>2. ASSUME NEW o \in T, nn[o] # NULL
        PROVE  nn[o] \in S \cup T /\ pp[nn[o]] = o /\ rk[o] < rk[nn[o]]
    <3>1. nn[o] = nx[o] /\ nx[o] \in T /\ pv[nx[o]] = o /\ rk[o] < rk[nx[o]]
      BY <2>2 DEF Chain
    <3>2. pv[nx[o]] # NULL
      BY <3>1, <1>0
    <3>3. nx[o] # h
      BY <3>1, <3>2, <1>4
    <3> QED
      BY <3>1, <3>3
  <2> QED
    BY <2>1, <2>2
<1>7. \A o \in S \cup T : pp[o] # NULL => pp[o] \in S \cup T /\ nn[pp[o]] = o /\ rk[pp[o]] < rk[o]
  <2>1. ASSUME NEW o \in T, pp[o] # NULL
        PROVE  pp[o] \in S \cup T /\ nn[pp[o]] = o /\ rk[pp[o]] < rk[o]
    <3>1. CASE o = h
      <4>1. pp[o] = l /\ l \in S
        BY <3>1, <2>1, <1>2
      <4> QED
        BY <4>1, <3>1
    <3>2. CASE o # h
      BY <3>2, <2>1 DEF Chain
    <3> QED
      BY <3>1, <3>2
  <2>2. ASSUME NEW o \in S, pp[o] # NULL
        PROVE  pp[o] \in S \cup T /\ nn[pp[o]] = o /\ rk[pp[o]] < rk[o]
    <3>1. pp[o] = pv[o] /\ pv[o] \in S /\ nx[pv[o]] = o /\ rk[pv[o]] < rk[o]
      BY <2>2 DEF Chain
    <3>2. nx[pv[o]] # NULL
      BY <3>1, <1>0
    <3>3. pv[o] # l
      BY <3>1, <3>2, <1>3
    <3> QED
      BY <3>1, <3>3
  <2> QED
    BY <2>1, <2>2
<1>8. ASSUME NEW o \in S \cup T, NEW q \in S \cup T, rk[o] < rk[q]
      PROVE  /\ nn[o] # NULL /\ rk[nn[o]] <= rk[q]
             /\ pp[q] # NULL /\ rk[o] <= rk[pp[q]]
  <2>1. CASE o \in S /\ q \in T
    <3>1. l \in S /\ rk[o] <= rk[l] /\ rk[h] <= rk[q]
      BY <2>1, <1>2
    <3>2. nn[o] # NULL /\ rk[nn[o]] <= rk[q]
      <4>1. CASE o = l
        BY <4>1, <2>1, <3>1, <1>0
      <4>2. CASE o # l
        <5>1. rk[o] < rk[l]
          BY <4>2, <3>1, <2>1, <1>5, <1>0
        <5>2. nx[o] # NULL /\ nx[o] \in S
          BY <5>1, <3>1, <2>1 DEF Chain
        <5> QED
          BY <5>2, <4>2, <2>1, <1>0
      <4> QED
        BY <4>1, <4>2
    <3>3. pp[q] # NULL /\ rk[o] <= rk[pp[q]]
      <4>1. CASE q = h
        BY <4>1, <2>1, <3>1, <1>0
      <4>2. CASE q # h
        <5>1. rk[h] < rk[q]
          BY <4>2, <3>1, <2>1, <1>5, <1>0
        <5>2. pv[q] # NULL /\ pv[q] \in T
          BY <5>1, <2>1 DEF Chain
        <5> QED
          BY <5>2, <4>2, <2>1, <1>0
      <4> QED
        BY <4>1, <4>2
    <3> QED
      BY <3>2, <3>3
  <2>2. CASE o \in S /\ q \in S
    <3>1. /\ nx[o] # NULL /\ rk[nx[o]] <= rk[q]
          /\ pv[q] # NULL /\ rk[o] <= rk[pv[q]]
      BY <2>2, <1>8 DEF Chain
    <3>2. o # l
      BY <2>2, <3>1, <1>3
    <3> QED
      BY <2>2, <3>1, <3>2
  <2>3. CASE o \in T /\ q \in T
    <3>1. /\ nx[o] # NULL /\ rk[nx[o]] <= rk[q]
          /\ pv[q] # NULL /\ rk[o] <= rk[pv[q]]
      BY <2>3, <1>8 DEF Chain
    <3>2. q # h
      BY <2>3, <3>1, <1>4
    <3> QED
      BY <2>3, <3>1, <3>2
  <2>4. CASE o \in T /\ q \in S
    BY <2>4, <1>8, <1>0
  <2> QED
    BY <2>1, <2>2, <2>3, <2>4
<1> QED
  BY <1>5, <1>6, <1>7, <1>8 DEF Chain

(* Cutting a chain in two. *)
IsCut(U, S, T, nx, pv, nn, pp, rk) ==
  /\ U \in SUBSET Object /\ S \in SUBSET U /\ T \in SUBSET U
  /\ \A o \in U : o \in S \/ o \in T
  /\ nx \in [Object -> Link] /\ pv \in [Object -> Link]
  /\ nn \in [Object -> Link] /\ pp \in [Object -> Link] /\ rk \in [Object -> Int]
  /\ \A o \in S, q \in T : rk[o] < rk[q]
  /\ \A o \in S : nn[o] = IF nx[o] \in T THEN NULL ELSE nx[o]
  /\ \A o \in S : pp[o] = pv[o]
  /\ \A q \in T : nn[q] = nx[q]
  /\ \A q \in T : pp[q] = IF pv[q] \in S THEN NULL ELSE pv[q]

(* Both parts are chains. *)
LEMMA ChainCut ==
  ASSUME NEW U, NEW S, NEW T, NEW nx, NEW pv, NEW nn, NEW pp, NEW rk,
         Chain(U, nx, pv, rk), IsCut(U, S, T, nx, pv, nn, pp, rk)
  PROVE  Chain(S, nn, pp, rk) /\ Chain(T, nn, pp, rk)
<1> USE DEF IsCut
<1>0. NULL \notin Object /\ \A q \in U : rk[q] \in Int
  BY NullFacts
<1>1. S \cap T = {}
  BY <1>0
<1>2. ASSUME NEW o \in S, nn[o] # NULL
      PROVE  nn[o] \in S /\ pp[nn[o]] = o /\ rk[o] < rk[nn[o]]
  <2>1. nx[o] # NULL /\ nn[o] = nx[o] /\ nx[o] \notin T
    BY <1>2
  <2>2. nx[o] \in U /\ pv[nx[o]] = o /\ rk[o] < rk[nx[o]]
    BY <2>1 DEF Chain
  <2> QED
    BY <2>1, <2>2
<1>3. ASSUME NEW o \in T, pp[o] # NULL
      PROVE  pp[o] \in T /\ nn[pp[o]] = o /\ rk[pp[o]] < rk[o]
  <2>1. pv[o] # NULL /\ pp[o] = pv[o] /\ pv[o] \notin S
    BY <1>3
  <2>2. pv[o] \in U /\ nx[pv[o]] = o /\ rk[pv[o]] < rk[o]
    BY <2>1 DEF Chain
  <2> QED
    BY <2>1, <2>2
<1>4. ASSUME NEW o \in S, pp[o] # NULL
      PROVE  pp[o] \in S /\ nn[pp[o]] = o /\ rk[pp[o]] < rk[o]
  <2>1. pv[o] \in U /\ nx[pv[o]] = o /\ rk[pv[o]] < rk[o] /\ pp[o] = pv[o]
    BY <1>4 DEF Chain
  <2>2. pv[o] \in S
    BY <2>1, <1>0
  <2> QED
    BY <2>1, <2>2, <1>1
<1>5. ASSUME NEW o \in T, nn[o] # NULL
      PROVE  nn[o] \in T /\ pp[nn[o]] = o /\ rk[o] < rk[nn[o]]
  <2>1. nx[o] \in U /\ pv[nx[o]] = o /\ rk[o] < rk[nx[o]] /\ nn[o] = nx[o]
    BY <1>5 DEF Chain
  <2>2. nx[o] \in T
    BY <2>1, <1>0
  <2> QED
    BY <2>1, <2>2, <1>1
<1>6. ASSUME NEW o \in U, NEW q \in U, rk[o] < rk[q], o \in S <=> q \in S
      PROVE  /\ nn[o] # NULL /\ rk[nn[o]] <= rk[q]
             /\ pp[q] # NULL /\ rk[o] <= rk[pp[q]]
  <2>1. /\ nx[o] # NULL /\ nx[o] \in U /\ rk[nx[o]] <= rk[q]
        /\ pv[q] # NULL /\ pv[q] \in U /\ rk[o] <= rk[pv[q]]
    BY <1>6 DEF Chain
  <2>2. o \in S => nx[o] \notin T
    BY <1>6, <2>1, <1>0
  <2>3. q \in T => pv[q] \notin S
    BY <1>6, <2>1, <1>0, <1>1
  <2> QED
    BY <2>1, <2>2, <2>3
<1>7. \A o, q \in U : rk[o] = rk[q] => o = q
  BY DEF Chain
<1>8. Chain(S, nn, pp, rk)
  BY <1>2, <1>4, <1>6, <1>7 DEF Chain
<1>9. Chain(T, nn, pp, rk)
  BY <1>1, <1>3, <1>5, <1>6, <1>7 DEF Chain
<1> QED
  BY <1>8, <1>9
-----------------------------------------------------------------------------
(***************************************************************************)
(* The walk along a chain.                                                 *)
(***************************************************************************)
Count == Cardinality(Object)

WalkFrom(nx, h) ==
  CHOOSE w : w = [n \in 0..Count |->
                    IF n = 0 THEN h ELSE IF w[n - 1] = NULL THEN NULL ELSE nx[w[n - 1]]]

(* A heap has finitely many objects. *)
LEMMA ObjectsFinite == IsFiniteSet(Object) /\ Count \in Nat
<1>1. IsFiniteSet(1..ObjectsPerPage)
  BY ObjectsPerPageAssumption, FS_Interval
<1>2. IsFiniteSet(Object)
  BY <1>1, PageAssumption, FS_Product DEF Object
<1> QED
  BY <1>2, FS_CardinalityType DEF Count

(* The walk along nx from h exists ... *)
LEMMA WalkExists ==
  ASSUME NEW nx \in [Object -> Link], NEW h \in Link
  PROVE  \E w \in [0..Count -> Link] :
           /\ w[0] = h
           /\ \A n \in 1..Count : w[n] = IF w[n - 1] = NULL THEN NULL ELSE nx[w[n - 1]]
<1> DEFINE f == [x \in (1..Count) \X Link |-> IF x[2] = NULL THEN NULL ELSE nx[x[2]]]
<1>0. Count \in Nat
  BY ObjectsFinite
<1>1. f \in [(1..Count) \X Link -> Link]
  BY DEF Link
<1>2. ASSUME NEW n \in 1..Count, NEW t \in Link
      PROVE  f[<<n, t>>] = IF t = NULL THEN NULL ELSE nx[t]
  OBVIOUS
<1> HIDE DEF f
<1>3. PICK w \in [0..Count -> Link] : Follows(w, Count, h, f)
  BY <1>0, <1>1, RecursionExists
<1>4. ASSUME NEW n \in 1..Count
      PROVE  w[n] = IF w[n - 1] = NULL THEN NULL ELSE nx[w[n - 1]]
  <2>1. w[n - 1] \in Link
    BY <1>0
  <2>2. w[n] = f[<<n, w[n - 1]>>]
    BY <1>3 DEF Follows
  <2> QED
    BY <1>2, <2>1, <2>2
<1>5. w[0] = h
  BY <1>3 DEF Follows
<1> QED
  BY <1>4, <1>5

(* ... and is what the recursive definition of Walk chooses. *)
LEMMA WalkSteps ==
  ASSUME NEW nx \in [Object -> Link], NEW h \in Link
  PROVE  /\ DOMAIN WalkFrom(nx, h) = 0..Count
         /\ WalkFrom(nx, h)[0] = h
         /\ \A n \in 1..Count :
              WalkFrom(nx, h)[n] =
                IF WalkFrom(nx, h)[n - 1] = NULL THEN NULL ELSE nx[WalkFrom(nx, h)[n - 1]]
<1> DEFINE D(w) == [n \in 0..Count |->
                      IF n = 0 THEN h ELSE IF w[n - 1] = NULL THEN NULL ELSE nx[w[n - 1]]]
<1>0. Count \in Nat
  BY ObjectsFinite
<1>1. PICK w \in [0..Count -> Link] :
        /\ w[0] = h
        /\ \A n \in 1..Count : w[n] = IF w[n - 1] = NULL THEN NULL ELSE nx[w[n - 1]]
  BY WalkExists
<1>2. w = D(w)
  <2>1. \A n \in 0..Count : w[n] = D(w)[n]
    BY <1>0, <1>1
  <2> QED
    BY <2>1
<1>3. WalkFrom(nx, h) = CHOOSE v : v = D(v)
  BY DEF WalkFrom
<1>4. WalkFrom(nx, h) = D(WalkFrom(nx, h))
  <2> HIDE DEF D
  <2> QED
    BY <1>2, <1>3
<1> QED
  BY <1>0, <1>4

(* A walk goes up through the members, one by one, and ends. *)
LEMMA ChainWalk ==
  ASSUME NEW S \in SUBSET Object,
         NEW nx \in [Object -> Link], NEW pv \in [Object -> Link],
         NEW rk \in [Object -> Int], Chain(S, nx, pv, rk), NEW h \in S
  PROVE  /\ {WalkFrom(nx, h)[n] : n \in 0..Count} \ {NULL} = {q \in S : rk[h] <= rk[q]}
         /\ WalkFrom(nx, h)[Count] = NULL
<1> DEFINE w == WalkFrom(nx, h)
           Good(n) == w[n] = NULL \/ (w[n] \in S /\ rk[h] <= rk[w[n]])
<1>0. Count \in Nat /\ NULL \notin Object /\ IsFiniteSet(Object) /\ \A q \in S : rk[q] \in Int
  BY ObjectsFinite, NullFacts
<1>1. /\ w[0] = h
      /\ \A n \in 1..Count : w[n] = IF w[n - 1] = NULL THEN NULL ELSE nx[w[n - 1]]
  BY WalkSteps DEF Link
<1> HIDE DEF w
<1>2. ASSUME NEW n \in 0..Count
      PROVE  Good(n)
  <2> DEFINE T == {i \in Nat : i <= Count => Good(i)}
  <2>1. 0 \in T
    BY <1>0, <1>1
  <2>2. ASSUME NEW i \in Nat, i \in T
        PROVE  i + 1 \in T
    <3> SUFFICES ASSUME i + 1 <= Count
                 PROVE  Good(i + 1)
      BY <1>0
    <3>1. Good(i) /\ i + 1 \in 1..Count /\ (i + 1) - 1 = i
      BY <2>2, <1>0
    <3>2. w[i + 1] = IF w[i] = NULL THEN NULL ELSE nx[w[i]]
      BY <3>1, <1>1
    <3>3. w[i] \in S /\ nx[w[i]] # NULL => nx[w[i]] \in S /\ rk[w[i]] < rk[nx[w[i]]]
      BY DEF Chain
    <3> QED
      BY <3>1, <3>2, <3>3, <1>0
  <2>3. Nat \subseteq T
    <3> HIDE DEF T
    <3> QED
      BY <2>1, <2>2, AllNumbers
  <2> QED
    BY <2>3, <1>0
<1>3. ASSUME NEW n \in 1..Count, w[n] # NULL
      PROVE  /\ w[n - 1] \in S /\ w[n] \in S /\ w[n] = nx[w[n - 1]]
             /\ rk[w[n - 1]] < rk[w[n]]
  <2>1. w[n - 1] # NULL /\ w[n] = nx[w[n - 1]]
    BY <1>1, <1>3
  <2>2. w[n - 1] \in S
    BY <1>0, <1>2, <2>1
  <2> QED
    BY <2>1, <2>2, <1>3 DEF Chain
(* Until it ends it does not visit an object twice. *)
<1>4. ASSUME NEW i \in 0..Count
      PROVE  \A j \in 0..Count : i < j /\ w[j] # NULL => w[i] \in S /\ rk[w[i]] < rk[w[j]]
  <2> DEFINE T == {d \in Nat : i + d + 1 <= Count /\ w[i + d + 1] # NULL =>
                                 w[i] \in S /\ rk[w[i]] < rk[w[i + d + 1]]}
  <2>1. 0 \in T
    <3> SUFFICES ASSUME i + 1 <= Count, w[i + 1] # NULL
                 PROVE  w[i] \in S /\ rk[w[i]] < rk[w[i + 1]]
      BY <1>0
    <3>1. i + 1 \in 1..Count /\ (i + 1) - 1 = i
      BY <1>0
    <3> QED
      BY <3>1, <1>3
  <2>2. ASSUME NEW d \in Nat, d \in T
        PROVE  d + 1 \in T
    <3> SUFFICES ASSUME i + d + 2 <= Count, w[i + d + 2] # NULL
                 PROVE  w[i] \in S /\ rk[w[i]] < rk[w[i + d + 2]]
      <4>1. i + (d + 1) + 1 = i + d + 2
        BY <1>0
      <4> QED
        BY <4>1
    <3>1. i + d + 2 \in 1..Count /\ (i + d + 2) - 1 = i + d + 1 /\ i + d + 1 <= Count
      BY <1>0
    <3>2. /\ w[i + d + 1] \in S /\ w[i + d + 2] \in S
          /\ rk[w[i + d + 1]] < rk[w[i + d + 2]]
      BY <3>1, <1>3
    <3>3. w[i] \in S /\ rk[w[i]] < rk[w[i + d + 1]]
      BY <3>1, <3>2, <2>2, <1>0
    <3> QED
      BY <3>2, <3>3, <1>0
  <2>3. Nat \subseteq T
    <3> HIDE DEF T
    <3> QED
      BY <2>1, <2>2, AllNumbers
  <2> SUFFICES ASSUME NEW j \in 0..Count, i < j, w[j] # NULL
               PROVE  w[i] \in S /\ rk[w[i]] < rk[w[j]]
    OBVIOUS
  <2>4. j - i - 1 \in Nat /\ i + (j - i - 1) + 1 = j
    BY <1>0
  <2>5. j - i - 1 \in T
    BY <2>3, <2>4
  <2> QED
    BY <2>4, <2>5
<1>5. w[Count] = NULL
  <2> SUFFICES ASSUME w[Count] # NULL
               PROVE  FALSE
    OBVIOUS
  <2> DEFINE I == 0..Count
             f == [n \in I |-> w[n]]
  <2>1. \A n \in I : w[n] \in S
    <3> TAKE n \in I
    <3>1. CASE n = Count
      BY <3>1, <1>0, <1>2
    <3>2. CASE n < Count
      BY <3>2, <1>0, <1>4
    <3> QED
      BY <3>1, <3>2, <1>0
  <2>2. f \in [I -> Object]
    BY <2>1
  <2>3. IsFiniteSet(I) /\ Cardinality(I) = Count + 1
    BY <1>0, FS_Interval
  <2>4. Cardinality(Object) < Cardinality(I)
    BY <2>3, <1>0 DEF Count
  <2>5. PICK x, y \in I : x # y /\ f[x] = f[y]
    <3> HIDE DEF I, f
    <3> QED
      BY <1>0, <2>2, <2>3, <2>4, FS_PigeonHole
  <2>6. w[x] = w[y] /\ x \in 0..Count /\ y \in 0..Count /\ w[x] # NULL /\ w[x] \in S
    BY <2>5, <2>1, <1>0
  <2>7. x < y \/ y < x
    BY <2>5, <2>6
  <2>8. rk[w[x]] < rk[w[x]]
    BY <2>6, <2>7, <1>4
  <2> QED
    BY <2>6, <2>8, <1>0
(* It leaves none out. *)
<1>6. ASSUME NEW q \in S, rk[h] <= rk[q]
      PROVE  \E n \in 0..Count : w[n] = q
  <2> DEFINE Past == {n \in 0..Count : w[n] = NULL \/ rk[q] < rk[w[n]]}
  <2>1. Past \subseteq Nat /\ Past # {}
    BY <1>0, <1>5
  <2>2. PICK n \in Past : \A m \in Past : n <= m
    <3> HIDE DEF Past
    <3> QED
      BY <2>1, LeastNumber
  <2>3. n # 0
    BY <1>0, <1>1, <1>6, <2>2
  <2>4. n \in 1..Count /\ n - 1 \in 0..Count /\ n - 1 < n
    BY <2>2, <2>3, <1>0
  <2>5. n - 1 \notin Past
    BY <2>2, <2>4, <1>0
  <2>6. w[n - 1] \in S /\ rk[w[n - 1]] <= rk[q]
    BY <2>4, <2>5, <1>0, <1>2
  <2>7. w[n] = nx[w[n - 1]]
    BY <2>4, <2>6, <1>0, <1>1
  <2>8. ~(rk[w[n - 1]] < rk[q])
    <3> SUFFICES ASSUME rk[w[n - 1]] < rk[q]
                 PROVE  FALSE
      OBVIOUS
    <3>1. nx[w[n - 1]] # NULL /\ rk[nx[w[n - 1]]] <= rk[q] /\ nx[w[n - 1]] \in S
      BY <2>6 DEF Chain
    <3> QED
      BY <3>1, <2>2, <2>7, <1>0
  <2>9. w[n - 1] = q
    BY <2>6, <2>8, <1>0 DEF Chain
  <2> QED
    BY <2>4, <2>9
<1>7. {w[n] : n \in 0..Count} \ {NULL} = {q \in S : rk[h] <= rk[q]}
  <2>1. ASSUME NEW x \in {w[n] : n \in 0..Count} \ {NULL}
        PROVE  x \in {q \in S : rk[h] <= rk[q]}
    BY <1>2
  <2>2. ASSUME NEW q \in S, rk[h] <= rk[q]
        PROVE  q \in {w[n] : n \in 0..Count} \ {NULL}
    BY <2>2, <1>0, <1>6
  <2> QED
    BY <2>1, <2>2
<1> QED
  BY <1>5, <1>7 DEF w

(* From NULL it goes nowhere. *)
LEMMA NullWalk ==
  ASSUME NEW nx \in [Object -> Link]
  PROVE  /\ {WalkFrom(nx, NULL)[n] : n \in 0..Count} \ {NULL} = {}
         /\ WalkFrom(nx, NULL)[Count] = NULL
<1> DEFINE w == WalkFrom(nx, NULL)
           T == {i \in Nat : i <= Count => w[i] = NULL}
<1>0. Count \in Nat
  BY ObjectsFinite
<1>1. /\ w[0] = NULL
      /\ \A n \in 1..Count : w[n] = IF w[n - 1] = NULL THEN NULL ELSE nx[w[n - 1]]
  BY WalkSteps DEF Link
<1> HIDE DEF w
<1>2. 0 \in T
  BY <1>1
<1>3. ASSUME NEW i \in Nat, i \in T
      PROVE  i + 1 \in T
  <2>1. i + 1 <= Count => i + 1 \in 1..Count /\ (i + 1) - 1 = i /\ w[i] = NULL
    BY <1>3, <1>0
  <2> QED
    BY <2>1, <1>1
<1>4. Nat \subseteq T
  <2> HIDE DEF T
  <2> QED
    BY <1>2, <1>3, AllNumbers
<1>5. \A n \in 0..Count : w[n] = NULL
  BY <1>0, <1>4
<1> QED
  BY <1>0, <1>5 DEF w

(* Walk and Members of the model. *)
LEMMA MembersAre ==
  ASSUME NEW h \in Link, next \in [Object -> Link]
  PROVE  /\ Members(h) = {WalkFrom(next, h)[n] : n \in 0..Count} \ {NULL}
         /\ Walk(h) = WalkFrom(next, h)
<1>1. Walk(h) = WalkFrom(next, h)
  BY DEF Walk, WalkFrom, Count
<1>2. DOMAIN WalkFrom(next, h) = 0..Count
  BY WalkSteps
<1> QED
  BY <1>1, <1>2 DEF Members
-----------------------------------------------------------------------------
(***************************************************************************)
(* The sets of objects, and the properties that follow from the invariant. *)
(***************************************************************************)
LEMMA Colors ==
  ASSUME TypeOK
  PROVE  /\ marked_color # unmarked_color
         /\ marked_color \in {0, 1} /\ unmarked_color \in {0, 1}
         /\ \A c \in 0..3 : c \in {marked_color, unmarked_color, GRAY, GREEN}
         /\ GRAY = 2 /\ GREEN = 3
BY DEF TypeOK, GENERATION0, GENERATION1, GRAY, GREEN

(* The white and the main list share no object; outside RTmake_object_gray colours
   alone say which is which. *)
LEMMA Sets ==
  ASSUME TypeOK, Greying
  PROVE  /\ next \in [Object -> Link] /\ prev \in [Object -> Link]
         /\ {free, last, black, gray, white, current, target} \subseteq Link
         /\ Group \subseteq Object /\ White \subseteq Group /\ Main \subseteq Group
         /\ Green \subseteq Main /\ Colored(GRAY) \subseteq Main
         /\ White \cap Main = {}
         /\ \A o \in Group : color[o] \in 0..3
         /\ Linked => /\ White = Colored(unmarked_color)
                      /\ Main = {o \in Group : ~WHITEP(o)}
<1>1. /\ next \in [Object -> Link] /\ prev \in [Object -> Link]
      /\ {free, last, black, gray, white, current, target} \subseteq Link
  BY DEF TypeOK, Link
<1>2. Group \subseteq Object /\ White \subseteq Group
  BY DEF Group, White, Colored
<1>3. Main \subseteq Group
  <2>1. gcpc = "paint" => target \in Group
    BY DEF Greying, Linked
  <2> QED
    BY <2>1 DEF Main
<1>4. Green \subseteq Main /\ Colored(GRAY) \subseteq Main
  BY Colors DEF Green, Colored, Main, WHITEP
<1>5. White \cap Main = {}
  BY DEF White, Main, Colored, WHITEP
<1>6. \A o \in Group : color[o] \in 0..3
  BY <1>2 DEF TypeOK
<1>7. Linked => /\ White = Colored(unmarked_color)
                /\ Main = {o \in Group : ~WHITEP(o)}
  <2>1. Linked => target = NULL /\ gcpc # "paint"
    BY DEF Greying, Linked
  <2>2. NULL \notin Group
    BY <1>2, NullFacts
  <2> QED
    BY <2>1, <2>2 DEF White, Main, Colored
<1> QED
  BY <1>1, <1>2, <1>3, <1>4, <1>5, <1>6, <1>7

(* What the walks of the model visit. *)
LEMMA Visits ==
  ASSUME TypeOK, Greying, NEW rk \in [Object -> Int], Lists(rk), Linked
  PROVE  /\ IsFirst(Main, rk, Head)
         /\ Members(Head) = Main /\ Members(white) = White
         /\ Walk(Head)[Count] = NULL /\ Walk(white)[Count] = NULL
         /\ After(free) = Green
         /\ black # NULL => Members(black) = {o \in Main : rk[black] <= rk[o]}
<1>0. /\ next \in [Object -> Link] /\ prev \in [Object -> Link]
      /\ {free, last, black, gray, white, current, target} \subseteq Link
      /\ Main \subseteq Object /\ White \subseteq Object /\ Green \subseteq Main
      /\ NULL \notin Object
      /\ Main = {o \in Group : ~WHITEP(o)}
      /\ \A o \in Main : rk[o] \in Int
  BY Sets, NullFacts
<1>1. Chain(Main, next, prev, rk) /\ Chain(White, next, prev, rk)
  BY DEF Lists, Chains
<1>2. IsFirst(Main, rk, Head)
  <2>1. CASE gray # NULL
    BY <2>1 DEF Lists, Boundary, Head
  <2>2. CASE gray = NULL
    <3>1. Head = black
      BY <2>2 DEF Head
    <3>2. \A o \in Main : ~GRAYP(o) /\ o # target
      BY <2>2, <1>0 DEF Lists, Boundary, Colored, GRAYP, Greying
    <3>3. Main # {} => black \in Main /\ \A o \in Main : rk[black] <= rk[o]
      BY <3>2, <1>0 DEF Lists, Boundary
    <3>4. Main = {} => black = NULL
      BY DEF Lists, Boundary
    <3> QED
      BY <3>1, <3>3, <3>4 DEF IsFirst
  <2> QED
    BY <2>1, <2>2
<1>3. ASSUME NEW h \in Link
      PROVE  /\ h = NULL => Members(h) = {} /\ Walk(h)[Count] = NULL
             /\ h \in Main => Members(h) = {q \in Main : rk[h] <= rk[q]} /\ Walk(h)[Count] = NULL
             /\ h \in White => Members(h) = {q \in White : rk[h] <= rk[q]} /\ Walk(h)[Count] = NULL
  <2>1. Members(h) = {WalkFrom(next, h)[n] : n \in 0..Count} \ {NULL} /\ Walk(h) = WalkFrom(next, h)
    BY <1>0, MembersAre
  <2>2. h = NULL => Members(h) = {} /\ Walk(h)[Count] = NULL
    BY <2>1, <1>0, NullWalk
  <2>3. ASSUME h \in Main
        PROVE  Members(h) = {q \in Main : rk[h] <= rk[q]} /\ Walk(h)[Count] = NULL
    <3>1. /\ {WalkFrom(next, h)[n] : n \in 0..Count} \ {NULL} = {q \in Main : rk[h] <= rk[q]}
          /\ WalkFrom(next, h)[Count] = NULL
      <4>1. Main \in SUBSET Object /\ next \in [Object -> Link] /\ prev \in [Object -> Link]
        BY <1>0
      <4> QED
        BY <4>1, <2>3, <1>1, ChainWalk
    <3> QED
      BY <3>1, <2>1
  <2>4. ASSUME h \in White
        PROVE  Members(h) = {q \in White : rk[h] <= rk[q]} /\ Walk(h)[Count] = NULL
    <3>1. /\ {WalkFrom(next, h)[n] : n \in 0..Count} \ {NULL} = {q \in White : rk[h] <= rk[q]}
          /\ WalkFrom(next, h)[Count] = NULL
      <4>1. White \in SUBSET Object /\ next \in [Object -> Link] /\ prev \in [Object -> Link]
        BY <1>0
      <4> QED
        BY <4>1, <2>4, <1>1, ChainWalk
    <3> QED
      BY <3>1, <2>1
  <2> QED
    BY <2>2, <2>3, <2>4
<1>4. Members(Head) = Main /\ Walk(Head)[Count] = NULL
  <2>1. Head \in Link
    BY <1>0 DEF Head
  <2>2. CASE Main = {}
    BY <2>1, <2>2, <1>2, <1>3 DEF IsFirst
  <2>3. CASE Main # {}
    BY <2>1, <2>3, <1>2, <1>3 DEF IsFirst
  <2> QED
    BY <2>2, <2>3
<1>5. Members(white) = White /\ Walk(white)[Count] = NULL
  <2>1. white \in Link /\ IsFirst(White, rk, white)
    BY <1>0 DEF Lists, Ends
  <2>2. CASE White = {}
    BY <2>1, <2>2, <1>3 DEF IsFirst
  <2>3. CASE White # {}
    BY <2>1, <2>3, <1>3 DEF IsFirst
  <2> QED
    BY <2>2, <2>3
<1>6. After(free) = Green
  <2>1. IsFirst(Green, rk, free)
    BY DEF Lists, Ends
  <2>2. CASE Green = {}
    BY <2>1, <2>2 DEF IsFirst, After
  <2>3. CASE Green # {}
    <3>1. free \in Green /\ free \in Main /\ free # NULL /\ \A q \in Green : rk[free] <= rk[q]
      BY <2>1, <2>3, <1>0 DEF IsFirst
    <3>2. Members(free) = {q \in Main : rk[free] <= rk[q]}
      BY <3>1, <1>0, <1>3
    <3>3. \A q \in Main : rk[free] <= rk[q] <=> q \in Green
      BY <3>1, <1>0 DEF Lists, Ends
    <3> QED
      BY <3>1, <3>2, <3>3, <1>0 DEF After
  <2> QED
    BY <2>2, <2>3
<1>7. black # NULL => Members(black) = {o \in Main : rk[black] <= rk[o]}
  BY <1>0, <1>3 DEF Lists, Boundary
<1> QED
  BY <1>2, <1>4, <1>5, <1>6, <1>7

(* The properties. *)
Properties ==
  /\ ListsLinked /\ NothingLost /\ ColorsMatchLists /\ CountsExact /\ AssertsHold
  /\ PointerStatesDocumented

(* The properties of GroupList follow from the invariant. *)
LEMMA InvProperties ==
  ASSUME IInv
  PROVE  Properties
<1>1. PICK rk \in [Object -> Int] : Lists(rk) /\ Scanning(rk)
  BY DEF IInv
<1>2. /\ TypeOK /\ Greying /\ Counts /\ Locking
      /\ next \in [Object -> Link] /\ prev \in [Object -> Link]
      /\ Main \subseteq Object /\ White \subseteq Object /\ Green \subseteq Main
      /\ NULL \notin Object /\ White \cap Main = {}
      /\ \A o \in Main : rk[o] \in Int
      /\ \A o \in Group : color[o] \in 0..3
  BY Sets, NullFacts DEF IInv
<1>3. ASSUME Linked
      PROVE  /\ IsFirst(Main, rk, Head)
             /\ Members(Head) = Main /\ Members(white) = White
             /\ Walk(Head)[Count] = NULL /\ Walk(white)[Count] = NULL
             /\ After(free) = Green
             /\ black # NULL => Members(black) = {o \in Main : rk[black] <= rk[o]}
             /\ White = Colored(unmarked_color)
             /\ Main = {o \in Group : ~WHITEP(o)}
             /\ target = NULL
  BY <1>1, <1>2, <1>3, Visits, Sets DEF Greying
<1>4. ListsLinked
  <2> SUFFICES ASSUME Linked
               PROVE  /\ DoublyLinked(Head) /\ DoublyLinked(white)
                      /\ Members(Head) \cap Members(white) = {}
                      /\ Head = NULL <=> last = NULL
                      /\ last # NULL => last \in Members(Head) /\ next[last] = NULL
    BY DEF ListsLinked
  <2>1. /\ Chain(Main, next, prev, rk) /\ Chain(White, next, prev, rk)
        /\ IsFirst(White, rk, white) /\ IsLast(Main, rk, last)
    BY <1>1 DEF Lists, Chains, Ends
  <2>2. \A o \in Main : next[o] # NULL => prev[next[o]] = o
    BY <2>1 DEF Chain
  <2>3. \A o \in White : next[o] # NULL => prev[next[o]] = o
    BY <2>1 DEF Chain
  <2>4. Head # NULL => prev[Head] = NULL
    <3> SUFFICES ASSUME Head # NULL, prev[Head] # NULL
                 PROVE  FALSE
      OBVIOUS
    <3>1. Head \in Main /\ \A q \in Main : rk[Head] <= rk[q]
      BY <1>3 DEF IsFirst
    <3>2. prev[Head] \in Main /\ rk[prev[Head]] < rk[Head]
      BY <3>1, <2>1 DEF Chain
    <3> QED
      BY <3>1, <3>2, <1>2
  <2>5. white # NULL => prev[white] = NULL
    <3> SUFFICES ASSUME white # NULL, prev[white] # NULL
                 PROVE  FALSE
      OBVIOUS
    <3>1. white \in White /\ \A q \in White : rk[white] <= rk[q]
      BY <2>1 DEF IsFirst
    <3>2. prev[white] \in White /\ rk[prev[white]] < rk[white]
      BY <3>1, <2>1 DEF Chain
    <3>3. rk[prev[white]] \in Int /\ rk[white] \in Int
      BY <3>1, <3>2, <1>2
    <3> QED
      BY <3>1, <3>2, <3>3
  <2>6. Head = NULL <=> last = NULL
    BY <2>1, <1>2, <1>3 DEF IsFirst, IsLast
  <2>7. last # NULL => last \in Main /\ next[last] = NULL
    <3> SUFFICES ASSUME last # NULL
                 PROVE  last \in Main /\ next[last] = NULL
      OBVIOUS
    <3>1. last \in Main /\ \A q \in Main : rk[q] <= rk[last]
      BY <2>1 DEF IsLast
    <3>2. next[last] # NULL => next[last] \in Main /\ rk[last] < rk[next[last]]
      BY <3>1, <2>1 DEF Chain
    <3> QED
      BY <3>1, <3>2, <1>2
  <2>8. DoublyLinked(Head)
    BY <2>2, <2>4, <1>3 DEF DoublyLinked, Count
  <2>9. DoublyLinked(white)
    BY <2>3, <2>5, <1>3 DEF DoublyLinked, Count
  <2> QED
    BY <2>6, <2>7, <2>8, <2>9, <1>2, <1>3
<1>5. NothingLost
  BY <1>3 DEF NothingLost, Colored, Group, WHITEP
<1>6. ColorsMatchLists
  <2> SUFFICES ASSUME Linked
               PROVE  /\ \A o \in White : WHITEP(o)
                      /\ \A o \in Green : GREENP(o)
                      /\ \A o \in Main \ Green :
                           /\ o \in After(black) => color[o] = marked_color \/ (o = black /\ GRAYP(o))
                           /\ o \notin After(black) => GRAYP(o)
    BY <1>3 DEF ColorsMatchLists
  <2>1. /\ \A o \in White : WHITEP(o)
        /\ \A o \in Green : GREENP(o)
    BY <1>3 DEF Green, Colored, WHITEP, GREENP
  <2>2. ASSUME NEW o \in Main \ Green
        PROVE  /\ o \in After(black) => color[o] = marked_color \/ (o = black /\ GRAYP(o))
               /\ o \notin After(black) => GRAYP(o)
    <3>1. black \in Main /\ black # NULL /\ o # target
      BY <1>1, <1>2, <1>3 DEF Lists, Boundary
    <3>2. o \in After(black) <=> rk[black] <= rk[o]
      BY <3>1, <1>3 DEF After
    <3>3. color[o] \in {marked_color, GRAY}
      BY <1>2, <1>3, Colors DEF Green, Colored, WHITEP
    <3>4. rk[o] < rk[black] => GRAYP(o)
      BY <1>1, <3>1 DEF Lists, Boundary
    <3>5. rk[o] > rk[black] => ~GRAYP(o)
      BY <1>1, <3>1 DEF Lists, Boundary
    <3>6. rk[o] = rk[black] => o = black
      BY <1>1, <3>1 DEF Lists, Chains, Chain
    <3>7. rk[o] \in Int /\ rk[black] \in Int
      BY <1>2, <3>1
    <3> QED
      BY <3>2, <3>3, <3>4, <3>5, <3>6, <3>7 DEF GRAYP
  <2> QED
    BY <2>1, <2>2
<1>7. CountsExact
  <2> SUFFICES ASSUME Linked
               PROVE  /\ white_count = Cardinality(White)
                      /\ black_scanned_count + black_alloc_count =
                           Cardinality({o \in Main : color[o] = marked_color})
    BY <1>3 DEF CountsExact
  <2>1. {o \in Main : color[o] = marked_color} = Colored(marked_color)
    BY <1>2, <1>3, Colors DEF Colored, WHITEP
  <2> QED
    BY <2>1, <1>2, <1>3 DEF Counts
<1>8. AssertsHold
  <2>1. gcpc = "link" /\ black = NULL => free = NULL
    BY <1>1, <1>2 DEF Lists, Boundary, Ends, IsFirst
  <2>2. ASSUME gcpc = "paint"
        PROVE  WHITEP(target) /\ white_count > 0
    <3>1. target \in Colored(unmarked_color) /\ WHITEP(target)
      BY <2>2, <1>2 DEF Greying, Linked, Colored, WHITEP
    <3>2. IsFiniteSet(Colored(unmarked_color))
      <4>1. Colored(unmarked_color) \in SUBSET Object
        BY DEF Colored, Group
      <4> QED
        BY <4>1, ObjectsFinite, FS_Subset
    <3>3. white_count \in Nat /\ white_count # 0
      BY <3>1, <3>2, <1>2, FS_CardinalityType, FS_EmptySet DEF Counts
    <3> QED
      BY <3>1, <3>3
  <2>3. ASSUME NEW m \in Mutator, mpc[m] = "pop"
        PROVE  free # NULL /\ GREENP(free)
    <3>1. free # NULL
      BY <2>3, <1>2 DEF Locking
    <3>2. free \in Green
      BY <3>1, <1>1 DEF Lists, Ends, IsFirst
    <3> QED
      BY <3>1, <3>2 DEF Green, Colored, GREENP
  <2> QED
    BY <2>1, <2>2, <2>3 DEF AssertsHold
<1>9. PointerStatesDocumented
  <2> SUFFICES ASSUME Linked
               PROVE  PointerState \in DocumentedStates
    BY DEF PointerStatesDocumented
  <2>1. black # NULL <=> last # NULL
    BY <1>1, <1>2 DEF Lists, Boundary, Ends, IsLast
  <2>2. gray # NULL \/ free # NULL => black # NULL
    BY <1>1, <1>2 DEF Lists, Boundary, Ends, IsFirst
  <2> QED
    BY <2>1, <2>2, Zenon DEF PointerState, DocumentedStates
<1> QED
  BY <1>4, <1>5, <1>6, <1>7, <1>8, <1>9 DEF Properties
-----------------------------------------------------------------------------
(***************************************************************************)
(* Steps that leave the lists alone.                                       *)
(***************************************************************************)
Kept ==
  /\ UNCHANGED <<headerVars, groupVars, colorVars, target>>
  /\ Group' = Group
  /\ (gcpc' = "paint") <=> (gcpc = "paint")

(* Such a step keeps the sets of objects ... *)
LEMMA SetsKept ==
  ASSUME Kept
  PROVE  /\ Main' = Main /\ White' = White /\ Green' = Green
         /\ \A c : Colored(c)' = Colored(c)
         /\ Colored(GRAY)' = Colored(GRAY)
         /\ Colored(unmarked_color)' = Colored(unmarked_color)
         /\ Colored(marked_color)' = Colored(marked_color)
BY DEF Kept, headerVars, groupVars, colorVars, Main, White, Green, Colored, WHITEP

(* ... and the lists. *)
LEMMA ListsKept ==
  ASSUME Kept, NEW rk, Lists(rk)
  PROVE  Lists(rk)'
<1>1. Chains(rk)'
  BY SetsKept DEF Kept, headerVars, Lists, Chains, Chain
<1>2. Ends(rk)'
  BY SetsKept DEF Kept, groupVars, Lists, Ends, IsFirst, IsLast
<1>3. Boundary(rk)'
  BY SetsKept DEF Kept, headerVars, groupVars, colorVars, Lists, Boundary, IsFirst, GRAYP, GREENP
<1> QED
  BY <1>1, <1>2, <1>3 DEF Lists

(* Locking, waiting and running out of memory. *)
LEMMA QuietAllocator ==
  ASSUME IInv, NEW m \in Mutator,
         RTallocate(m) \/ SyncCollect(m) \/ Resume(m) \/ out_of_memory(m)
  PROVE  IInv'
<1>0. PICK rk \in [Object -> Int] : Lists(rk) /\ Scanning(rk)
  BY DEF IInv
<1>1. Kept /\ UNCHANGED <<gcVars, countVars, table>>
  BY DEF RTallocate, SyncCollect, Resume, out_of_memory, Kept, Group, gcVars
<1>2. Lists(rk)' /\ Scanning(rk)'
  <2>1. Lists(rk)'
    BY <1>0, <1>1, ListsKept
  <2>2. Scanning(rk)'
    BY <1>0, <1>1, SetsKept DEF Scanning, Kept, headerVars, gcVars, GRAYP
  <2> QED
    BY <2>1, <2>2
<1>3. TypeOK'
  BY DEF IInv, TypeOK, RTallocate, SyncCollect, Resume, out_of_memory, headerVars, groupVars,
         countVars, colorVars, gcVars
<1>4. Greying' /\ Coalescing'
  BY <1>1 DEF IInv, Greying, Coalescing, Linked, Kept, headerVars, groupVars, colorVars, gcVars, WHITEP
<1>5. Tracing'
  BY <1>1, SetsKept DEF IInv, Tracing, gcVars
<1>6. Counts'
  BY <1>1, SetsKept DEF IInv, Counts, countVars
<1>7. Locking'
  BY NullFacts DEF IInv, TypeOK, Locking, RTallocate, SyncCollect, Resume, out_of_memory, groupVars
<1> QED
  BY <1>2, <1>3, <1>4, <1>5, <1>6, <1>7 DEF IInv

(* Nothing happens. *)
LEMMA QuietStutter ==
  ASSUME IInv, UNCHANGED vars
  PROVE  IInv'
<1>0. PICK rk \in [Object -> Int] : Lists(rk) /\ Scanning(rk)
  BY DEF IInv
<1>1. Kept /\ UNCHANGED <<gcVars, countVars, table, mutVars, free_lock>>
  BY DEF vars, Kept, Group, headerVars, groupVars, colorVars, gcVars, countVars, mutVars
<1>2. Lists(rk)' /\ Scanning(rk)'
  <2>1. Lists(rk)'
    BY <1>0, <1>1, ListsKept
  <2>2. Scanning(rk)'
    BY <1>0, <1>1, SetsKept DEF Scanning, Kept, headerVars, gcVars, GRAYP
  <2> QED
    BY <2>1, <2>2
<1>3. TypeOK'
  BY DEF IInv, TypeOK, vars
<1>4. Greying' /\ Coalescing'
  BY DEF IInv, Greying, Coalescing, Linked, vars, WHITEP, Group
<1>5. Tracing'
  BY <1>1, SetsKept DEF IInv, Tracing, gcVars
<1>6. Counts'
  BY <1>1, SetsKept DEF IInv, Counts, countVars
<1>7. Locking'
  BY DEF IInv, Locking, vars
<1> QED
  BY <1>2, <1>3, <1>4, <1>5, <1>6, <1>7 DEF IInv

(* scan_gray_set starts at the gray object next to black, or finds none. *)
LEMMA StartPassStep ==
  ASSUME IInv, StartPass
  PROVE  IInv'
<1>0. PICK rk \in [Object -> Int] : Lists(rk) /\ Scanning(rk)
  BY DEF IInv
<1>1. /\ Kept /\ Linked /\ Linked' /\ target = NULL /\ UNCHANGED <<countVars, table, mutVars, free_lock, page, return>>
      /\ gcpc' \in {"scan", "vector"}
  BY DEF StartPass, Kept, Group, Linked, IInv, Greying
<1>2. /\ TypeOK /\ Greying /\ Main \subseteq Object /\ Colored(GRAY) \subseteq Main
      /\ NULL \notin Object /\ \A o \in Main : rk[o] \in Int
      /\ Main = {o \in Group : ~WHITEP(o)} /\ Green \subseteq Main /\ prev \in [Object -> Link]
  BY <1>1, Sets, NullFacts DEF IInv
<1> DEFINE c == IF black # NULL /\ ~GRAYP(black) THEN prev[black] ELSE black
<1>3. current' = c /\ gcpc' = IF c # NULL THEN "scan" ELSE "vector"
  BY DEF StartPass
<1>4. /\ Main # {} => black \in Main
      /\ Main = {} => black = NULL
      /\ \A o \in Main : /\ rk[o] < rk[black] => GRAYP(o)
                         /\ rk[o] > rk[black] => ~GRAYP(o)
      /\ \A o \in Main : rk[o] = rk[black] /\ black \in Main => o = black
  BY <1>0, <1>1, <1>2 DEF Lists, Boundary, Chains, Chain
<1>5. c = NULL => Colored(GRAY) = {}
  <2> SUFFICES ASSUME c = NULL, NEW o \in Main
               PROVE  ~GRAYP(o)
    BY <1>2 DEF Colored, GRAYP
  <2>1. black \in Main /\ black # NULL
    BY <1>2, <1>4
  <2>2. ~GRAYP(black) /\ prev[black] = NULL
    BY <2>1
  <2>3. ~(rk[o] < rk[black])
    BY <1>0, <2>1, <2>2 DEF Lists, Chains, Chain
  <2>4. rk[o] \in Int /\ rk[black] \in Int
    BY <1>2, <2>1
  <2>5. rk[o] = rk[black] \/ rk[o] > rk[black]
    BY <2>3, <2>4
  <2> QED
    BY <2>1, <2>2, <2>5, <1>4
<1>6. ASSUME c # NULL
      PROVE  c \in Main /\ GRAYP(c) /\ \A o \in Main : rk[o] > rk[c] => ~GRAYP(o)
  <2>1. black # NULL /\ black \in Main
    BY <1>4, <1>6, <1>2
  <2>2. CASE GRAYP(black)
    BY <2>1, <2>2, <1>4
  <2>3. CASE ~GRAYP(black)
    <3>1. c = prev[black] /\ c \in Main /\ rk[c] < rk[black]
      BY <2>1, <2>3, <1>0, <1>6 DEF Lists, Chains, Chain
    <3>2. ASSUME NEW o \in Main, rk[o] > rk[c]
          PROVE  ~GRAYP(o)
      <4>1. ~(rk[o] < rk[black])
        <5> SUFFICES ASSUME rk[o] < rk[black]
                     PROVE  FALSE
          OBVIOUS
        <5>1. rk[o] <= rk[prev[black]]
          BY <2>1, <1>0 DEF Lists, Chains, Chain
        <5> QED
          BY <5>1, <3>1, <3>2, <1>2
      <4>2. rk[o] \in Int /\ rk[black] \in Int
        BY <1>2, <2>1
      <4> QED
        BY <2>1, <2>3, <4>1, <4>2, <1>4
    <3> QED
      BY <3>1, <3>2, <1>4
  <2> QED
    BY <2>2, <2>3
<1> HIDE DEF c
<1>7. Lists(rk)'
  BY <1>0, <1>1, ListsKept
<1>8. Scanning(rk)'
  <2> SUFFICES ASSUME gcpc' = "scan", NEW o \in Main', rk[o] > rk[c]
               PROVE  ~GRAYP(o)'
    BY <1>3 DEF Scanning
  <2>1. c # NULL /\ o \in Main
    BY <1>1, <1>3, SetsKept
  <2> QED
    BY <2>1, <1>1, <1>6 DEF Kept, headerVars, GRAYP
<1>9. TypeOK'
  <2>1. c \in Object \cup {NULL}
    BY <1>2, <1>6
  <2> QED
    BY <2>1, <1>1, <1>2, <1>3 DEF StartPass, TypeOK, Kept, headerVars, groupVars, countVars, colorVars, mutVars
<1>10. Greying' /\ Coalescing'
  BY <1>1, <1>2 DEF IInv, Greying, Coalescing, Linked, Kept
<1>11. Tracing'
  <2>1. gcpc' = "scan" => c \in Colored(GRAY)
    BY <1>2, <1>3, <1>6 DEF Colored, GRAYP
  <2>2. gcpc' = "vector" => Colored(GRAY) = {}
    BY <1>3, <1>5
  <2> QED
    BY <2>1, <2>2, <1>1, <1>3, SetsKept DEF Tracing
<1>12. Counts'
  BY <1>1, SetsKept DEF IInv, Counts, countVars
<1>13. Locking'
  BY <1>1 DEF IInv, Locking, Kept, groupVars, mutVars
<1> QED
  BY <1>7, <1>8, <1>9, <1>10, <1>11, <1>12, <1>13 DEF IInv

(* The collector moves on without touching the lists. *)
LEMMA QuietCollector ==
  ASSUME IInv,
         \/ TraceAgain \/ TraceDone \/ CycleDone
         \/ \E p \in Page : SkipPage(p) \/ FindGreenPage(p) \/ coalesce_free_pages(p)
  PROVE  IInv'
<1>0. PICK rk \in [Object -> Int] : Lists(rk) /\ Scanning(rk)
  BY DEF IInv
<1>1. Group' = Group
  <2>1. CASE UNCHANGED table
    BY <2>1 DEF Group
  <2>2. ASSUME NEW p \in Page, coalesce_free_pages(p)
        PROVE  Group' = Group
    <3>1. table \in [Page -> {"EMPTY", "GROUP", "FREE"}]
      BY DEF IInv, TypeOK
    <3>2. \A q \in Page : table'[q] = "GROUP" <=> table[q] = "GROUP"
      BY <2>2, <3>1 DEF coalesce_free_pages
    <3>3. \A o \in Object : o[1] \in Page
      BY DEF Object
    <3> QED
      BY <3>2, <3>3 DEF Group
  <2> QED
    BY <2>1, <2>2 DEF TraceAgain, TraceDone, CycleDone, SkipPage, FindGreenPage
<1>2. /\ Kept /\ Linked /\ Linked' /\ UNCHANGED <<countVars, return, free_lock, mpc, mark_count, current>>
      /\ gcpc' # "scan"
  BY <1>1 DEF TraceAgain, TraceDone, CycleDone, SkipPage, FindGreenPage, coalesce_free_pages, Kept,
              Linked, gcVars, mutVars
<1>3. Lists(rk)'
  BY <1>0, <1>2, ListsKept
<1>4. Scanning(rk)'
  BY <1>2 DEF Scanning
<1>5. TypeOK'
  BY DEF IInv, TypeOK, TraceAgain, TraceDone, CycleDone, SkipPage, FindGreenPage, coalesce_free_pages,
         headerVars, groupVars, countVars, colorVars, mutVars, gcVars
<1>6. Greying'
  BY <1>2 DEF IInv, Greying, Linked, Kept
<1>7. Tracing'
  BY <1>2, SetsKept DEF IInv, Tracing, TraceAgain, TraceDone, CycleDone, SkipPage, FindGreenPage,
                        coalesce_free_pages, gcVars
<1>8. Coalescing'
  BY DEF IInv, Coalescing, TraceAgain, TraceDone, CycleDone, SkipPage, FindGreenPage,
         coalesce_free_pages, gcVars
<1>9. Counts'
  BY <1>2, SetsKept DEF IInv, Counts, countVars
<1>10. Locking'
  BY <1>2 DEF IInv, Locking, Kept, groupVars
<1> QED
  BY <1>3, <1>4, <1>5, <1>6, <1>7, <1>8, <1>9, <1>10 DEF IInv
-----------------------------------------------------------------------------
(***************************************************************************)
(* Steps that move a boundary of the list.                                 *)
(***************************************************************************)

(* The sets of one colour are finite. *)
LEMMA ColoredFinite ==
  ASSUME NEW S, S \subseteq Object
  PROVE  IsFiniteSet(S) /\ Cardinality(S) \in Nat
<1>1. S \in SUBSET Object
  OBVIOUS
<1>2. IsFiniteSet(S)
  BY <1>1, ObjectsFinite, FS_Subset
<1> QED
  BY <1>2, FS_CardinalityType

(* RTallocate pops the first green object: free moves on, the object counts as black. *)
LEMMA PopFreeStep ==
  ASSUME IInv, NEW m \in Mutator, PopFree(m)
  PROVE  IInv'
<1>0. PICK rk \in [Object -> Int] : Lists(rk) /\ Scanning(rk)
  BY DEF IInv
<1>1. /\ TypeOK /\ Greying /\ Tracing /\ Coalescing /\ Counts /\ Locking
      /\ Main \subseteq Object /\ Group \subseteq Object /\ Green \subseteq Main /\ Main \subseteq Group
      /\ White \subseteq Group /\ White \cap Main = {} /\ Colored(GRAY) \subseteq Main
      /\ NULL \notin Object /\ \A o \in Main : rk[o] \in Int
      /\ next \in [Object -> Link] /\ prev \in [Object -> Link]
  BY Sets, NullFacts DEF IInv
<1>2. free \in Green /\ \A q \in Green : rk[free] <= rk[q]
  BY <1>0, <1>1 DEF PopFree, Locking, Lists, Ends, IsFirst
<1>3. /\ free \in Object /\ free \in Group /\ free \in Main /\ color[free] = GREEN
      /\ free # target
  <2>1. color[free] = GREEN /\ free \in Group
    BY <1>2 DEF Green, Colored
  <2>2. target # NULL => color[target] = unmarked_color
    BY <1>1 DEF Greying, WHITEP
  <2>3. GREEN # unmarked_color
    BY <1>1, Colors
  <2> QED
    BY <1>1, <1>2, <2>1, <2>2, <2>3
<1>4. /\ UNCHANGED <<next, prev, last, black, gray, white, white_count, black_scanned_count,
                     colorVars, table, waited, gcVars>>
      /\ free' = next[free] /\ color' = [color EXCEPT ![free] = marked_color]
      /\ black_alloc_count' = black_alloc_count + 1
      /\ Group' = Group
  BY DEF PopFree, Group
<1>5. color \in [Object -> 0..3] /\ marked_color \in 0..3
  BY <1>1, Colors DEF TypeOK
<1>6. /\ color'[free] = marked_color
      /\ \A o \in Object : o # free => color'[o] = color[o]
  BY <1>3, <1>4, <1>5
<1>7. /\ Main' = Main /\ White' = White /\ Green' = Green \ {free}
      /\ Colored(GRAY)' = Colored(GRAY)
      /\ Colored(unmarked_color)' = Colored(unmarked_color)
      /\ Colored(marked_color)' = Colored(marked_color) \cup {free}
      /\ \A o \in Main : GRAYP(o)' <=> GRAYP(o)
  <2>1. /\ marked_color # unmarked_color /\ marked_color # GRAY /\ marked_color # GREEN
        /\ unmarked_color # GREEN /\ GRAY # GREEN
    BY <1>1, Colors
  <2>2. UNCHANGED <<marked_color, unmarked_color, target, gcpc>>
    BY <1>4 DEF colorVars, gcVars
  <2>3. /\ Colored(GRAY)' = Colored(GRAY)
        /\ Colored(unmarked_color)' = Colored(unmarked_color)
        /\ Colored(marked_color)' = Colored(marked_color) \cup {free}
        /\ Green' = Green \ {free}
    BY <1>1, <1>3, <1>4, <1>6, <2>1, <2>2 DEF Colored, Green
  <2>4. White' = White
    BY <2>2, <2>3 DEF White
  <2>5. {o \in Group : ~WHITEP(o)}' = {o \in Group : ~WHITEP(o)}
    BY <1>1, <1>3, <1>4, <1>6, <2>1, <2>2 DEF WHITEP
  <2>6. Main' = Main
    BY <2>2, <2>5 DEF Main
  <2>7. \A o \in Main : GRAYP(o)' <=> GRAYP(o)
    BY <1>1, <1>3, <1>6, <2>1 DEF GRAYP
  <2> QED
    BY <2>3, <2>4, <2>6, <2>7
<1>8. Chains(rk)'
  BY <1>0, <1>4, <1>7 DEF Lists, Chains, Chain
<1>9. IsFirst(Green', rk, next[free])
  <2>1. Chain(Main, next, prev, rk)
    BY <1>0 DEF Lists, Chains
  <2>2. next[free] # NULL => next[free] \in Main /\ rk[free] < rk[next[free]]
    BY <2>1, <1>3 DEF Chain
  <2>3. next[free] # NULL => next[free] \in Green'
    BY <2>2, <1>0, <1>1, <1>2, <1>3, <1>7 DEF Lists, Ends
  <2>4. \A q \in Green' : next[free] # NULL /\ rk[next[free]] <= rk[q]
    <3> TAKE q \in Green'
    <3>1. q \in Main /\ q # free /\ rk[free] <= rk[q]
      BY <1>1, <1>2, <1>7
    <3>2. rk[free] < rk[q]
      BY <3>1, <2>1, <1>1, <1>3 DEF Chain
    <3> QED
      BY <3>1, <3>2, <2>1, <1>3 DEF Chain
  <2> QED
    BY <2>3, <2>4 DEF IsFirst
<1>10. Ends(rk)'
  <2>1. IsFirst(White', rk, white') /\ IsLast(Main', rk, last')
    BY <1>0, <1>4, <1>7 DEF Lists, Ends
  <2>2. \A o \in Main' \ Green' : \A q \in Green' : rk[o] < rk[q]
    <3> SUFFICES ASSUME NEW o \in Main \ Green', NEW q \in Green'
                 PROVE  rk[o] < rk[q]
      BY <1>7
    <3>1. q \in Green /\ q # free /\ q \in Main
      BY <1>1, <1>7
    <3>2. CASE o = free
      <4>1. rk[free] <= rk[q] /\ rk[free] # rk[q]
        BY <3>1, <1>0, <1>2, <1>3 DEF Lists, Chains, Chain
      <4> QED
        BY <3>1, <3>2, <4>1, <1>1, <1>3
    <3>3. CASE o # free
      BY <3>1, <3>3, <1>0, <1>7 DEF Lists, Ends
    <3> QED
      BY <3>2, <3>3
  <2> QED
    BY <2>1, <2>2, <1>4, <1>9 DEF Ends, IsFirst, IsLast
<1>11. Boundary(rk)'
  <2>1. gray # NULL => gray # free
    BY <1>0, <1>3 DEF Lists, Boundary, GREENP
  <2>2. gray # NULL => gray \in Main /\ ~GREENP(gray)
    BY <1>0, <1>3 DEF Lists, Boundary, IsFirst
  <2>3. gray # NULL => ~GREENP(gray)'
    BY <2>1, <2>2, <1>1, <1>4, <1>6 DEF GREENP
  <2> QED
    BY <2>3, <1>0, <1>4, <1>7 DEF Lists, Boundary, IsFirst, gcVars
<1>12. Scanning(rk)'
  BY <1>0, <1>4, <1>7 DEF Scanning, gcVars
<1>13. TypeOK'
  <2>1. color' \in [Object -> 0..3] /\ free' \in Object \cup {NULL}
    BY <1>1, <1>3, <1>4, <1>5 DEF Link
  <2>2. black_alloc_count' \in Nat /\ free_lock' \in Mutator \cup {NULL}
    BY <1>1 DEF TypeOK, PopFree
  <2>3. mpc' \in [Mutator -> {"run", "pages", "again", "pop", "wait", "oom"}]
    BY <1>1 DEF TypeOK, PopFree
  <2> QED
    BY <2>1, <2>2, <2>3, <1>1, <1>4, SMTT(30) DEF TypeOK, colorVars, gcVars
<1>14. Greying'
  <2>1. UNCHANGED <<target, return, mark_count, gcpc, gray, prev, next, black, unmarked_color>> /\ Group' = Group
    BY <1>4 DEF gcVars, colorVars
  <2>2. Linked' <=> Linked
    BY <2>1 DEF Linked
  <2>3. target # NULL => WHITEP(target)'
    <3>1. target # NULL => target \in Group /\ WHITEP(target)
      BY <1>1 DEF Greying
    <3> QED
      BY <3>1, <2>1, <1>1, <1>3, <1>6 DEF WHITEP
  <2>4. ~Linked => target # NULL
    BY <1>1 DEF Greying
  <2> QED
    BY <2>1, <2>2, <2>3, <2>4, <1>1 DEF Greying
<1>15. Tracing' /\ Coalescing'
  BY <1>1, <1>4, <1>7 DEF Tracing, Coalescing, gcVars
<1>16. Counts'
  <2>1. Colored(marked_color) \subseteq Object /\ free \notin Colored(marked_color)
    BY <1>1, <1>3, Colors DEF Colored
  <2>2. IsFiniteSet(Colored(marked_color)) /\ Cardinality(Colored(marked_color)) \in Nat
    BY <2>1, ColoredFinite
  <2>3. Cardinality(Colored(marked_color)') = Cardinality(Colored(marked_color)) + 1
    BY <2>1, <2>2, <1>7, FS_AddElement
  <2>4. black_scanned_count \in Nat /\ black_alloc_count \in Nat
    BY <1>1 DEF TypeOK
  <2>5. black_scanned_count + black_alloc_count = Cardinality(Colored(marked_color))
    BY <1>1 DEF Counts
  <2>6. black_scanned_count' + black_alloc_count' = Cardinality(Colored(marked_color)')
    BY <2>2, <2>3, <2>4, <2>5, <1>4
  <2>7. white_count' = Cardinality(Colored(unmarked_color)')
    BY <1>1, <1>4, <1>7 DEF Counts
  <2> QED
    BY <2>6, <2>7 DEF Counts
<1>17. Locking'
  BY <1>1 DEF Locking, PopFree, TypeOK
<1> QED
  BY <1>8, <1>10, <1>11, <1>12, <1>13, <1>14, <1>15, <1>16, <1>17 DEF IInv, Lists

(* scan_gray_set blackens current: black moves back to it. *)
LEMMA FinishObjectStep ==
  ASSUME IInv, FinishObject
  PROVE  IInv'
<1>0. PICK rk \in [Object -> Int] : Lists(rk) /\ Scanning(rk)
  BY DEF IInv
<1>1. /\ TypeOK /\ Greying /\ Tracing /\ Coalescing /\ Counts /\ Locking
      /\ Main \subseteq Object /\ Group \subseteq Object /\ Green \subseteq Main /\ Main \subseteq Group
      /\ White \subseteq Group /\ White \cap Main = {} /\ Colored(GRAY) \subseteq Main
      /\ NULL \notin Object /\ \A o \in Main : rk[o] \in Int
      /\ next \in [Object -> Link] /\ prev \in [Object -> Link]
  BY Sets, NullFacts DEF IInv
<1>2. /\ gcpc = "scan" /\ Linked /\ target = NULL
      /\ current \in Main /\ color[current] = GRAY /\ current \in Group /\ current \in Object
      /\ gray # NULL
  <2>1. gcpc = "scan" /\ Linked
    BY DEF FinishObject, Linked
  <2>2. current \in Colored(GRAY)
    BY <2>1, <1>1 DEF Tracing
  <2> QED
    BY <2>1, <2>2, <1>0, <1>1 DEF Colored, Greying, Lists, Boundary
<1>3. /\ UNCHANGED <<next, prev, free, last, gray, white, white_count, black_alloc_count,
                     colorVars, free_lock, table, mutVars, target, return, mark_count,
                     pages_left, page>>
      /\ color' = [color EXCEPT ![current] = marked_color]
      /\ black' = current /\ current' = prev[current]
      /\ black_scanned_count' = black_scanned_count + 1
      /\ gcpc' = IF prev[current] = NULL THEN "pass" ELSE "scan"
      /\ Group' = Group
  BY DEF FinishObject, Group
<1>4. color \in [Object -> 0..3] /\ marked_color \in 0..3
  BY <1>1, Colors, SMTT(30) DEF TypeOK
<1>5. /\ color'[current] = marked_color
      /\ \A o \in Object : o # current => color'[o] = color[o]
  BY <1>2, <1>3, <1>4
<1>6. /\ Main' = Main /\ White' = White /\ Green' = Green
      /\ Colored(GRAY)' = Colored(GRAY) \ {current}
      /\ Colored(unmarked_color)' = Colored(unmarked_color)
      /\ Colored(marked_color)' = Colored(marked_color) \cup {current}
      /\ \A o \in Main : GRAYP(o)' <=> GRAYP(o) /\ o # current
  <2>1. /\ marked_color # unmarked_color /\ marked_color # GRAY /\ marked_color # GREEN
        /\ unmarked_color # GRAY /\ GRAY # GREEN
    BY <1>1, Colors
  <2>2. UNCHANGED <<marked_color, unmarked_color, target>>
    BY <1>3 DEF colorVars
  <2>3. /\ Colored(GRAY)' = Colored(GRAY) \ {current}
        /\ Colored(unmarked_color)' = Colored(unmarked_color)
        /\ Colored(marked_color)' = Colored(marked_color) \cup {current}
        /\ Green' = Green
    BY <1>1, <1>2, <1>3, <1>5, <2>1, <2>2 DEF Colored, Green
  <2>4. White' = White
    BY <2>2, <2>3 DEF White
  <2>5. {o \in Group : ~WHITEP(o)}' = {o \in Group : ~WHITEP(o)}
    BY <1>1, <1>2, <1>3, <1>5, <2>1, <2>2 DEF WHITEP
  <2>6. Main' = Main
    BY <2>2, <2>5, <1>2, <1>3 DEF Main
  <2>7. \A o \in Main : GRAYP(o)' <=> GRAYP(o) /\ o # current
    BY <1>1, <1>2, <1>5, <2>1 DEF GRAYP
  <2> QED
    BY <2>3, <2>4, <2>6, <2>7
<1>7. Chains(rk)'
  BY <1>0, <1>3, <1>6 DEF Lists, Chains, Chain
<1>8. Ends(rk)'
  BY <1>0, <1>3, <1>6 DEF Lists, Ends, IsFirst, IsLast
<1>9. black \in Main /\ rk[current] <= rk[black]
  BY <1>0, <1>1, <1>2 DEF Lists, Boundary, GRAYP
<1>10. \A o \in Main : /\ rk[o] < rk[current] => GRAYP(o)
                       /\ rk[o] > rk[current] => ~GRAYP(o)
  <2> TAKE o \in Main
  <2>1. rk[o] \in Int /\ rk[current] \in Int /\ rk[black] \in Int /\ o # target
    BY <1>1, <1>2, <1>9
  <2>2. rk[o] < rk[black] => GRAYP(o)
    BY <1>0, <2>1 DEF Lists, Boundary
  <2>3. rk[o] > rk[current] => ~GRAYP(o)
    BY <1>0, <1>2 DEF Scanning
  <2> QED
    BY <2>1, <2>2, <2>3, <1>9
<1>11. Boundary(rk)'
  <2>1. Main' # {} /\ black' \in Main'
    BY <1>2, <1>3, <1>6
  <2>2. ASSUME NEW o \in Main'
        PROVE  /\ rk[o] < rk[black'] => GRAYP(o)' \/ o = target'
               /\ rk[o] > rk[black'] => ~GRAYP(o)' /\ o # target'
    <3>1. o \in Main /\ rk[o] \in Int /\ o # target'
      BY <1>1, <1>2, <1>3, <1>6
    <3>2. rk[o] < rk[current] => o # current
      BY <1>1, <1>2
    <3> QED
      BY <3>1, <3>2, <1>3, <1>6, <1>10
  <2>3. IsFirst(Main', rk, gray') /\ ~GREENP(gray)'
    <3>1. IsFirst(Main, rk, gray) /\ ~GREENP(gray) /\ gray \in Main
      BY <1>0, <1>2 DEF Lists, Boundary, IsFirst
    <3>2. ~GREENP(gray)'
      BY <3>1, <1>1, <1>3, <1>5, Colors DEF GREENP
    <3> QED
      BY <3>1, <3>2, <1>3, <1>6
  <2>4. gray' # NULL
    BY <1>2, <1>3
  <2> QED
    BY <2>1, <2>2, <2>3, <2>4 DEF Boundary
<1>12. prev[current] # NULL => /\ prev[current] \in Main /\ rk[prev[current]] < rk[current]
                               /\ prev[current] # current
                               /\ \A o \in Main : rk[o] < rk[current] => rk[o] <= rk[prev[current]]
  BY <1>0, <1>1, <1>2 DEF Lists, Chains, Chain
<1>13. Scanning(rk)'
  <2> SUFFICES ASSUME prev[current] # NULL, NEW o \in Main, rk[o] > rk[prev[current]]
               PROVE  ~GRAYP(o)'
    BY <1>3, <1>6 DEF Scanning
  <2>1. rk[o] \in Int /\ rk[current] \in Int /\ rk[prev[current]] \in Int
    BY <1>1, <1>2, <1>12
  <2>2. rk[o] = rk[current] => o = current
    BY <1>0, <1>2 DEF Lists, Chains, Chain
  <2> QED
    BY <2>1, <2>2, <1>6, <1>10, <1>12
<1>14. TypeOK'
  <2>1. color' \in [Object -> 0..3] /\ current' \in Object \cup {NULL}
    BY <1>1, <1>2, <1>3, <1>4 DEF Link
  <2>2. black_scanned_count' \in Nat
    BY <1>1, <1>3 DEF TypeOK
  <2>3. black' \in Object /\ gcpc' \in {"pass", "scan"}
    BY <1>2, <1>3
  <2>4. {free, last, black, gray, white, current, target}' \subseteq Object \cup {NULL}
    BY <2>1, <2>3, <1>1, <1>3 DEF TypeOK
  <2>5. {white_count, black_scanned_count, black_alloc_count}' \subseteq Nat
    BY <2>2, <1>1, <1>3 DEF TypeOK
  <2>6. {marked_color, unmarked_color}' = {GENERATION0, GENERATION1}
    BY <1>1, <1>3 DEF TypeOK, colorVars
  <2> QED
    BY <2>1, <2>3, <2>4, <2>5, <2>6, <1>1, <1>3 DEF TypeOK, mutVars
<1>15. Greying' /\ Coalescing'
  BY <1>2, <1>3 DEF Greying, Coalescing, Linked
<1>16. Tracing'
  <2>0. PICK b : b = prev[current]
    OBVIOUS
  <2>1. gcpc' = "scan" => b \in Colored(GRAY)'
    <3> SUFFICES ASSUME b # NULL
                 PROVE  b \in Colored(GRAY)'
      BY <2>0, <1>3
    <3>1. b \in Main /\ GRAYP(b)'
      BY <2>0, <1>6, <1>10, <1>12
    <3> QED
      BY <3>1, <1>1, <1>3 DEF Colored, GRAYP
  <2> QED
    BY <2>0, <2>1, <1>3 DEF Tracing
<1>17. Counts'
  <2>1. Colored(marked_color) \subseteq Object /\ current \notin Colored(marked_color)
    BY <1>1, <1>2, Colors DEF Colored
  <2>2. IsFiniteSet(Colored(marked_color)) /\ Cardinality(Colored(marked_color)) \in Nat
    BY <2>1, ColoredFinite
  <2>3. Cardinality(Colored(marked_color)') = Cardinality(Colored(marked_color)) + 1
    BY <2>1, <2>2, <1>6, FS_AddElement
  <2>4. black_scanned_count \in Nat /\ black_alloc_count \in Nat
    BY <1>1 DEF TypeOK
  <2>5. black_scanned_count + black_alloc_count = Cardinality(Colored(marked_color))
    BY <1>1 DEF Counts
  <2>6. black_scanned_count' + black_alloc_count' = Cardinality(Colored(marked_color)')
    BY <2>2, <2>3, <2>4, <2>5, <1>3
  <2>7. white_count' = Cardinality(Colored(unmarked_color)')
    BY <1>1, <1>3, <1>6 DEF Counts
  <2> QED
    BY <2>6, <2>7 DEF Counts
<1>18. Locking'
  BY <1>1, <1>3 DEF Locking, mutVars
<1> QED
  BY <1>7, <1>8, <1>11, <1>13, <1>14, <1>15, <1>16, <1>17, <1>18 DEF IInv, Lists
-----------------------------------------------------------------------------
(***************************************************************************)
(* More about chains.                                                      *)
(***************************************************************************)

(* The first member of the upper part T of a chain when a member leaves. *)
LEMMA FirstRemove ==
  ASSUME NEW S \in SUBSET Object, NEW T \in SUBSET S,
         NEW nx \in [Object -> Link], NEW pv \in [Object -> Link],
         NEW rk \in [Object -> Int], Chain(S, nx, pv, rk),
         \A a \in S \ T : \A b \in T : rk[a] < rk[b],
         NEW h, IsFirst(T, rk, h), NEW o \in T
  PROVE  IsFirst(T \ {o}, rk, IF o = h THEN nx[o] ELSE h)
<1>0. h \in T /\ \A q \in T : rk[h] <= rk[q]
  BY DEF IsFirst
<1>1. NULL \notin Object /\ \A q \in S : rk[q] \in Int
  BY NullFacts
<1>2. CASE o # h
  BY <1>0, <1>2 DEF IsFirst
<1>3. CASE o = h
  <2>1. nx[h] # NULL => nx[h] \in S /\ rk[h] < rk[nx[h]]
    BY <1>0 DEF Chain
  <2>2. nx[h] # NULL => nx[h] \in T \ {h}
    <3> SUFFICES ASSUME nx[h] # NULL
                 PROVE  nx[h] \in T \ {h}
      OBVIOUS
    <3>1. rk[nx[h]] \in Int /\ rk[h] \in Int
      BY <2>1, <1>0, <1>1
    <3>2. nx[h] \notin T => rk[nx[h]] < rk[h]
      BY <2>1, <1>0
    <3> QED
      BY <2>1, <3>1, <3>2
  <2>3. ASSUME NEW q \in T \ {h}
        PROVE  nx[h] # NULL /\ rk[nx[h]] <= rk[q]
    <3>1. rk[h] <= rk[q] /\ rk[h] # rk[q]
      BY <1>0 DEF Chain
    <3>2. rk[h] < rk[q]
      BY <3>1, <1>0, <1>1
    <3> QED
      BY <3>2, <1>0 DEF Chain
  <2> QED
    BY <1>3, <2>2, <2>3 DEF IsFirst
<1> QED
  BY <1>2, <1>3

(* The last member of a chain when a member leaves. *)
LEMMA LastRemove ==
  ASSUME NEW S \in SUBSET Object,
         NEW nx \in [Object -> Link], NEW pv \in [Object -> Link],
         NEW rk \in [Object -> Int], Chain(S, nx, pv, rk),
         NEW l, IsLast(S, rk, l), NEW o \in S
  PROVE  IsLast(S \ {o}, rk, IF o = l THEN pv[o] ELSE l) /\ (o = l => nx[o] = NULL)
<1>0. l \in S /\ \A q \in S : rk[q] <= rk[l]
  BY DEF IsLast
<1>1. NULL \notin Object /\ \A q \in S : rk[q] \in Int
  BY NullFacts
<1>2. CASE o # l
  BY <1>0, <1>2 DEF IsLast
<1>3. CASE o = l
  <2>1. pv[l] # NULL => pv[l] \in S /\ rk[pv[l]] < rk[l]
    BY <1>0 DEF Chain
  <2>2. nx[l] = NULL
    BY <1>0, <1>1 DEF Chain
  <2>3. ASSUME NEW q \in S \ {l}
        PROVE  pv[l] # NULL /\ rk[q] <= rk[pv[l]]
    <3>1. rk[q] <= rk[l] /\ rk[q] # rk[l]
      BY <1>0 DEF Chain
    <3>2. rk[q] < rk[l]
      BY <3>1, <1>0, <1>1
    <3> QED
      BY <3>2, <1>0 DEF Chain
  <2>4. pv[l] # NULL => pv[l] \in S \ {l}
    BY <2>1, <1>0, <1>1
  <2> QED
    BY <1>3, <2>2, <2>3, <2>4 DEF IsLast
<1> QED
  BY <1>2, <1>3

(* A new first member. *)
IsPush(V, S, o, h, nx, pv, nn, pp, rk, rr) ==
  /\ V = S \cup {o} /\ S \in SUBSET Object /\ o \in Object \ S
  /\ nx \in [Object -> Link] /\ pv \in [Object -> Link]
  /\ nn \in [Object -> Link] /\ pp \in [Object -> Link]
  /\ rk \in [Object -> Int] /\ rr \in [Object -> Int]
  /\ h \in S /\ IsFirst(S, rk, h)
  /\ nn[o] = h /\ pp[o] = NULL
  /\ \A q \in S : nn[q] = nx[q] /\ pp[q] = IF q = h THEN o ELSE pv[q]
  /\ rr[o] < rk[h] /\ \A q \in S : rr[q] = rk[q]

(* The new member has the smallest rank, and all are a chain. *)
LEMMA ChainPush ==
  ASSUME NEW V, NEW S, NEW o, NEW h, NEW nx, NEW pv, NEW nn, NEW pp, NEW rk, NEW rr,
         Chain(S, nx, pv, rk), IsPush(V, S, o, h, nx, pv, nn, pp, rk, rr)
  PROVE  /\ \A q \in S : rr[o] < rr[q]
         /\ Chain(V, nn, pp, rr)
<1> USE DEF IsPush
<1> DEFINE n1 == [nx EXCEPT ![o] = NULL]
           p1 == [pv EXCEPT ![o] = NULL]
<1>0. NULL \notin Object /\ rk[h] \in Int /\ \A q \in S : rk[h] <= rk[q] /\ rk[q] \in Int
  BY NullFacts DEF IsFirst
<1>1. rr[o] < rk[h] /\ rr[o] \in Int
  OBVIOUS
<1>2. /\ n1 \in [Object -> Link] /\ p1 \in [Object -> Link]
      /\ n1[o] = NULL /\ p1[o] = NULL
      /\ \A q \in S : n1[q] = nx[q] /\ p1[q] = pv[q]
  BY DEF Link
<1> HIDE DEF n1, p1
<1>3. \A q \in S : rr[o] < rr[q]
  <2> TAKE q \in S
  <2>1. rr[q] = rk[q] /\ rk[h] <= rk[q] /\ rk[q] \in Int
    BY <1>0, <1>1
  <2> QED
    BY <2>1, <1>0, <1>1
<1>4. Chain(S, n1, p1, rr)
  <2>1. \A q \in S : n1[q] = nx[q] /\ p1[q] = pv[q] /\ rr[q] = rk[q]
    BY <1>2
  <2>2. rr \in [Object -> Int] /\ n1 \in [Object -> Link] /\ p1 \in [Object -> Link]
    BY <1>2
  <2> QED
    BY <2>1, <2>2, ChainSame
<1>5. PICK T : T = {o}
  OBVIOUS
<1>6. Chain(T, n1, p1, rr)
  BY <1>1, <1>2, <1>5 DEF Chain
<1>7. IsLast(T, rr, o) /\ IsFirst(S, rr, h)
  <2>1. \A q \in S : rr[h] <= rr[q]
    BY <1>0, <1>1
  <2> QED
    BY <2>1, <1>1, <1>5 DEF IsLast, IsFirst
<1>8. /\ T \in SUBSET Object
      /\ \A a \in T, q \in S : rr[a] < rr[q]
      /\ \A a \in T : nn[a] = IF a = o THEN h ELSE n1[a]
      /\ \A a \in T : pp[a] = p1[a]
      /\ \A q \in S : nn[q] = n1[q]
      /\ \A q \in S : pp[q] = IF q = h THEN o ELSE p1[q]
  BY <1>2, <1>3, <1>5
<1>9. Chain(V, nn, pp, rr)
  <2>1. IsJoin(V, T, S, o, h, n1, p1, nn, pp, rr)
    BY <1>1, <1>2, <1>5, <1>7, <1>8 DEF IsJoin
  <2> QED
    BY <2>1, <1>4, <1>6, ChainJoin
<1> QED
  BY <1>3, <1>9

(* A chain has a last member, the one without a successor. *)
LEMMA ChainLast ==
  ASSUME NEW S \in SUBSET Object,
         NEW nx \in [Object -> Link], NEW pv \in [Object -> Link],
         NEW rk \in [Object -> Int], Chain(S, nx, pv, rk), NEW h \in S
  PROVE  /\ \E o \in S : nx[o] = NULL
         /\ \A o \in S : nx[o] = NULL => IsLast(S, rk, o)
<1> DEFINE w == WalkFrom(nx, h)
<1>0. Count \in Nat /\ NULL \notin Object /\ h \in Link /\ \A q \in S : rk[q] \in Int
  BY ObjectsFinite, NullFacts DEF Link
<1>1. /\ w[0] = h
      /\ \A n \in 1..Count : w[n] = IF w[n - 1] = NULL THEN NULL ELSE nx[w[n - 1]]
  BY <1>0, WalkSteps
<1>2. /\ {w[n] : n \in 0..Count} \ {NULL} = {q \in S : rk[h] <= rk[q]}
      /\ w[Count] = NULL
  BY ChainWalk
<1> HIDE DEF w
<1> DEFINE End == {n \in 0..Count : w[n] = NULL}
<1>3. End \subseteq Nat /\ End # {}
  BY <1>0, <1>2
<1>4. PICK n \in End : \A k \in End : n <= k
  <2> HIDE DEF End
  <2> QED
    BY <1>3, LeastNumber
<1>5. n \in 1..Count /\ n - 1 \in 0..Count /\ n - 1 < n
  BY <1>0, <1>1, <1>4
<1>6. w[n - 1] # NULL /\ w[n] = NULL
  BY <1>0, <1>4, <1>5
<1>7. w[n - 1] \in S /\ nx[w[n - 1]] = NULL
  BY <1>1, <1>2, <1>5, <1>6
<1>8. ASSUME NEW o \in S, nx[o] = NULL
      PROVE  IsLast(S, rk, o)
  BY <1>0, <1>8 DEF IsLast, Chain
<1> QED
  BY <1>7, <1>8
-----------------------------------------------------------------------------
(***************************************************************************)
(* flip cuts the list in front of free.                                    *)
(***************************************************************************)

(* Without gray objects black is the first of the main list. *)
LEMMA BlackFirst ==
  ASSUME TypeOK, Greying, NEW rk \in [Object -> Int], Lists(rk), gcpc # "paint", Colored(GRAY) = {}
  PROVE  IsFirst(Main, rk, black)
<1>1. \A o \in Main : ~GRAYP(o) /\ o # target /\ rk[o] \in Int
  <2> TAKE o \in Main
  <2>1. o \in Group /\ ~WHITEP(o) /\ o \in Object
    BY DEF Main, Group
  <2>2. o # target
    BY <2>1, NullFacts DEF Greying
  <2> QED
    BY <2>1, <2>2 DEF Colored, GRAYP
<1>2. Main # {} => black \in Main
  BY DEF Lists, Boundary
<1>3. \A o \in Main : ~(rk[o] < rk[black])
  BY <1>1 DEF Lists, Boundary
<1>4. \A o \in Main : rk[black] <= rk[o]
  BY <1>1, <1>2, <1>3
<1>5. Main = {} => black = NULL
  BY DEF Lists, Boundary
<1> QED
  BY <1>2, <1>4, <1>5 DEF IsFirst

(* flip makes the black part the white list and the green part the main one. *)
LEMMA FlipStep ==
  ASSUME IInv, flip
  PROVE  IInv'
<1>0. PICK rk \in [Object -> Int] : Lists(rk) /\ Scanning(rk)
  BY DEF IInv
<1>1. /\ TypeOK /\ Greying /\ Tracing /\ Coalescing /\ Counts /\ Locking
      /\ gcpc = "flip" /\ Linked /\ target = NULL
  BY DEF IInv, flip, Greying, Linked
<1> DEFINE Marked == Colored(marked_color)
<1>2. /\ Main \subseteq Object /\ Group \subseteq Object /\ Green \subseteq Main /\ Main \subseteq Group
      /\ NULL \notin Object /\ \A o \in Main : rk[o] \in Int
      /\ next \in [Object -> Link] /\ prev \in [Object -> Link]
      /\ Colored(GRAY) = {} /\ Colored(unmarked_color) = {}
      /\ \A o \in Group : color[o] \in 0..3
  BY <1>1, Sets, NullFacts DEF Tracing
<1>3. /\ Main = Group /\ Main = Marked \cup Green /\ Main \ Green = Marked /\ Marked \cap Green = {}
  BY <1>1, <1>2, Colors, Sets DEF Colored, Green, WHITEP
<1>4. /\ UNCHANGED <<color, free, free_lock, table, mutVars, current, target, return,
                     mark_count, pages_left, page>>
      /\ next' = SetLink(next, IF free # NULL THEN prev[free] ELSE last, NULL)
      /\ prev' = SetLink(prev, free, NULL)
      /\ last' = (IF free # NULL THEN last ELSE NULL)
      /\ white' = (IF black = free THEN NULL ELSE black)
      /\ black' = free /\ gray' = NULL
      /\ white_count' = black_scanned_count + black_alloc_count
      /\ black_scanned_count' = 0 /\ black_alloc_count' = 0
      /\ marked_color' = unmarked_color /\ unmarked_color' = marked_color
      /\ gcpc' = "roots" /\ Group' = Group
  BY DEF flip, Group
<1>5. /\ Colored(unmarked_color)' = Marked /\ Colored(marked_color)' = {}
      /\ Green' = Green /\ White' = Marked /\ Main' = Green /\ Colored(GRAY)' = {}
  <2>1. Colored(unmarked_color)' = Marked
    BY <1>4 DEF Colored
  <2>2. Colored(marked_color)' = Colored(unmarked_color)
    BY <1>4 DEF Colored
  <2>3. Green' = Green /\ Colored(GRAY)' = Colored(GRAY)
    BY <1>4 DEF Colored, Green
  <2>4. NULL \notin Marked
    BY <1>2 DEF Colored
  <2>5. White' = Marked
    BY <2>1, <2>4, <1>1, <1>4 DEF White
  <2>6. Main' = {o \in Group : color[o] # marked_color}
    BY <1>4 DEF Main, WHITEP
  <2>7. Main' = Green
    BY <2>6, <1>3 DEF Colored
  <2> QED
    BY <2>1, <2>2, <2>3, <2>5, <2>7, <1>2
<1>6. /\ Chain(Main, next, prev, rk) /\ IsLast(Main, rk, last) /\ IsFirst(Green, rk, free)
      /\ IsFirst(Main, rk, black)
      /\ \A o \in Marked, q \in Green : rk[o] < rk[q]
  <2>1. IsFirst(Main, rk, black)
    BY <1>0, <1>1, <1>2, BlackFirst
  <2> QED
    BY <2>1, <1>0, <1>3 DEF Lists, Chains, Ends
<1>7. {free, last, black, gray, white, current, target} \subseteq Link
  BY <1>1, Sets
<1>8. /\ next' \in [Object -> Link] /\ prev' \in [Object -> Link]
      /\ \A o \in Marked : next'[o] = IF next[o] \in Green THEN NULL ELSE next[o]
      /\ \A o \in Marked : prev'[o] = prev[o]
      /\ \A q \in Green : next'[q] = next[q]
      /\ \A q \in Green : prev'[q] = IF prev[q] \in Marked THEN NULL ELSE prev[q]
  <2>1. CASE free = NULL
    <3>1. Green = {}
      BY <2>1, <1>2, <1>6 DEF IsFirst
    <3>2. last # NULL => last \in Object /\ next[last] = NULL
      BY <1>2, <1>6 DEF IsLast, Chain
    <3>3. next' = SetLink(next, last, NULL) /\ prev' = prev
      BY <2>1, <1>4 DEF SetLink
    <3>4. next' = next
      BY <3>2, <3>3, <1>2 DEF SetLink
    <3> QED
      BY <3>1, <3>3, <3>4, <1>2
  <2>2. CASE free # NULL
    <3>1. free \in Green /\ free \in Main /\ free \in Object /\ \A q \in Green : rk[free] <= rk[q]
      BY <2>2, <1>2, <1>6 DEF IsFirst
    <3> DEFINE l == prev[free]
    <3>2. l # NULL => l \in Main /\ next[l] = free /\ rk[l] < rk[free]
      BY <3>1, <1>6 DEF Chain
    <3>3. l # NULL => l \in Marked /\ l \notin Green
      BY <3>1, <3>2, <1>2, <1>3
    <3>4. next' = SetLink(next, l, NULL) /\ prev' = [prev EXCEPT ![free] = NULL]
      BY <2>2, <1>4 DEF SetLink
    <3>5. /\ next' \in [Object -> Link] /\ prev' \in [Object -> Link]
          /\ \A o \in Object : next'[o] = IF o = l THEN NULL ELSE next[o]
          /\ \A o \in Object : prev'[o] = IF o = free THEN NULL ELSE prev[o]
      <4>1. CASE l = NULL
        BY <4>1, <3>1, <3>4, <1>2 DEF SetLink, Link
      <4>2. CASE l # NULL
        <5>1. l \in Object /\ next' = [next EXCEPT ![l] = NULL]
          BY <4>2, <3>2, <3>4, <1>2 DEF SetLink
        <5> HIDE DEF l
        <5> QED
          BY <5>1, <3>1, <3>4, <1>2 DEF Link
      <4> QED
        BY <4>1, <4>2
    <3>6. ASSUME NEW o \in Marked
          PROVE  /\ next'[o] = (IF next[o] \in Green THEN NULL ELSE next[o])
                 /\ prev'[o] = prev[o]
      <4>1. o \in Main /\ o \in Object /\ o # free /\ rk[o] < rk[free]
        BY <3>1, <1>2, <1>3, <1>6
      <4>2. rk[next[o]] <= rk[free] /\ next[o] \in Main
        BY <4>1, <3>1, <1>6 DEF Chain
      <4>3. next[o] \in Green => next[o] = free
        <5> SUFFICES ASSUME next[o] \in Green
                     PROVE  next[o] = free
          OBVIOUS
        <5>1. rk[free] <= rk[next[o]]
          BY <3>1
        <5>2. rk[free] = rk[next[o]]
          BY <5>1, <4>2, <3>1, <1>2
        <5> QED
          BY <5>2, <4>2, <3>1, <1>6 DEF Chain
      <4>4. next[o] = free <=> o = l
        <5>1. next[o] = free => prev[free] = o
          BY <4>1, <1>2, <3>1, <1>6 DEF Chain
        <5>2. o = l => next[o] = free
          BY <3>2, <4>1, <1>2
        <5> QED
          BY <5>1, <5>2
      <4> QED
        BY <3>1, <3>5, <4>1, <4>3, <4>4
    <3>7. ASSUME NEW q \in Green
          PROVE  /\ next'[q] = next[q]
                 /\ prev'[q] = (IF prev[q] \in Marked THEN NULL ELSE prev[q])
      <4>1. q \in Object /\ q \in Main /\ q # l
        BY <3>3, <1>2
      <4>2. CASE q = free
        <5>1. prev[q] = NULL \/ prev[q] \in Marked
          BY <4>2, <3>3
        <5> QED
          BY <5>1, <4>1, <4>2, <3>5
      <4>3. CASE q # free
        <5>1. rk[free] < rk[q]
          BY <4>1, <4>3, <3>1, <1>2, <1>6 DEF Chain
        <5>2. rk[free] <= rk[prev[q]] /\ prev[q] \in Main
          BY <5>1, <4>1, <3>1, <1>6 DEF Chain
        <5>3. prev[q] \notin Marked
          BY <5>2, <3>1, <1>2, <1>6
        <5> QED
          BY <5>3, <4>1, <4>3, <3>5
      <4> QED
        BY <4>1, <4>2, <4>3, <3>5
    <3> QED
      BY <3>5, <3>6, <3>7
  <2> QED
    BY <2>1, <2>2
<1>9. Chain(Marked, next', prev', rk) /\ Chain(Green, next', prev', rk)
  <2>1. PICK U, S, T, nn, pp : U = Main /\ S = Marked /\ T = Green /\ nn = next' /\ pp = prev'
    OBVIOUS
  <2>2. IsCut(U, S, T, next, prev, nn, pp, rk)
    BY <2>1, <1>2, <1>3, <1>6, <1>8 DEF IsCut
  <2>3. Chain(U, next, prev, rk)
    BY <2>1, <1>6
  <2>4. Chain(S, nn, pp, rk) /\ Chain(T, nn, pp, rk)
    BY <2>2, <2>3, ChainCut
  <2> QED
    BY <2>1, <2>4
<1>10. Chains(rk)'
  BY <1>5, <1>9 DEF Chains
<1>11. Ends(rk)'
  <2>1. IsFirst(Marked, rk, white')
    <3>1. CASE Marked = {}
      <4>1. Main = Green
        BY <3>1, <1>3
      <4>2. black = free
        BY <4>1, <1>2, <1>6 DEF IsFirst, Chain
      <4> QED
        BY <3>1, <4>2, <1>4 DEF IsFirst
    <3>2. CASE Marked # {}
      <4>1. PICK o \in Marked : TRUE
        BY <3>2
      <4>2. /\ o \in Main /\ black \in Main /\ rk[black] <= rk[o]
            /\ \A q \in Main : rk[black] <= rk[q]
        BY <4>1, <1>3, <1>6 DEF IsFirst
      <4>3. black \notin Green
        BY <4>2, <1>2, <1>6
      <4>4. black # free
        BY <4>2, <4>3, <1>2, <1>6 DEF IsFirst
      <4> QED
        BY <3>2, <4>2, <4>3, <4>4, <1>3, <1>4 DEF IsFirst
    <3> QED
      BY <3>1, <3>2
  <2>2. IsLast(Green, rk, last')
    <3>1. CASE Green = {}
      <4>1. free = NULL
        BY <3>1, <1>6 DEF IsFirst
      <4> QED
        BY <3>1, <4>1, <1>4 DEF IsLast
    <3>2. CASE Green # {}
      <4>1. free \in Green /\ free # NULL
        BY <3>2, <1>2, <1>6 DEF IsFirst
      <4>2. last \in Main /\ \A q \in Main : rk[q] <= rk[last]
        BY <4>1, <1>2, <1>6 DEF IsLast
      <4>3. last \notin Marked
        BY <4>1, <4>2, <1>2, <1>6
      <4> QED
        BY <3>2, <4>1, <4>2, <4>3, <1>2, <1>3, <1>4 DEF IsLast
    <3> QED
      BY <3>1, <3>2
  <2>3. IsFirst(Green, rk, free')
    BY <1>4, <1>6
  <2> QED
    BY <2>1, <2>2, <2>3, <1>5 DEF Ends
<1>12. Boundary(rk)'
  <2>1. /\ Green = {} => free = NULL
        /\ Green # {} => free \in Green
        /\ \A o \in Green : ~(rk[o] < rk[free])
    BY <1>2, <1>6 DEF IsFirst
  <2>2. \A o \in Main' : ~GRAYP(o)' /\ o # target'
    BY <1>1, <1>2, <1>4, <1>5, Colors DEF GRAYP, Green, Colored
  <2> QED
    BY <2>1, <2>2, <1>4, <1>5 DEF Boundary
<1>13. Scanning(rk)' /\ Greying' /\ Coalescing'
  BY <1>1, <1>4 DEF Scanning, Greying, Coalescing, Linked
<1>14. TypeOK'
  <2>1. {free, last, black, gray, white, current, target}' \subseteq Object \cup {NULL}
    BY <1>4, <1>7 DEF Link
  <2>2. {white_count, black_scanned_count, black_alloc_count}' \subseteq Nat
    BY <1>1, <1>4 DEF TypeOK
  <2>3. {marked_color, unmarked_color}' = {GENERATION0, GENERATION1}
    BY <1>1, <1>4 DEF TypeOK
  <2> QED
    BY <2>1, <2>2, <2>3, <1>1, <1>4, <1>8 DEF TypeOK, mutVars, Link
<1>15. Tracing'
  BY <1>4 DEF Tracing
<1>16. Counts'
  BY <1>1, <1>4, <1>5, FS_EmptySet DEF Counts
<1>17. Locking'
  BY <1>1, <1>4 DEF Locking, mutVars
<1> QED
  BY <1>10, <1>11, <1>12, <1>13, <1>14, <1>15, <1>16, <1>17 DEF IInv, Lists
-----------------------------------------------------------------------------
(***************************************************************************)
(* RTmake_object_gray.                                                     *)
(***************************************************************************)

(* Both branches unlink the object from the white list. *)
LEMMA UnlinkWhite ==
  ASSUME IInv, NEW rk \in [Object -> Int], Lists(rk), NEW o \in Object,
         gcpc \in {"roots", "scan", "vector"}, table[o[1]] = "GROUP", WHITEP(o)
  PROVE  /\ Linked /\ target = NULL /\ o \in Group /\ o \in White /\ o \notin Main
         /\ White = Colored(unmarked_color) /\ Main = {q \in Group : ~WHITEP(q)}
         /\ \E nn \in [Object -> Link], pp \in [Object -> Link] :
              /\ nn = SetLink(next, prev[o], next[o]) /\ pp = SetLink(prev, next[o], prev[o])
              /\ Chain(White \ {o}, nn, pp, rk)
              /\ \A q \in Object \ (White \ {o}) : nn[q] = next[q] /\ pp[q] = prev[q]
         /\ IsFirst(White \ {o}, rk, IF o = white THEN next[o] ELSE white)
<1>1. /\ TypeOK /\ Greying /\ Linked /\ target = NULL /\ o \in Group
  BY DEF IInv, Linked, Greying, Group
<1>2. /\ White = Colored(unmarked_color) /\ Main = {q \in Group : ~WHITEP(q)}
      /\ White \in SUBSET Object /\ next \in [Object -> Link] /\ prev \in [Object -> Link]
  BY <1>1, Sets
<1>3. o \in White /\ o \notin Main
  BY <1>1, <1>2 DEF Colored, WHITEP
<1>4. Chain(White, next, prev, rk) /\ IsFirst(White, rk, white)
  BY DEF Lists, Chains, Ends
<1>5. PICK nn, pp : nn = SetLink(next, prev[o], next[o]) /\ pp = SetLink(prev, next[o], prev[o])
  OBVIOUS
<1>5a. /\ nn \in [Object -> Link] /\ pp \in [Object -> Link]
       /\ Chain(White \ {o}, nn, pp, rk)
       /\ \A q \in Object \ (White \ {o}) : nn[q] = next[q] /\ pp[q] = prev[q]
  <2>0. PICK S, R : S = White /\ R = White \ {o}
    OBVIOUS
  <2>1. IsUnlink(S, R, o, next, prev, nn, pp, rk)
    BY <2>0, <1>2, <1>3, <1>5 DEF IsUnlink
  <2>2. Chain(S, next, prev, rk)
    BY <2>0, <1>4
  <2>3. nn \in [Object -> Link] /\ pp \in [Object -> Link]
    BY <2>1, <2>2, ChainRemove
  <2>4. Chain(R, nn, pp, rk)
    BY <2>1, <2>2, ChainRemove
  <2>5. \A q \in Object \ R : nn[q] = next[q] /\ pp[q] = prev[q]
    BY <2>1, <2>2, ChainRemove
  <2> QED
    BY <2>0, <2>3, <2>4, <2>5
<1>6. IsFirst(White \ {o}, rk, IF o = white THEN next[o] ELSE white)
  <2>1. PICK S : S = White
    OBVIOUS
  <2>2. S \in SUBSET S /\ \A a \in S \ S : \A b \in S : rk[a] < rk[b]
    OBVIOUS
  <2>3. S \in SUBSET Object /\ Chain(S, next, prev, rk) /\ IsFirst(S, rk, white) /\ o \in S
    BY <2>1, <1>2, <1>3, <1>4
  <2>4. IsFirst(S \ {o}, rk, IF o = white THEN next[o] ELSE white)
    BY <2>2, <2>3, <1>2, FirstRemove
  <2> QED
    BY <2>1, <2>4
<1> QED
  BY <1>1, <1>2, <1>3, <1>5, <1>5a, <1>6

(* The first gray object leaves the white list. *)
LEMMA MakeGrayFirstStep ==
  ASSUME IInv, NEW o \in Object, MakeGrayFirst(o)
  PROVE  IInv'
<1>0. PICK rk \in [Object -> Int] : Lists(rk) /\ Scanning(rk)
  BY DEF IInv
<1>1. /\ gcpc \in {"roots", "scan", "vector"} /\ table[o[1]] = "GROUP" /\ WHITEP(o) /\ gray = NULL
      /\ UNCHANGED <<color, free, last, black, gray, countVars, colorVars, free_lock,
                     table, mutVars, current, pages_left, page>>
      /\ white' = IF o = white THEN next[o] ELSE white
      /\ target' = o /\ return' = gcpc /\ gcpc' = "link"
      /\ mark_count' = IF gcpc = "vector" THEN 1 ELSE mark_count
      /\ Group' = Group
  BY DEF MakeGrayFirst, Group
<1>2. /\ Linked /\ target = NULL /\ o \in Group /\ o \in White /\ o \notin Main
      /\ White = Colored(unmarked_color) /\ Main = {q \in Group : ~WHITEP(q)}
      /\ IsFirst(White \ {o}, rk, white')
  BY <1>0, <1>1, UnlinkWhite
<1>3. PICK nn \in [Object -> Link], pp \in [Object -> Link] :
        /\ nn = SetLink(next, prev[o], next[o]) /\ pp = SetLink(prev, next[o], prev[o])
        /\ Chain(White \ {o}, nn, pp, rk)
        /\ \A q \in Object \ (White \ {o}) : nn[q] = next[q] /\ pp[q] = prev[q]
  BY <1>0, <1>1, UnlinkWhite
<1>4. /\ nn \in [Object -> Link] /\ pp \in [Object -> Link]
      /\ Chain(White \ {o}, nn, pp, rk)
      /\ \A q \in Object \ (White \ {o}) : nn[q] = next[q] /\ pp[q] = prev[q]
  BY <1>3
<1>5. next' = nn /\ prev' = [pp EXCEPT ![o] = NULL]
  BY <1>3 DEF MakeGrayFirst
<1>6. /\ next' \in [Object -> Link] /\ prev' \in [Object -> Link] /\ prev'[o] = NULL
      /\ \A q \in Object : q # o => prev'[q] = pp[q]
  BY <1>4, <1>5 DEF Link
<1>7. /\ TypeOK /\ Greying /\ Tracing /\ Coalescing /\ Counts /\ Locking
      /\ Main \subseteq Object /\ White \subseteq Object /\ White \cap Main = {}
      /\ NULL \notin Object /\ Green \subseteq Main /\ o # NULL
  BY Sets, NullFacts DEF IInv
<1>8. /\ Colored(GRAY)' = Colored(GRAY) /\ Green' = Green
      /\ Colored(unmarked_color)' = Colored(unmarked_color)
      /\ Colored(marked_color)' = Colored(marked_color)
      /\ White' = White \ {o} /\ Main' = Main
      /\ \A q : GRAYP(q)' <=> GRAYP(q)
  BY <1>1, <1>2 DEF Colored, Green, White, Main, WHITEP, GRAYP, colorVars
<1>9. Colored(GRAY) = {} /\ gcpc # "scan"
  BY <1>0, <1>1, <1>7 DEF Lists, Boundary, Tracing
<1>10. Chains(rk)'
  <2>1. Chain(White \ {o}, next', prev', rk)
    BY <1>4, <1>5, <1>6, <1>7 DEF Chain
  <2>2. \A q \in Main : next'[q] = next[q] /\ prev'[q] = prev[q]
    BY <1>2, <1>4, <1>5, <1>6, <1>7
  <2>3. Chain(Main, next', prev', rk)
    BY <2>2, <1>0 DEF Chain, Lists, Chains
  <2> QED
    BY <2>1, <2>3, <1>8 DEF Chains
<1>11. Ends(rk)'
  BY <1>0, <1>1, <1>2, <1>8 DEF Lists, Ends, IsLast, IsFirst
<1>12. Boundary(rk)'
  <2>1. \A q \in Main : q # target /\ q # target'
    BY <1>1, <1>2, <1>7
  <2> QED
    BY <2>1, <1>0, <1>1, <1>8 DEF Lists, Boundary
<1>13. Scanning(rk)' /\ Coalescing' /\ Tracing'
  BY <1>1 DEF Scanning, Coalescing, Tracing
<1>14. Greying'
  <2>1. WHITEP(o)' /\ o \in Group'
    BY <1>1, <1>2 DEF WHITEP, colorVars
  <2>2. mark_count' = IF gcpc = "vector" THEN 1 ELSE mark_count
    BY <1>1
  <2> QED
    BY <2>1, <2>2, <1>1, <1>6, <1>9 DEF Greying, Linked, WHITEP, colorVars
<1>15. TypeOK'
  <2>1. white' \in Object \cup {NULL}
    BY <1>2, <1>7 DEF IsFirst
  <2>2. {free, last, black, gray, white, current, target}' \subseteq Object \cup {NULL}
    BY <2>1, <1>1, <1>7 DEF TypeOK
  <2>3. mark_count' \in {0, 1}
    BY <1>1, <1>7 DEF TypeOK
  <2> QED
    BY <2>2, <2>3, <1>1, <1>5, <1>4, <1>6, <1>7 DEF TypeOK, countVars, colorVars, mutVars, Link
<1>16. Counts'
  BY <1>1, <1>7, <1>8 DEF Counts, countVars
<1>17. Locking'
  BY <1>1, <1>7 DEF Locking, mutVars
<1> QED
  BY <1>10, <1>11, <1>12, <1>13, <1>14, <1>15, <1>16, <1>17 DEF IInv, Lists

(* An object moves from the white list to the front of the main list. *)
LEMMA MakeGrayFrontStep ==
  ASSUME IInv, NEW o \in Object, MakeGrayFront(o)
  PROVE  IInv'
<1>0. PICK rk \in [Object -> Int] : Lists(rk) /\ Scanning(rk)
  BY DEF IInv
<1>1. /\ gcpc \in {"roots", "scan", "vector"} /\ table[o[1]] = "GROUP" /\ WHITEP(o) /\ gray # NULL
      /\ UNCHANGED <<free, last, black, black_scanned_count, black_alloc_count, colorVars,
                     free_lock, table, mutVars, gcpc, current, target, return, pages_left, page>>
      /\ white' = IF o = white THEN next[o] ELSE white
      /\ color' = [color EXCEPT ![o] = GRAY]
      /\ gray' = o /\ white_count' = white_count - 1
      /\ mark_count' = IF gcpc = "vector" THEN 1 ELSE mark_count
      /\ Group' = Group
  BY DEF MakeGrayFront, Group
<1>2. /\ Linked /\ target = NULL /\ o \in Group /\ o \in White /\ o \notin Main
      /\ White = Colored(unmarked_color) /\ Main = {q \in Group : ~WHITEP(q)}
      /\ IsFirst(White \ {o}, rk, white')
  BY <1>0, <1>1, UnlinkWhite
<1>3. PICK nn \in [Object -> Link], pp \in [Object -> Link] :
        /\ nn = SetLink(next, prev[o], next[o]) /\ pp = SetLink(prev, next[o], prev[o])
        /\ Chain(White \ {o}, nn, pp, rk)
        /\ \A q \in Object \ (White \ {o}) : nn[q] = next[q] /\ pp[q] = prev[q]
  BY <1>0, <1>1, UnlinkWhite
<1>4. /\ TypeOK /\ Greying /\ Tracing /\ Coalescing /\ Counts /\ Locking
      /\ Main \subseteq Object /\ White \subseteq Object /\ White \cap Main = {} /\ Main \subseteq Group
      /\ NULL \notin Object /\ Green \subseteq Main /\ o # NULL /\ Group \subseteq Object
      /\ next \in [Object -> Link] /\ prev \in [Object -> Link] /\ Colored(GRAY) \subseteq Main
      /\ \A q \in Object : rk[q] \in Int
  BY Sets, NullFacts DEF IInv
<1>5. /\ gray \in Main /\ gray \in Object /\ gray # o /\ IsFirst(Main, rk, gray)
      /\ \A q \in Main : rk[gray] <= rk[q]
      /\ black \in Main
  <2>1. gray \in Main /\ IsFirst(Main, rk, gray) /\ black \in Main
    BY <1>0, <1>1, <1>4 DEF Lists, Boundary, IsFirst
  <2> QED
    BY <2>1, <1>2, <1>4 DEF IsFirst
<1>6. next' = [nn EXCEPT ![o] = gray] /\ prev' = [pp EXCEPT ![o] = NULL, ![gray] = o]
  BY <1>3 DEF MakeGrayFront
<1>7. /\ next' \in [Object -> Link] /\ prev' \in [Object -> Link]
      /\ next'[o] = gray /\ prev'[o] = NULL /\ prev'[gray] = o
      /\ \A q \in Object : q # o => next'[q] = nn[q]
      /\ \A q \in Object : q # o /\ q # gray => prev'[q] = pp[q]
  BY <1>3, <1>5, <1>6 DEF Link
<1>8. PICK rr \in [Object -> Int] : rr[o] = rk[gray] - 1 /\ \A q \in Object : q # o => rr[q] = rk[q]
  <2> DEFINE r == [rk EXCEPT ![o] = rk[gray] - 1]
  <2>1. r \in [Object -> Int] /\ r[o] = rk[gray] - 1 /\ \A q \in Object : q # o => r[q] = rk[q]
    BY <1>4, <1>5
  <2> HIDE DEF r
  <2> QED
    BY <2>1
<1>9. color \in [Object -> 0..3] /\ GRAY \in 0..3
  BY <1>4 DEF TypeOK, GRAY
<1>10. color'[o] = GRAY /\ \A q \in Object : q # o => color'[q] = color[q]
  BY <1>1, <1>9
<1>11. /\ Colored(GRAY)' = Colored(GRAY) \cup {o} /\ Green' = Green
       /\ Colored(unmarked_color)' = Colored(unmarked_color) \ {o}
       /\ Colored(marked_color)' = Colored(marked_color)
       /\ White' = White \ {o} /\ Main' = Main \cup {o}
       /\ \A q \in Main : GRAYP(q)' <=> GRAYP(q)
  <2>1. /\ marked_color # unmarked_color /\ marked_color # GRAY /\ marked_color # GREEN
        /\ unmarked_color # GRAY /\ GRAY # GREEN /\ unmarked_color # GREEN
    BY <1>4, Colors
  <2>2. UNCHANGED <<marked_color, unmarked_color, target, gcpc>> /\ gcpc # "paint" /\ color[o] = unmarked_color
    BY <1>1 DEF colorVars, WHITEP
  <2>3. /\ Colored(GRAY)' = Colored(GRAY) \cup {o} /\ Green' = Green
        /\ Colored(unmarked_color)' = Colored(unmarked_color) \ {o}
        /\ Colored(marked_color)' = Colored(marked_color)
    BY <1>1, <1>2, <1>4, <1>10, <2>1, <2>2 DEF Colored, Green
  <2>4. White' = White \ {o}
    BY <2>2, <2>3, <1>2, <1>4 DEF White
  <2>5. Main' = {q \in Group : color'[q] # unmarked_color}
    BY <1>1, <2>2 DEF Main, WHITEP
  <2>6. Main' = Main \cup {o}
    BY <2>1, <2>2, <2>5, <1>2, <1>4, <1>10 DEF WHITEP
  <2>7. \A q \in Main : GRAYP(q)' <=> GRAYP(q)
    BY <1>2, <1>4, <1>10 DEF GRAYP
  <2> QED
    BY <2>3, <2>4, <2>6, <2>7
<1>12. Chains(rr)'
  <2>1. \A q \in White \ {o} : next'[q] = nn[q] /\ prev'[q] = pp[q] /\ rr[q] = rk[q]
    BY <1>4, <1>5, <1>7, <1>8
  <2>2. Chain(White \ {o}, next', prev', rr)
    BY <2>1, <1>3 DEF Chain
  <2>3. PICK V, S, n1, p1 : V = Main' /\ S = Main /\ n1 = next' /\ p1 = prev'
    OBVIOUS
  <2>4. rr[o] < rk[gray]
    BY <1>4, <1>5, <1>8
  <2>5. \A q \in Main : next'[q] = next[q] /\ prev'[q] = IF q = gray THEN o ELSE prev[q]
    BY <1>2, <1>3, <1>4, <1>7
  <2>6. IsPush(V, S, o, gray, next, prev, n1, p1, rk, rr)
    BY <2>3, <2>4, <2>5, <1>2, <1>4, <1>5, <1>7, <1>8, <1>11 DEF IsPush
  <2>7. Chain(S, next, prev, rk)
    BY <2>3, <1>0 DEF Lists, Chains
  <2>8. Chain(V, n1, p1, rr)
    BY <2>6, <2>7, ChainPush
  <2> QED
    BY <2>2, <2>3, <2>8, <1>11 DEF Chains
<1>13. /\ \A q \in Main : rr[q] = rk[q] /\ rr[o] < rr[q] /\ rr[q] \in Int
       /\ \A q \in White \ {o} : rr[q] = rk[q]
       /\ rr[o] \in Int
  <2>1. \A q \in Main : rr[q] = rk[q]
    BY <1>2, <1>4, <1>8
  <2>2. ASSUME NEW q \in Main
        PROVE  rr[o] < rr[q]
    <3>1. rk[gray] <= rk[q] /\ rk[gray] \in Int /\ rk[q] \in Int /\ rr[o] = rk[gray] - 1
      BY <1>4, <1>5, <1>8
    <3> QED
      BY <3>1, <2>1
  <2>3. \A q \in White \ {o} : rr[q] = rk[q]
    BY <1>4, <1>8
  <2> QED
    BY <2>1, <2>2, <2>3, <1>4
<1>14. Ends(rr)'
  <2>1. IsFirst(White', rr, white')
    BY <1>2, <1>11, <1>13 DEF IsFirst
  <2>2. IsLast(Main', rr, last')
    <3>1. last \in Main /\ \A q \in Main : rk[q] <= rk[last]
      BY <1>0, <1>5 DEF Lists, Ends, IsLast
    <3> QED
      BY <3>1, <1>1, <1>11, <1>13 DEF IsLast
  <2>3. IsFirst(Green', rr, free')
    <3>1. IsFirst(Green, rk, free)
      BY <1>0 DEF Lists, Ends
    <3> QED
      BY <3>1, <1>1, <1>4, <1>11, <1>13 DEF IsFirst
  <2>4. \A a \in Main' \ Green' : \A b \in Green' : rr[a] < rr[b]
    <3> SUFFICES ASSUME NEW a \in Main', a \notin Green, NEW b \in Green
                 PROVE  rr[a] < rr[b]
      BY <1>11
    <3>1. b \in Main
      BY <1>4
    <3>2. CASE a = o
      BY <3>1, <3>2, <1>13
    <3>3. CASE a \in Main
      BY <3>1, <3>3, <1>0, <1>13 DEF Lists, Ends
    <3> QED
      BY <3>2, <3>3, <1>11
  <2> QED
    BY <2>1, <2>2, <2>3, <2>4 DEF Ends
<1>15. Boundary(rr)'
  <2>1. GRAYP(o)' /\ ~GREENP(o)'
    BY <1>10 DEF GRAYP, GREENP, GRAY, GREEN
  <2>2. ASSUME NEW q \in Main'
        PROVE  /\ rr[q] < rr[black'] => GRAYP(q)' \/ q = target'
               /\ rr[q] > rr[black'] => ~GRAYP(q)' /\ q # target'
    <3>1. CASE q = o
      BY <2>1, <3>1, <1>1, <1>5, <1>13
    <3>2. CASE q \in Main
      <4>1. /\ rk[q] < rk[black] => GRAYP(q) \/ q = target
            /\ rk[q] > rk[black] => ~GRAYP(q) /\ q # target
        BY <3>2, <1>0 DEF Lists, Boundary
      <4>2. rr[q] = rk[q] /\ rr[black] = rk[black] /\ (GRAYP(q)' <=> GRAYP(q))
        BY <3>2, <1>5, <1>11, <1>13
      <4> QED
        BY <4>1, <4>2, <1>1
    <3> QED
      BY <3>1, <3>2, <1>11
  <2>3. black' \in Main' /\ Main' # {}
    BY <1>1, <1>5, <1>11
  <2>4. IsFirst(Main', rr, gray') /\ gray' # NULL /\ ~GREENP(gray)'
    <3>1. \A q \in Main' : rr[o] <= rr[q]
      BY <1>11, <1>13
    <3> QED
      BY <2>1, <3>1, <1>1, <1>4, <1>11 DEF IsFirst, GREENP
  <2> QED
    BY <2>2, <2>3, <2>4 DEF Boundary
<1>16. Scanning(rr)'
  <2> SUFFICES ASSUME gcpc = "scan", NEW q \in Main', rr[q] > rr[current]
               PROVE  ~GRAYP(q)'
    BY <1>1 DEF Scanning
  <2>1. current \in Main
    BY <1>4 DEF Tracing
  <2>2. q # o /\ q \in Main
    BY <2>1, <1>11, <1>13
  <2>3. rk[q] > rk[current]
    BY <2>1, <2>2, <1>13
  <2> QED
    BY <2>2, <2>3, <1>0, <1>11 DEF Scanning
<1>17. Greying' /\ Coalescing'
  BY <1>1, <1>2, <1>4 DEF Greying, Coalescing, Linked
<1>18. Tracing'
  <2>1. mark_count' = 0 => gcpc # "vector"
    BY <1>1
  <2> QED
    BY <2>1, <1>1, <1>4, <1>11 DEF Tracing
<1>19. Colored(unmarked_color) \subseteq Object /\ o \in Colored(unmarked_color)
  BY <1>2, <1>4
<1>20. /\ white_count' = Cardinality(Colored(unmarked_color)') /\ white_count' \in Nat
  <2>1. IsFiniteSet(Colored(unmarked_color)) /\ Cardinality(Colored(unmarked_color)) \in Nat
    BY <1>19, ColoredFinite
  <2>2. Cardinality(Colored(unmarked_color)') = Cardinality(Colored(unmarked_color)) - 1
    BY <2>1, <1>11, <1>19, FS_RemoveElement
  <2>3. Colored(unmarked_color)' \subseteq Object
    BY <1>11, <1>19
  <2>4. Cardinality(Colored(unmarked_color)') \in Nat
    BY <2>3, ColoredFinite
  <2> QED
    BY <2>2, <2>4, <1>1, <1>4 DEF Counts
<1>21. TypeOK'
  <2>1. white' \in Object \cup {NULL}
    BY <1>2, <1>4 DEF IsFirst
  <2>2. {free, last, black, gray, white, current, target}' \subseteq Object \cup {NULL}
    BY <2>1, <1>1, <1>4 DEF TypeOK
  <2>3. mark_count' \in {0, 1} /\ color' \in [Object -> 0..3]
    BY <1>1, <1>4, <1>9 DEF TypeOK
  <2>4. {white_count, black_scanned_count, black_alloc_count}' \subseteq Nat
    BY <1>1, <1>4, <1>20 DEF TypeOK
  <2> QED
    BY <2>2, <2>3, <2>4, <1>1, <1>4, <1>7 DEF TypeOK, colorVars, mutVars, Link
<1>22. Counts'
  BY <1>1, <1>4, <1>11, <1>20 DEF Counts
<1>23. Locking'
  BY <1>1, <1>4 DEF Locking, mutVars
<1> QED
  BY <1>12, <1>14, <1>15, <1>16, <1>17, <1>18, <1>21, <1>22, <1>23 DEF IInv, Lists

(* The object that RTmake_object_gray holds is on neither list. *)
LEMMA HeldTarget ==
  ASSUME IInv, NEW rk \in [Object -> Int], Lists(rk), gcpc \in {"link", "back"}
  PROVE  /\ target \in Group /\ target \in Object /\ target # NULL /\ WHITEP(target)
         /\ prev[target] = NULL /\ gray = NULL
         /\ target \notin Main /\ target \notin White /\ target \notin Green
         /\ Main = {q \in Group : ~WHITEP(q)} /\ White = Colored(unmarked_color) \ {target}
         /\ Colored(GRAY) = {} /\ IsFirst(Main, rk, black)
<1>1. TypeOK /\ Greying /\ ~Linked
  BY DEF IInv, Linked
<1>2. target \in Group /\ WHITEP(target) /\ prev[target] = NULL /\ gray = NULL
  BY <1>1 DEF Greying
<1>3. target \in Object /\ target # NULL
  BY <1>2, NullFacts DEF Group
<1>4. Main = {q \in Group : ~WHITEP(q)} /\ White = Colored(unmarked_color) \ {target}
  BY DEF Main, White
<1>5. Colored(GRAY) = {}
  BY <1>2 DEF Lists, Boundary
<1>6. IsFirst(Main, rk, black)
  BY <1>1, <1>5, BlackFirst
<1>7. Green \subseteq Main
  BY <1>1, Sets
<1> QED
  BY <1>2, <1>3, <1>4, <1>5, <1>6, <1>7

(* The object points at black, or is the whole list when there is none. *)
LEMMA MakeGrayLinkStep ==
  ASSUME IInv, MakeGrayLink
  PROVE  IInv'
<1>0. PICK rk \in [Object -> Int] : Lists(rk) /\ Scanning(rk)
  BY DEF IInv
<1>1. /\ gcpc = "link" /\ next' = [next EXCEPT ![target] = black]
      /\ black' = (IF black = NULL THEN target ELSE black)
      /\ last' = (IF black = NULL THEN target ELSE last)
      /\ gcpc' = (IF black = NULL THEN "paint" ELSE "back")
      /\ UNCHANGED <<prev, color, free, gray, white, countVars, colorVars, free_lock,
                     table, mutVars, current, target, return, mark_count, pages_left, page>>
      /\ Group' = Group
  BY DEF MakeGrayLink, Group
<1>2. /\ target \in Group /\ target \in Object /\ target # NULL /\ WHITEP(target)
      /\ prev[target] = NULL /\ gray = NULL
      /\ target \notin Main /\ target \notin White /\ target \notin Green
      /\ Main = {q \in Group : ~WHITEP(q)} /\ White = Colored(unmarked_color) \ {target}
      /\ Colored(GRAY) = {} /\ IsFirst(Main, rk, black)
  BY <1>0, <1>1, HeldTarget
<1>3. /\ TypeOK /\ Greying /\ Tracing /\ Coalescing /\ Counts /\ Locking
      /\ Main \subseteq Object /\ White \subseteq Object /\ Green \subseteq Main
      /\ NULL \notin Object /\ next \in [Object -> Link] /\ prev \in [Object -> Link]
      /\ black \in Link /\ \A q \in Object : rk[q] \in Int
  BY Sets, NullFacts DEF IInv
<1>4. next' \in [Object -> Link] /\ next'[target] = black /\ \A q \in Object : q # target => next'[q] = next[q]
  BY <1>1, <1>2, <1>3
<1>5. /\ Colored(GRAY)' = {} /\ Green' = Green /\ White' = White
      /\ Colored(unmarked_color)' = Colored(unmarked_color)
      /\ Colored(marked_color)' = Colored(marked_color)
      /\ Main' = Main \cup (IF black = NULL THEN {target} ELSE {})
      /\ \A q : GRAYP(q)' <=> GRAYP(q)
  <2>1. /\ Colored(GRAY)' = {} /\ Green' = Green /\ White' = White
        /\ Colored(unmarked_color)' = Colored(unmarked_color)
        /\ Colored(marked_color)' = Colored(marked_color)
        /\ \A q : GRAYP(q)' <=> GRAYP(q)
    BY <1>1, <1>2 DEF Colored, Green, White, GRAYP, colorVars
  <2>2. {q \in Group : ~WHITEP(q)}' = Main
    BY <1>1, <1>2 DEF WHITEP, colorVars
  <2> QED
    BY <2>1, <2>2, <1>1, <1>2 DEF Main
<1>6. Chain(White, next', prev', rk)
  <2>1. \A q \in White : next'[q] = next[q] /\ prev'[q] = prev[q]
    BY <1>1, <1>2, <1>3, <1>4
  <2> QED
    BY <2>1, <1>0 DEF Lists, Chains, Chain
<1>7. Lists(rk)'
  <2>1. CASE black # NULL
    <3>1. Main' = Main /\ black' = black /\ last' = last
      BY <2>1, <1>1, <1>5
    <3>2. \A q \in Main : next'[q] = next[q] /\ prev'[q] = prev[q]
      BY <1>1, <1>2, <1>3, <1>4
    <3>3. Chain(Main, next', prev', rk)
      BY <3>2, <1>0 DEF Lists, Chains, Chain
    <3>4. Chains(rk)'
      BY <3>1, <3>3, <1>5, <1>6 DEF Chains
    <3>5. Ends(rk)'
      BY <3>1, <1>0, <1>1, <1>5 DEF Lists, Ends
    <3>6. Boundary(rk)'
      BY <3>1, <1>0, <1>1, <1>2, <1>5 DEF Lists, Boundary
    <3> QED
      BY <3>4, <3>5, <3>6 DEF Lists
  <2>2. CASE black = NULL
    <3>1. Main = {} /\ Green = {}
      BY <2>2, <1>2, <1>3 DEF IsFirst
    <3>2. Main' = {target} /\ black' = target /\ last' = target /\ next'[target] = NULL /\ prev'[target] = NULL
      BY <2>2, <3>1, <1>1, <1>2, <1>4, <1>5
    <3>3. PICK V : V = {target}
      OBVIOUS
    <3>4. Chain(V, next', prev', rk)
      BY <3>2, <3>3, <1>2, <1>3 DEF Chain
    <3>5. Chains(rk)'
      BY <3>2, <3>3, <3>4, <1>5, <1>6 DEF Chains
    <3>6. Ends(rk)'
      <4>1. IsFirst(White', rk, white') /\ IsFirst(Green', rk, free')
        BY <1>0, <1>1, <1>5 DEF Lists, Ends
      <4>2. IsLast(Main', rk, last')
        BY <3>2, <1>2, <1>3 DEF IsLast
      <4> QED
        BY <4>1, <4>2, <3>1, <1>5 DEF Ends
    <3>7. Boundary(rk)'
      <4>1. \A q \in Main' : q = target /\ q = black' /\ ~(rk[q] > rk[black']) /\ q = target'
        BY <3>2, <1>1, <1>2, <1>3
      <4>2. gray' = NULL
        BY <1>1, <1>2
      <4> QED
        BY <4>1, <4>2, <3>2, <1>5 DEF Boundary
    <3> QED
      BY <3>5, <3>6, <3>7 DEF Lists
  <2> QED
    BY <2>1, <2>2
<1>8. Scanning(rk)' /\ Coalescing' /\ Tracing'
  BY <1>1 DEF Scanning, Coalescing, Tracing
<1>9. Greying'
  <2>1. WHITEP(target)' /\ target' \in Group' /\ prev'[target'] = NULL /\ gray' = NULL /\ black' # NULL
    BY <1>1, <1>2 DEF WHITEP, colorVars
  <2>2. (return' = "vector" => mark_count' = 1) /\ return' # "scan"
    BY <1>1, <1>3 DEF Greying, Linked
  <2>3. ~Linked' /\ (gcpc' = "back" => next'[target'] = black')
    BY <1>1, <1>4 DEF Linked
  <2> QED
    BY <2>1, <2>2, <2>3 DEF Greying
<1>10. TypeOK'
  <2>1. {free, last, black, gray, white, current, target}' \subseteq Object \cup {NULL}
    BY <1>1, <1>3 DEF TypeOK
  <2> QED
    BY <2>1, <1>1, <1>3, <1>4 DEF TypeOK, countVars, colorVars, mutVars, Link
<1>11. Counts'
  BY <1>1, <1>3, <1>5 DEF Counts, countVars
<1>12. Locking'
  BY <1>1, <1>3 DEF Locking, mutVars
<1> QED
  BY <1>7, <1>8, <1>9, <1>10, <1>11, <1>12 DEF IInv

(* black points back at the object, which is then the first of the main list. *)
LEMMA MakeGrayBackStep ==
  ASSUME IInv, MakeGrayBack
  PROVE  IInv'
<1>0. PICK rk \in [Object -> Int] : Lists(rk) /\ Scanning(rk)
  BY DEF IInv
<1>1. /\ gcpc = "back" /\ prev' = [prev EXCEPT ![black] = target] /\ gcpc' = "paint"
      /\ UNCHANGED <<next, color, groupVars, countVars, colorVars, free_lock, table,
                     mutVars, current, target, return, mark_count, pages_left, page>>
      /\ Group' = Group
  BY DEF MakeGrayBack, Group
<1>2. /\ target \in Group /\ target \in Object /\ target # NULL /\ WHITEP(target)
      /\ prev[target] = NULL /\ gray = NULL
      /\ target \notin Main /\ target \notin White /\ target \notin Green
      /\ Main = {q \in Group : ~WHITEP(q)} /\ White = Colored(unmarked_color) \ {target}
      /\ Colored(GRAY) = {} /\ IsFirst(Main, rk, black)
  BY <1>0, <1>1, HeldTarget
<1>3. /\ TypeOK /\ Greying /\ Tracing /\ Coalescing /\ Counts /\ Locking
      /\ Main \subseteq Object /\ White \subseteq Object /\ Green \subseteq Main /\ White \cap Main = {}
      /\ NULL \notin Object /\ next \in [Object -> Link] /\ prev \in [Object -> Link]
      /\ \A q \in Object : rk[q] \in Int
  BY Sets, NullFacts DEF IInv
<1>4. /\ black # NULL /\ next[target] = black /\ black \in Main /\ black \in Object /\ black # target
      /\ \A q \in Main : rk[black] <= rk[q]
  <2>1. black # NULL /\ next[target] = black
    BY <1>1, <1>3 DEF Greying
  <2> QED
    BY <2>1, <1>2, <1>3 DEF IsFirst
<1>5. /\ prev' \in [Object -> Link] /\ prev'[black] = target
      /\ \A q \in Object : q # black => prev'[q] = prev[q]
  BY <1>1, <1>2, <1>3, <1>4 DEF Link
<1>6. /\ Colored(GRAY)' = {} /\ Green' = Green /\ White' = White
      /\ Colored(unmarked_color)' = Colored(unmarked_color)
      /\ Colored(marked_color)' = Colored(marked_color)
      /\ Main' = Main \cup {target}
      /\ \A q : GRAYP(q)' <=> GRAYP(q)
  <2>1. /\ Colored(GRAY)' = {} /\ Green' = Green /\ White' = White
        /\ Colored(unmarked_color)' = Colored(unmarked_color)
        /\ Colored(marked_color)' = Colored(marked_color)
        /\ \A q : GRAYP(q)' <=> GRAYP(q)
    BY <1>1, <1>2 DEF Colored, Green, White, GRAYP, colorVars
  <2>2. {q \in Group : ~WHITEP(q)}' = Main
    BY <1>1, <1>2 DEF WHITEP, colorVars
  <2> QED
    BY <2>1, <2>2, <1>1, <1>2 DEF Main
<1>7. PICK rr \in [Object -> Int] :
        rr[target] = rk[black] - 1 /\ \A q \in Object : q # target => rr[q] = rk[q]
  <2> DEFINE r == [rk EXCEPT ![target] = rk[black] - 1]
  <2>1. /\ r \in [Object -> Int] /\ r[target] = rk[black] - 1
        /\ \A q \in Object : q # target => r[q] = rk[q]
    BY <1>2, <1>3, <1>4
  <2> HIDE DEF r
  <2> QED
    BY <2>1
<1>8. /\ \A q \in Main : rr[q] = rk[q] /\ rr[target] < rr[q] /\ rr[q] \in Int
      /\ \A q \in White : rr[q] = rk[q]
      /\ rr[target] \in Int
  <2>1. \A q \in Main : rr[q] = rk[q]
    BY <1>2, <1>3, <1>7
  <2>2. ASSUME NEW q \in Main
        PROVE  rr[target] < rr[q]
    <3>1. rk[black] <= rk[q] /\ rk[black] \in Int /\ rk[q] \in Int /\ rr[target] = rk[black] - 1
      BY <1>3, <1>4, <1>7
    <3> QED
      BY <3>1, <2>1
  <2>3. \A q \in White : rr[q] = rk[q]
    BY <1>2, <1>3, <1>7
  <2> QED
    BY <2>1, <2>2, <2>3, <1>2, <1>3
<1>9. Chains(rr)'
  <2>1. \A q \in White : next'[q] = next[q] /\ prev'[q] = prev[q] /\ rr[q] = rk[q]
    BY <1>1, <1>3, <1>4, <1>5, <1>8
  <2>2. Chain(White, next', prev', rr)
    BY <2>1, <1>0 DEF Chain, Lists, Chains
  <2>3. PICK V, S, t, b, n1, p1 : V = Main' /\ S = Main /\ t = target /\ b = black /\ n1 = next' /\ p1 = prev'
    OBVIOUS
  <2>4. rr[target] < rk[black]
    BY <1>4, <1>8
  <2>5. /\ \A q \in Main : next'[q] = next[q] /\ prev'[q] = IF q = black THEN target ELSE prev[q]
        /\ next'[target] = black /\ prev'[target] = NULL /\ next' \in [Object -> Link]
    BY <1>1, <1>2, <1>3, <1>4, <1>5
  <2>6. IsPush(V, S, t, b, next, prev, n1, p1, rk, rr)
    BY <2>3, <2>4, <2>5, <1>2, <1>3, <1>4, <1>5, <1>6, <1>8 DEF IsPush
  <2>7. Chain(S, next, prev, rk)
    BY <2>3, <1>0 DEF Lists, Chains
  <2>8. Chain(V, n1, p1, rr)
    BY <2>6, <2>7, ChainPush
  <2> QED
    BY <2>2, <2>3, <2>8, <1>6 DEF Chains
<1>10. Ends(rr)'
  <2>0. UNCHANGED <<white, last, free>>
    BY <1>1 DEF groupVars
  <2>1. IsFirst(White', rr, white')
    BY <2>0, <1>0, <1>6, <1>8 DEF IsFirst, Lists, Ends
  <2>2. IsLast(Main', rr, last')
    <3>1. last \in Main /\ \A q \in Main : rk[q] <= rk[last]
      BY <1>0, <1>4 DEF Lists, Ends, IsLast
    <3> QED
      BY <2>0, <3>1, <1>6, <1>8 DEF IsLast
  <2>3. IsFirst(Green', rr, free')
    BY <2>0, <1>0, <1>3, <1>6, <1>8 DEF IsFirst, Lists, Ends
  <2>4. \A a \in Main' \ Green' : \A b \in Green' : rr[a] < rr[b]
    <3> SUFFICES ASSUME NEW a \in Main', a \notin Green, NEW b \in Green
                 PROVE  rr[a] < rr[b]
      BY <1>6
    <3>1. b \in Main
      BY <1>3
    <3>2. CASE a = target
      BY <3>1, <3>2, <1>8
    <3>3. CASE a \in Main
      BY <3>1, <3>3, <1>0, <1>8 DEF Lists, Ends
    <3> QED
      BY <3>2, <3>3, <1>6
  <2> QED
    BY <2>1, <2>2, <2>3, <2>4 DEF Ends
<1>11. Boundary(rr)'
  <2>0. UNCHANGED <<black, gray, target>>
    BY <1>1 DEF groupVars
  <2>1. ASSUME NEW q \in Main'
        PROVE  /\ rr[q] < rr[black'] => GRAYP(q)' \/ q = target'
               /\ rr[q] > rr[black'] => ~GRAYP(q)' /\ q # target'
    <3>1. CASE q = target
      BY <2>0, <3>1, <1>4, <1>8
    <3>2. CASE q \in Main
      <4>1. /\ rk[q] < rk[black] => GRAYP(q) \/ q = target
            /\ rk[q] > rk[black] => ~GRAYP(q) /\ q # target
        BY <3>2, <1>0 DEF Lists, Boundary
      <4>2. rr[q] = rk[q] /\ rr[black] = rk[black] /\ (GRAYP(q)' <=> GRAYP(q))
        BY <3>2, <1>4, <1>6, <1>8
      <4> QED
        BY <2>0, <4>1, <4>2
    <3> QED
      BY <3>1, <3>2, <1>6
  <2> QED
    BY <2>0, <2>1, <1>2, <1>4, <1>6 DEF Boundary
<1>12. Scanning(rr)' /\ Coalescing' /\ Tracing'
  BY <1>1 DEF Scanning, Coalescing, Tracing
<1>13. Greying'
  <2>1. /\ WHITEP(target)' /\ target' \in Group' /\ prev'[target'] = NULL
        /\ gray' = NULL /\ black' # NULL
    BY <1>1, <1>2, <1>4, <1>5 DEF WHITEP, colorVars, groupVars
  <2>2. (return' = "vector" => mark_count' = 1) /\ return' # "scan"
    BY <1>1, <1>3 DEF Greying, Linked
  <2>3. ~Linked' /\ gcpc' # "back"
    BY <1>1 DEF Linked
  <2> QED
    BY <2>1, <2>2, <2>3 DEF Greying
<1>14. TypeOK'
  BY <1>1, <1>3, <1>5 DEF TypeOK, groupVars, countVars, colorVars, mutVars, Link
<1>15. Counts'
  BY <1>1, <1>3, <1>6 DEF Counts, countVars
<1>16. Locking'
  BY <1>1, <1>3 DEF Locking, mutVars, groupVars
<1> QED
  BY <1>9, <1>10, <1>11, <1>12, <1>13, <1>14, <1>15, <1>16 DEF IInv, Lists

(* The object turns gray. *)
LEMMA MakeGrayPaintStep ==
  ASSUME IInv, MakeGrayPaint
  PROVE  IInv'
<1>0. PICK rk \in [Object -> Int] : Lists(rk) /\ Scanning(rk)
  BY DEF IInv
<1>1. /\ gcpc = "paint" /\ ~Linked /\ color' = [color EXCEPT ![target] = GRAY] /\ gray' = target
      /\ white_count' = white_count - 1 /\ target' = NULL /\ gcpc' = return
      /\ UNCHANGED <<next, prev, free, last, black, white, black_scanned_count,
                     black_alloc_count, colorVars, free_lock, table, mutVars, current,
                     return, mark_count, pages_left, page>>
      /\ Group' = Group
  BY DEF MakeGrayPaint, Group, Linked
<1>2. /\ TypeOK /\ Greying /\ Tracing /\ Coalescing /\ Counts /\ Locking
      /\ Main \subseteq Object /\ White \subseteq Object /\ Green \subseteq Main /\ White \cap Main = {}
      /\ NULL \notin Object /\ next \in [Object -> Link] /\ prev \in [Object -> Link]
      /\ Group \subseteq Object /\ \A q \in Object : rk[q] \in Int
  BY Sets, NullFacts DEF IInv
<1>3. /\ target \in Group /\ WHITEP(target) /\ prev[target] = NULL /\ gray = NULL
      /\ (return = "vector" => mark_count = 1) /\ return # "scan"
      /\ return \in {"roots", "vector"}
  BY <1>1, <1>2 DEF Greying, TypeOK
<1>4. target \in Object /\ target # NULL /\ target \in Main /\ Colored(GRAY) = {}
  BY <1>0, <1>1, <1>2, <1>3 DEF Main, Lists, Boundary
<1>5. color \in [Object -> 0..3] /\ GRAY \in 0..3
  BY <1>2 DEF TypeOK, GRAY
<1>6. color'[target] = GRAY /\ \A q \in Object : q # target => color'[q] = color[q]
  BY <1>1, <1>4, <1>5
<1>7. /\ Green' = Green /\ White' = White /\ Main' = Main
      /\ Colored(unmarked_color)' = Colored(unmarked_color) \ {target}
      /\ Colored(marked_color)' = Colored(marked_color)
      /\ \A q \in Main : GRAYP(q)' <=> GRAYP(q) \/ q = target
  <2>1. /\ marked_color # unmarked_color /\ marked_color # GRAY /\ marked_color # GREEN
        /\ unmarked_color # GRAY /\ GRAY # GREEN /\ unmarked_color # GREEN
    BY <1>2, Colors
  <2>2. UNCHANGED <<marked_color, unmarked_color>> /\ gcpc' # "paint" /\ color[target] = unmarked_color
    BY <1>1, <1>3 DEF colorVars, WHITEP
  <2>3. /\ Green' = Green
        /\ Colored(unmarked_color)' = Colored(unmarked_color) \ {target}
        /\ Colored(marked_color)' = Colored(marked_color)
    BY <1>1, <1>2, <1>6, <2>1, <2>2 DEF Colored, Green
  <2>4. NULL \notin Colored(unmarked_color)
    BY <1>2 DEF Colored
  <2>5. White' = White
    BY <2>2, <2>3, <2>4, <1>1 DEF White
  <2>6. Main' = {q \in Group : color'[q] # unmarked_color}
    BY <1>1, <2>2 DEF Main, WHITEP
  <2>7. Main = {q \in Group : color[q] # unmarked_color} \cup {target}
    BY <1>1 DEF Main, WHITEP
  <2>8. Main' = Main
    BY <2>1, <2>2, <2>6, <2>7, <1>2, <1>3, <1>6
  <2>9. \A q \in Main : GRAYP(q)' <=> GRAYP(q) \/ q = target
    BY <1>2, <1>6 DEF GRAYP
  <2> QED
    BY <2>3, <2>5, <2>8, <2>9
<1>8. Chains(rk)'
  BY <1>0, <1>1, <1>7 DEF Lists, Chains, Chain
<1>9. Ends(rk)'
  BY <1>0, <1>1, <1>7 DEF Lists, Ends
<1>10. IsFirst(Main, rk, target)
  <2>1. \A q \in Main : ~(rk[q] < rk[target])
    BY <1>0, <1>3, <1>4 DEF Lists, Chains, Chain
  <2>2. \A q \in Main : rk[target] <= rk[q]
    BY <2>1, <1>2, <1>4
  <2> QED
    BY <2>2, <1>4 DEF IsFirst
<1>11. Boundary(rk)'
  <2>1. \A q \in Main : /\ rk[q] < rk[black] => GRAYP(q)'
                        /\ rk[q] > rk[black] => ~GRAYP(q)'
    BY <1>0, <1>7 DEF Lists, Boundary
  <2>2. \A q \in Main : q # NULL
    BY <1>2
  <2>3. ~GREENP(gray)'
    BY <1>1, <1>6 DEF GREENP, GRAY, GREEN
  <2>4. black \in Main
    BY <1>0, <1>4 DEF Lists, Boundary
  <2> QED
    BY <2>1, <2>2, <2>3, <2>4, <1>1, <1>4, <1>7, <1>10 DEF Boundary
<1>12. Scanning(rk)' /\ Coalescing' /\ Tracing'
  BY <1>1, <1>3 DEF Scanning, Coalescing, Tracing
<1>13. Greying'
  BY <1>1, <1>3 DEF Greying, Linked
<1>14. Colored(unmarked_color) \subseteq Object /\ target \in Colored(unmarked_color)
  BY <1>2, <1>3 DEF Colored, WHITEP
<1>15. /\ white_count' = Cardinality(Colored(unmarked_color)') /\ white_count' \in Nat
  <2>1. IsFiniteSet(Colored(unmarked_color)) /\ Cardinality(Colored(unmarked_color)) \in Nat
    BY <1>14, ColoredFinite
  <2>2. Cardinality(Colored(unmarked_color)') = Cardinality(Colored(unmarked_color)) - 1
    BY <2>1, <1>7, <1>14, FS_RemoveElement
  <2>3. Colored(unmarked_color)' \subseteq Object
    BY <1>7, <1>14
  <2>4. Cardinality(Colored(unmarked_color)') \in Nat
    BY <2>3, ColoredFinite
  <2> QED
    BY <2>2, <2>4, <1>1, <1>2 DEF Counts
<1>16. TypeOK'
  <2>1. {free, last, black, gray, white, current, target}' \subseteq Object \cup {NULL}
    BY <1>1, <1>2, <1>4 DEF TypeOK
  <2>2. color' \in [Object -> 0..3] /\ gcpc' \in {"roots", "vector"}
    BY <1>1, <1>3, <1>5
  <2>3. {white_count, black_scanned_count, black_alloc_count}' \subseteq Nat
    BY <1>1, <1>2, <1>15 DEF TypeOK
  <2> QED
    BY <2>1, <2>2, <2>3, <1>1, <1>2 DEF TypeOK, colorVars, mutVars, Link
<1>17. Counts'
  BY <1>1, <1>2, <1>7, <1>15 DEF Counts
<1>18. Locking'
  BY <1>1, <1>2 DEF Locking, mutVars
<1> QED
  BY <1>8, <1>9, <1>11, <1>12, <1>13, <1>16, <1>17, <1>18 DEF IInv, Lists
-----------------------------------------------------------------------------
(***************************************************************************)
(* init_pages_for_group appends a page.                                    *)
(***************************************************************************)
LEMMA PageObjects ==
  ASSUME NEW p \in Page
  PROVE  /\ ObjectsOf(p) \subseteq Object
         /\ \A o \in Object : o[1] \in Page /\ o[2] \in 1..ObjectsPerPage /\ o = <<o[1], o[2]>>
         /\ \A o \in Object : o \in ObjectsOf(p) <=> o[1] = p
         /\ <<p, 1>> \in ObjectsOf(p) /\ <<p, ObjectsPerPage>> \in ObjectsOf(p)
         /\ \A i \in 1..ObjectsPerPage : <<p, i>> \in Object /\ <<p, i>>[1] = p /\ <<p, i>>[2] = i
BY ObjectsPerPageAssumption DEF Object, ObjectsOf

(* The objects of a carved page are a chain in address order. *)
LEMMA CarvedChain ==
  ASSUME NEW p \in Page, NEW rr \in [Object -> Int],
         next \in [Object -> Link], prev \in [Object -> Link],
         \A o, q \in ObjectsOf(p) : rr[o] <= rr[q] <=> o[2] <= q[2]
  PROVE  /\ CarvedNext(p) \in [Object -> Link] /\ CarvedPrev(p) \in [Object -> Link]
         /\ Chain(ObjectsOf(p), CarvedNext(p), CarvedPrev(p), rr)
         /\ IsFirst(ObjectsOf(p), rr, <<p, 1>>) /\ IsLast(ObjectsOf(p), rr, <<p, ObjectsPerPage>>)
<1> DEFINE N == ObjectsPerPage
           S == ObjectsOf(p)
           nx == CarvedNext(p)
           pv == CarvedPrev(p)
<1>0. N \in Nat /\ N >= 1 /\ NULL \notin Object
  BY ObjectsPerPageAssumption, NullFacts
<1>1. /\ S \subseteq Object
      /\ \A o \in S : o[1] = p /\ o[2] \in 1..N /\ o = <<p, o[2]>>
      /\ \A i \in 1..N : <<p, i>> \in S /\ <<p, i>>[2] = i
      /\ \A o \in Object : o \in S <=> o[1] = p
  BY PageObjects, ZenonT(60)
<1>2. nx \in [Object -> Link] /\ pv \in [Object -> Link]
  <2>1. ASSUME NEW o \in Object, o[1] = p
        PROVE  (o[2] # N => <<p, o[2] + 1>> \in Object) /\ (o[2] # 1 => <<p, o[2] - 1>> \in Object)
    <3>1. o[2] \in 1..N
      BY <2>1, <1>1
    <3>2. (o[2] # N => o[2] + 1 \in 1..N) /\ (o[2] # 1 => o[2] - 1 \in 1..N)
      BY <3>1, <1>0
    <3> QED
      BY <3>2, <1>1
  <2> QED
    BY <2>1 DEF CarvedNext, CarvedPrev, Link
<1>3. \A o \in S : /\ nx[o] = IF o[2] = N THEN NULL ELSE <<p, o[2] + 1>>
                   /\ pv[o] = IF o[2] = 1 THEN NULL ELSE <<p, o[2] - 1>>
  BY <1>1 DEF CarvedNext, CarvedPrev
<1>4. ASSUME NEW o \in S, NEW q \in S
      PROVE  /\ rr[o] = rr[q] => o = q
             /\ rr[o] <= rr[q] <=> o[2] <= q[2]
             /\ rr[o] < rr[q] <=> o[2] < q[2]
  <2>1. rr[o] \in Int /\ rr[q] \in Int /\ o[2] \in Int /\ q[2] \in Int
    BY <1>1
  <2>2. (rr[o] <= rr[q] <=> o[2] <= q[2]) /\ (rr[q] <= rr[o] <=> q[2] <= o[2])
    OBVIOUS
  <2>3. rr[o] = rr[q] => o[2] = q[2]
    BY <2>1, <2>2
  <2>4. o = <<p, o[2]>> /\ q = <<p, q[2]>>
    BY <1>1
  <2>5. rr[o] < rr[q] <=> o[2] < q[2]
    BY <2>1, <2>2
  <2>6. rr[o] = rr[q] => o = q
    BY <2>3, <2>4
  <2> QED
    BY <2>2, <2>5, <2>6
<1> HIDE DEF N, S, nx, pv
<1>5. ASSUME NEW o \in S, nx[o] # NULL
      PROVE  nx[o] \in S /\ pv[nx[o]] = o /\ rr[o] < rr[nx[o]] /\ nx[o][2] = o[2] + 1
  <2>1. o[2] \in 1..N /\ o[2] # N /\ nx[o] = <<p, o[2] + 1>>
    BY <1>1, <1>3, <1>5
  <2>2. o[2] + 1 \in 1..N /\ o[2] + 1 # 1 /\ (o[2] + 1) - 1 = o[2] /\ o[2] < o[2] + 1
    BY <2>1, <1>0
  <2>3. nx[o] \in S /\ nx[o][2] = o[2] + 1
    BY <2>1, <2>2, <1>1
  <2>4. pv[nx[o]] = <<p, o[2]>>
    BY <2>2, <2>3, <1>3
  <2> QED
    BY <2>2, <2>3, <2>4, <1>1, <1>4
<1>6. ASSUME NEW o \in S, pv[o] # NULL
      PROVE  pv[o] \in S /\ nx[pv[o]] = o /\ rr[pv[o]] < rr[o] /\ pv[o][2] = o[2] - 1
  <2>1. o[2] \in 1..N /\ o[2] # 1 /\ pv[o] = <<p, o[2] - 1>>
    BY <1>1, <1>3, <1>6
  <2>2. o[2] - 1 \in 1..N /\ o[2] - 1 # N /\ (o[2] - 1) + 1 = o[2] /\ o[2] - 1 < o[2]
    BY <2>1, <1>0
  <2>3. pv[o] \in S /\ pv[o][2] = o[2] - 1
    BY <2>1, <2>2, <1>1
  <2>4. nx[pv[o]] = <<p, o[2]>>
    BY <2>2, <2>3, <1>3
  <2> QED
    BY <2>2, <2>3, <2>4, <1>1, <1>4
<1>7. ASSUME NEW o \in S, NEW q \in S, rr[o] < rr[q]
      PROVE  /\ nx[o] # NULL /\ rr[nx[o]] <= rr[q]
             /\ pv[q] # NULL /\ rr[o] <= rr[pv[q]]
  <2>1. o[2] < q[2] /\ o[2] \in 1..N /\ q[2] \in 1..N
    BY <1>1, <1>4, <1>7
  <2>2. o[2] # N /\ q[2] # 1 /\ o[2] + 1 <= q[2] /\ o[2] <= q[2] - 1 /\ o[2] + 1 \in 1..N /\ q[2] - 1 \in 1..N
    BY <2>1, <1>0
  <2>3. nx[o] # NULL /\ pv[q] # NULL
    BY <2>2, <1>0, <1>1, <1>3, ZenonT(60)
  <2>4. nx[o] \in S /\ nx[o][2] = o[2] + 1 /\ pv[q] \in S /\ pv[q][2] = q[2] - 1
    BY <2>3, <1>5, <1>6
  <2> QED
    BY <2>2, <2>3, <2>4, <1>4
<1>8. Chain(S, nx, pv, rr)
  BY <1>4, <1>5, <1>6, <1>7 DEF Chain
<1>9. /\ <<p, 1>> \in S /\ <<p, N>> \in S
      /\ \A q \in S : rr[<<p, 1>>] <= rr[q] /\ rr[q] <= rr[<<p, N>>]
  <2>1. 1 \in 1..N /\ N \in 1..N
    BY <1>0
  <2>2. /\ <<p, 1>> \in S /\ <<p, N>> \in S /\ <<p, 1>>[2] = 1 /\ <<p, N>>[2] = N
    BY <2>1, <1>1
  <2>3. \A q \in S : 1 <= q[2] /\ q[2] <= N
    BY <1>1, <1>0
  <2>4. \A q \in S : rr[<<p, 1>>] <= rr[q] /\ rr[q] <= rr[<<p, N>>]
    BY <2>2, <2>3, <1>4
  <2> QED
    BY <2>2, <2>4
<1>10. IsFirst(S, rr, <<p, 1>>) /\ IsLast(S, rr, <<p, N>>)
  BY <1>9 DEF IsFirst, IsLast
<1> QED
  BY <1>2, <1>8, <1>10 DEF S, nx, pv, N

(* The carved page goes behind last, and behind nothing when the list is empty. *)
LEMMA AppendPageStep ==
  ASSUME IInv, NEW m \in Mutator, NEW p \in Page, AppendPage(m, p)
  PROVE  IInv'
<1>0. PICK rk \in [Object -> Int] : Lists(rk) /\ Scanning(rk)
  BY DEF IInv
<1> DEFINE N == ObjectsPerPage
           New == ObjectsOf(p)
           n0 == CarvedNext(p)
           p0 == CarvedPrev(p)
<1>1. /\ mpc[m] \in {"pages", "again"} /\ free = NULL /\ table[p] = "EMPTY"
      /\ free' = <<p, 1>> /\ last' = <<p, N>>
      /\ black' = (IF last = NULL THEN <<p, 1>> ELSE black)
      /\ next' = SetLink(n0, last, <<p, 1>>)
      /\ prev' = SetLink(p0, <<p, 1>>, last)
      /\ color' = [o \in Object |-> IF o[1] = p THEN GREEN ELSE color[o]]
      /\ table' = [table EXCEPT ![p] = "GROUP"]
      /\ mpc' = [mpc EXCEPT ![m] = "pop"]
      /\ UNCHANGED <<gray, white, countVars, colorVars, free_lock, waited, gcVars>>
  BY DEF AppendPage, EmptyPages
<1>2. /\ TypeOK /\ Greying /\ Tracing /\ Coalescing /\ Counts /\ Locking
      /\ Main \subseteq Object /\ White \subseteq Object /\ Green \subseteq Main /\ White \cap Main = {}
      /\ NULL \notin Object /\ next \in [Object -> Link] /\ prev \in [Object -> Link]
      /\ Main \subseteq Group /\ White \subseteq Group /\ Colored(GRAY) \subseteq Main
      /\ Group \subseteq Object /\ \A q \in Object : rk[q] \in Int
      /\ color \in [Object -> 0..3] /\ table \in [Page -> {"EMPTY", "GROUP", "FREE"}]
  BY Sets, NullFacts DEF IInv, TypeOK
<1>3. /\ New \subseteq Object /\ \A o \in Object : o \in New <=> o[1] = p
      /\ \A o \in Object : o[1] \in Page /\ o[2] \in 1..N
      /\ <<p, 1>> \in New /\ <<p, N>> \in New
      /\ <<p, 1>>[1] = p /\ <<p, 1>>[2] = 1
  BY PageObjects
<1>4. /\ Group \cap New = {} /\ Group' = Group \cup New
      /\ \A q \in Page : table[q] = "GROUP" => table'[q] = "GROUP"
  BY <1>1, <1>2, <1>3 DEF Group
<1>5. Green = {} /\ IsLast(Main, rk, last) /\ Chain(Main, next, prev, rk) /\ Chain(White, next, prev, rk)
  BY <1>0, <1>1, <1>2 DEF Lists, Ends, Chains, IsFirst
<1>6. /\ Main # {} => last \in Main /\ last # NULL /\ black \in Main /\ \A q \in Main : rk[q] <= rk[last]
      /\ Main = {} => last = NULL /\ black = NULL
      /\ last \notin New /\ last \notin White
  <2> HIDE DEF New
  <2>1. /\ Main # {} => last \in Main /\ black \in Main /\ \A q \in Main : rk[q] <= rk[last]
        /\ Main = {} => last = NULL /\ black = NULL
    BY <1>0, <1>5 DEF IsLast, Lists, Boundary
  <2> QED
    BY <2>1, <1>2, <1>3, <1>4
<1>7. target # NULL => target \in Group
  BY <1>2 DEF Greying
<1>8. \A o \in New : color'[o] = GREEN
  BY <1>1, <1>3
<1>9. \A o \in Object : o \notin New => color'[o] = color[o]
  BY <1>1, <1>3
<1> HIDE DEF New
<1>10. /\ Green' = New /\ White' = White /\ Main' = Main \cup New
       /\ Colored(GRAY)' = Colored(GRAY)
       /\ Colored(unmarked_color)' = Colored(unmarked_color)
       /\ Colored(marked_color)' = Colored(marked_color)
       /\ \A q \in Main : (GRAYP(q)' <=> GRAYP(q)) /\ (GREENP(q)' <=> GREENP(q))
       /\ \A q \in New : ~GRAYP(q)' /\ q # target
  <2>1. /\ marked_color # unmarked_color /\ marked_color # GRAY /\ marked_color # GREEN
        /\ unmarked_color # GRAY /\ GRAY # GREEN /\ unmarked_color # GREEN
    BY <1>2, Colors
  <2>2. UNCHANGED <<marked_color, unmarked_color, target, gcpc>>
    BY <1>1 DEF colorVars, gcVars
  <2>3. \A c : c # GREEN => {o \in Group' : color'[o] = c} = {o \in Group : color[o] = c}
    BY <1>2, <1>4, <1>8, <1>9
  <2>4. {o \in Group' : color'[o] = GREEN} = {o \in Group : color[o] = GREEN} \cup New
    BY <1>2, <1>4, <1>8, <1>9
  <2>5. /\ Colored(GRAY)' = Colored(GRAY)
        /\ Colored(unmarked_color)' = Colored(unmarked_color)
        /\ Colored(marked_color)' = Colored(marked_color)
    BY <2>1, <2>2, <2>3 DEF Colored
  <2>6. Green' = New
    BY <2>4, <1>5 DEF Green, Colored
  <2>7. White' = White
    BY <2>2, <2>5 DEF White
  <2>8. {o \in Group' : color'[o] # unmarked_color} = {o \in Group : color[o] # unmarked_color} \cup New
    BY <2>1, <1>2, <1>4, <1>8, <1>9
  <2>9. Main' = Main \cup New
    BY <2>2, <2>8 DEF Main, WHITEP
  <2>10. \A q \in Main : (GRAYP(q)' <=> GRAYP(q)) /\ (GREENP(q)' <=> GREENP(q))
    BY <1>2, <1>4, <1>9 DEF GRAYP, GREENP
  <2>11. \A q \in New : ~GRAYP(q)' /\ q # target
    BY <2>1, <1>2, <1>3, <1>4, <1>7, <1>8 DEF GRAYP
  <2> QED
    BY <2>5, <2>6, <2>7, <2>9, <2>10, <2>11
<1>11. PICK base \in Int : \A q \in Main : rk[q] <= base
  <2>1. CASE Main = {}
    BY <2>1
  <2>2. CASE Main # {}
    BY <2>2, <1>2, <1>6
  <2> QED
    BY <2>1, <2>2
<1>12. PICK rr \in [Object -> Int] : /\ \A o \in New : rr[o] = base + o[2]
                                     /\ \A o \in Object : o \notin New => rr[o] = rk[o]
  <2> DEFINE r == [o \in Object |-> IF o \in New THEN base + o[2] ELSE rk[o]]
  <2>1. /\ r \in [Object -> Int] /\ \A o \in New : r[o] = base + o[2]
        /\ \A o \in Object : o \notin New => r[o] = rk[o]
    <3>1. \A o \in Object : o[2] \in Int
      BY <1>3
    <3> QED
      BY <3>1, <1>2, <1>3
  <2> HIDE DEF r
  <2> QED
    BY <2>1
<1>13. /\ \A o, q \in New : rr[o] <= rr[q] <=> o[2] <= q[2]
       /\ \A q \in Main : rr[q] = rk[q] /\ rr[q] \in Int
       /\ \A q \in White : rr[q] = rk[q]
       /\ \A o \in Main, q \in New : rr[o] < rr[q]
       /\ \A q \in New : rr[q] \in Int
  <2>1. \A o \in New : rr[o] = base + o[2] /\ o[2] \in Int /\ o[2] >= 1
    BY <1>3, <1>12
  <2>2. \A o, q \in New : rr[o] <= rr[q] <=> o[2] <= q[2]
    <3> TAKE o, q \in New
    <3>1. rr[o] = base + o[2] /\ o[2] \in Int /\ rr[q] = base + q[2] /\ q[2] \in Int
      BY <2>1
    <3> QED
      BY <3>1
  <2>3. /\ \A q \in Main : rr[q] = rk[q] /\ rr[q] \in Int
        /\ \A q \in White : rr[q] = rk[q]
    BY <1>2, <1>4, <1>12
  <2>4. ASSUME NEW o \in Main, NEW q \in New
        PROVE  rr[o] < rr[q]
    <3>1. rr[o] = rk[o] /\ rk[o] \in Int /\ rk[o] <= base
      BY <2>3, <1>11
    <3>2. rr[q] = base + q[2] /\ q[2] \in Int /\ q[2] >= 1
      BY <2>1
    <3> QED
      BY <3>1, <3>2
  <2> QED
    BY <2>1, <2>2, <2>3, <2>4
<1>14. /\ n0 \in [Object -> Link] /\ p0 \in [Object -> Link]
       /\ Chain(New, n0, p0, rr)
       /\ IsFirst(New, rr, <<p, 1>>) /\ IsLast(New, rr, <<p, N>>)
  BY <1>2, <1>13, CarvedChain DEF New
<1>15. \A o \in Object : o \notin New => n0[o] = next[o] /\ p0[o] = prev[o]
  BY <1>3 DEF CarvedNext, CarvedPrev
<1> HIDE DEF n0, p0
<1>16. PICK h : h = <<p, 1>>
  OBVIOUS
<1>17. /\ next' \in [Object -> Link] /\ prev' \in [Object -> Link]
       /\ \A o \in Object : next'[o] = IF o = last THEN h ELSE n0[o]
       /\ \A o \in Object : prev'[o] = IF o = h THEN last ELSE p0[o]
  <2>0. h \in New /\ h \in Object /\ h # NULL /\ last \in Link
    BY <1>2, <1>3, <1>16 DEF TypeOK, Link
  <2>1. prev' = [p0 EXCEPT ![h] = last]
    BY <2>0, <1>1, <1>16 DEF SetLink
  <2>2. CASE last = NULL
    <3>1. next' = n0
      BY <2>2, <1>1 DEF SetLink
    <3> QED
      BY <2>0, <2>1, <2>2, <3>1, <1>2, <1>14
  <2>3. CASE last # NULL
    <3>1. next' = [n0 EXCEPT ![last] = h] /\ last \in Object /\ h \in Link
      BY <2>0, <2>3, <1>1, <1>16 DEF SetLink, Link
    <3> QED
      BY <2>0, <2>1, <3>1, <1>14
  <2> QED
    BY <2>2, <2>3
<1>18. Chains(rr)'
  <2>1. \A q \in White : next'[q] = next[q] /\ prev'[q] = prev[q] /\ rr[q] = rk[q]
    BY <1>2, <1>3, <1>4, <1>6, <1>13, <1>15, <1>16, <1>17
  <2>2. Chain(White, next', prev', rr)
    BY <2>1, <1>5 DEF Chain
  <2>3. \A q \in Main : n0[q] = next[q] /\ p0[q] = prev[q] /\ rr[q] = rk[q]
    BY <1>2, <1>4, <1>13, <1>15
  <2>4. Chain(Main, n0, p0, rr)
    BY <2>3, <1>5 DEF Chain
  <2>5. PICK V, S, l, n1, p1 : V = Main' /\ S = Main /\ l = last /\ n1 = next' /\ p1 = prev'
    OBVIOUS
  <2>6. IsLast(S, rr, l)
    BY <2>5, <1>5, <1>13 DEF IsLast
  <2>7. /\ \A o \in Main : next'[o] = IF o = last THEN h ELSE n0[o]
        /\ \A o \in Main : prev'[o] = p0[o]
        /\ \A q \in New : next'[q] = n0[q]
        /\ \A q \in New : prev'[q] = IF q = h THEN last ELSE p0[q]
    BY <1>2, <1>3, <1>4, <1>6, <1>16, <1>17
  <2>8. IsJoin(V, S, New, l, h, n0, p0, n1, p1, rr)
    BY <2>5, <2>6, <2>7, <1>2, <1>3, <1>10, <1>13, <1>14, <1>16, <1>17 DEF IsJoin
  <2>9. Chain(V, n1, p1, rr)
    <3>1. Chain(S, n0, p0, rr)
      BY <2>4, <2>5
    <3> QED
      BY <2>8, <3>1, <1>14, ChainJoin
  <2> QED
    BY <2>2, <2>5, <2>9, <1>10 DEF Chains
<1>19. Ends(rr)'
  <2>1. IsFirst(White', rr, white')
    <3>1. IsFirst(White, rk, white)
      BY <1>0 DEF Lists, Ends
    <3> QED
      BY <3>1, <1>1, <1>10, <1>13 DEF IsFirst
  <2>2. IsLast(Main', rr, last')
    <3>1. <<p, N>> \in New /\ \A q \in New : rr[q] <= rr[<<p, N>>]
      BY <1>3, <1>14 DEF IsLast
    <3>2. \A q \in Main : rr[q] <= rr[<<p, N>>]
      BY <3>1, <1>13
    <3> QED
      BY <3>1, <3>2, <1>1, <1>10 DEF IsLast
  <2>3. IsFirst(Green', rr, free')
    BY <1>1, <1>10, <1>14
  <2>4. \A a \in Main' \ Green' : \A b \in Green' : rr[a] < rr[b]
    BY <1>10, <1>13
  <2> QED
    BY <2>1, <2>2, <2>3, <2>4 DEF Ends
<1>20. Boundary(rr)'
  <2>0. UNCHANGED <<gray, target>>
    BY <1>1 DEF gcVars
  <2>1. black' \in Main' /\ Main' # {}
    BY <1>1, <1>3, <1>6, <1>10
  <2>2. ASSUME NEW q \in Main'
        PROVE  /\ rr[q] < rr[black'] => GRAYP(q)' \/ q = target'
               /\ rr[q] > rr[black'] => ~GRAYP(q)' /\ q # target'
    <3>1. CASE q \in New
      <4>1. ~(rr[q] < rr[black'])
        <5>1. CASE Main = {}
          <6>1. black' = <<p, 1>> /\ rr[<<p, 1>>] <= rr[q] /\ rr[<<p, 1>>] \in Int /\ rr[q] \in Int
            BY <3>1, <5>1, <1>1, <1>3, <1>6, <1>13, <1>14 DEF IsFirst
          <6> QED
            BY <6>1
        <5>2. CASE Main # {}
          <6>1. black' \in Main
            BY <5>2, <1>1, <1>6
          <6>2. rr[black'] < rr[q] /\ rr[black'] \in Int /\ rr[q] \in Int
            BY <3>1, <6>1, <1>13
          <6> QED
            BY <6>2
        <5> QED
          BY <5>1, <5>2
      <4> QED
        BY <2>0, <3>1, <4>1, <1>10
    <3>2. CASE q \in Main
      <4>0. black' = black /\ black \in Main
        BY <3>2, <1>1, <1>6
      <4>1. /\ rk[q] < rk[black] => GRAYP(q) \/ q = target
            /\ rk[q] > rk[black] => ~GRAYP(q) /\ q # target
        BY <3>2, <1>0 DEF Lists, Boundary
      <4>2. rr[q] = rk[q] /\ rr[black] = rk[black] /\ (GRAYP(q)' <=> GRAYP(q))
        BY <3>2, <4>0, <1>10, <1>13
      <4> QED
        BY <2>0, <4>0, <4>1, <4>2
    <3> QED
      BY <3>1, <3>2, <1>10
  <2>3. gray # NULL => IsFirst(Main', rr, gray) /\ ~GREENP(gray)'
    <3> SUFFICES ASSUME gray # NULL
                 PROVE  IsFirst(Main', rr, gray) /\ ~GREENP(gray)'
      OBVIOUS
    <3>1. IsFirst(Main, rk, gray) /\ ~GREENP(gray)
      BY <1>0 DEF Lists, Boundary
    <3>2. gray \in Main /\ \A q \in Main : rk[gray] <= rk[q]
      BY <3>1 DEF IsFirst
    <3>3. \A q \in Main' : rr[gray] <= rr[q]
      <4>1. \A q \in New : rr[gray] < rr[q] /\ rr[q] \in Int /\ rr[gray] \in Int
        BY <3>2, <1>13
      <4>2. \A q \in New : rr[gray] <= rr[q]
        BY <4>1
      <4> QED
        BY <3>2, <4>2, <1>10, <1>13
    <3>4. ~GREENP(gray)'
      BY <2>0, <3>1, <3>2, <1>2, <1>4, <1>9 DEF GREENP
    <3> QED
      BY <3>2, <3>3, <3>4, <1>10 DEF IsFirst
  <2>4. gray = NULL => Colored(GRAY)' = {}
    BY <1>0, <1>10 DEF Lists, Boundary
  <2>5. gray' # NULL => IsFirst(Main', rr, gray') /\ ~GREENP(gray)'
    BY <2>0, <2>3
  <2>6. gray' = NULL => Colored(GRAY)' = {}
    BY <2>0, <2>4
  <2> QED
    BY <2>1, <2>2, <2>5, <2>6 DEF Boundary
<1>21. Scanning(rr)'
  <2> SUFFICES ASSUME gcpc = "scan", NEW q \in Main', rr[q] > rr[current]
               PROVE  ~GRAYP(q)'
    BY <1>1 DEF Scanning, gcVars
  <2>1. current \in Main
    BY <1>2 DEF Tracing
  <2>2. q \in Main => rk[q] > rk[current]
    BY <2>1, <1>13
  <2> QED
    BY <2>2, <1>0, <1>10 DEF Scanning
<1>22. Greying'
  <2>0. UNCHANGED <<gcpc, target, return, mark_count, gray, unmarked_color>> /\ (Linked' <=> Linked)
    BY <1>1 DEF gcVars, colorVars, Linked
  <2>1. ~Linked => target \in Group /\ target \in Object /\ target \notin New /\ WHITEP(target) /\ prev[target] = NULL
    BY <1>2, <1>4 DEF Greying
  <2>2. ~Linked => WHITEP(target)' /\ target' \in Group'
    BY <2>0, <2>1, <1>4, <1>9 DEF WHITEP
  <2>3. ~Linked => prev'[target] = NULL
    BY <2>1, <1>3, <1>15, <1>16, <1>17
  <2>4. black # NULL => black' # NULL /\ black' = black /\ last # NULL /\ last \in Main
    BY <1>1, <1>2, <1>6
  <2>5. gcpc = "back" => black' # NULL /\ next'[target] = black'
    <3> SUFFICES ASSUME gcpc = "back"
                 PROVE  black' # NULL /\ next'[target] = black'
      OBVIOUS
    <3>1. ~Linked /\ black # NULL /\ next[target] = black
      BY <1>2 DEF Greying, Linked
    <3>2. target \notin Main
      BY <2>1, <3>1 DEF Main
    <3> QED
      BY <2>1, <2>4, <3>1, <3>2, <1>15, <1>17
  <2>6. gcpc = "paint" => black' # NULL
    BY <2>4, <1>2 DEF Greying
  <2>7. ~Linked => /\ gray = NULL /\ (return = "vector" => mark_count = 1) /\ return # "scan"
    BY <1>2 DEF Greying
  <2>8. Linked => target = NULL
    BY <1>2 DEF Greying
  <2> QED
    BY <2>0, <2>2, <2>3, <2>5, <2>6, <2>7, <2>8 DEF Greying
<1>23. Tracing' /\ Coalescing'
  <2>1. UNCHANGED gcVars
    BY <1>1
  <2> QED
    BY <2>1, <1>2, <1>4, <1>10 DEF Tracing, Coalescing, gcVars
<1>24. Counts'
  BY <1>1, <1>2, <1>10 DEF Counts, countVars
<1>25. Locking'
  <2>1. free' # NULL /\ free_lock' = free_lock
    BY <1>1, <1>2, <1>3
  <2>2. mpc \in [Mutator -> {"run", "pages", "again", "pop", "wait", "oom"}]
    BY <1>2 DEF TypeOK
  <2> QED
    BY <2>1, <2>2, <1>1, <1>2 DEF Locking
<1>26. TypeOK'
  <2>1. {free, last, black, gray, white, current, target}' \subseteq Object \cup {NULL}
    <3>1. free' \in Object /\ last' \in Object /\ black' \in Object \cup {NULL}
      BY <1>1, <1>2, <1>3 DEF TypeOK
    <3> QED
      BY <3>1, <1>1, <1>2 DEF TypeOK, gcVars
  <2>2. color' \in [Object -> 0..3]
    BY <1>1, <1>2 DEF GREEN
  <2>3. /\ table' \in [Page -> {"EMPTY", "GROUP", "FREE"}]
        /\ mpc' \in [Mutator -> {"run", "pages", "again", "pop", "wait", "oom"}]
    BY <1>1, <1>2 DEF TypeOK
  <2> QED
    BY <2>1, <2>2, <2>3, <1>1, <1>2, <1>17 DEF TypeOK, colorVars, countVars, gcVars, Link
<1> QED
  BY <1>18, <1>19, <1>20, <1>21, <1>22, <1>23, <1>24, <1>25, <1>26 DEF IInv, Lists
-----------------------------------------------------------------------------
(***************************************************************************)
(* recycle_group_garbage appends the white list, all of it green now.      *)
(***************************************************************************)
LEMMA RecycleStep ==
  ASSUME IInv, recycle_group_garbage
  PROVE  IInv'
<1>0. PICK rk \in [Object -> Int] : Lists(rk) /\ Scanning(rk)
  BY DEF IInv
<1>1. /\ gcpc = "recycle" /\ white' = NULL /\ white_count' = 0 /\ gcpc' = "identify"
      /\ pages_left' = Page
      /\ color' = [o \in Object |-> IF o \in Members(white) THEN GREEN ELSE color[o]]
      /\ UNCHANGED <<gray, black_scanned_count, black_alloc_count, colorVars, free_lock,
                     table, mutVars, current, target, return, mark_count, page>>
      /\ Group' = Group
  BY DEF recycle_group_garbage, Group
<1>2. /\ TypeOK /\ Greying /\ Tracing /\ Coalescing /\ Counts /\ Locking /\ Linked
      /\ Main \subseteq Object /\ White \subseteq Object /\ Green \subseteq Main /\ White \cap Main = {}
      /\ NULL \notin Object /\ next \in [Object -> Link] /\ prev \in [Object -> Link]
      /\ Main \subseteq Group /\ White \subseteq Group /\ Group \subseteq Object
      /\ \A q \in Object : rk[q] \in Int
      /\ color \in [Object -> 0..3]
  BY <1>1, Sets, NullFacts DEF IInv, TypeOK, Linked
<1>3. /\ target = NULL /\ Colored(GRAY) = {} /\ White = Colored(unmarked_color)
      /\ Main = {o \in Group : color[o] # unmarked_color}
  BY <1>1, <1>2, Sets DEF Greying, Tracing, WHITEP
<1>4. Members(white) = White
  BY <1>0, <1>2, Visits
<1>5. /\ \A o \in White : color'[o] = GREEN
      /\ \A o \in Object : o \notin White => color'[o] = color[o]
  BY <1>1, <1>2, <1>4
<1>6. /\ Main' = Main \cup White /\ White' = {} /\ Green' = Green \cup White
      /\ Colored(GRAY)' = {} /\ Colored(unmarked_color)' = {}
      /\ Colored(marked_color)' = Colored(marked_color)
      /\ \A q \in Main' : ~GRAYP(q)' /\ q # target'
  <2>1. /\ marked_color # unmarked_color /\ marked_color # GRAY /\ marked_color # GREEN
        /\ unmarked_color # GRAY /\ GRAY # GREEN /\ unmarked_color # GREEN
    BY <1>2, Colors
  <2>2. UNCHANGED <<marked_color, unmarked_color, target>> /\ gcpc' # "paint"
    BY <1>1 DEF colorVars
  <2>3. White = {o \in Group : color[o] = unmarked_color} /\ {o \in Group : color[o] = GRAY} = {}
    BY <1>3 DEF Colored
  <2>4. /\ {o \in Group : color'[o] = GRAY} = {}
        /\ {o \in Group : color'[o] = unmarked_color} = {}
        /\ {o \in Group : color'[o] = marked_color} = {o \in Group : color[o] = marked_color}
        /\ {o \in Group : color'[o] = GREEN} = {o \in Group : color[o] = GREEN} \cup White
    BY <1>2, <1>5, <2>1, <2>3
  <2>5. /\ Green' = Green \cup White /\ Colored(GRAY)' = {} /\ Colored(unmarked_color)' = {}
        /\ Colored(marked_color)' = Colored(marked_color)
    BY <1>1, <2>2, <2>4 DEF Green, Colored
  <2>6. White' = {}
    BY <2>5 DEF White
  <2>7. Main' = {o \in Group : color'[o] # unmarked_color}
    BY <1>1, <2>2 DEF Main, WHITEP
  <2>8. Main' = Group /\ Main' = Main \cup White
    BY <2>3, <2>4, <2>7, <1>3
  <2>9. \A q \in Main' : ~GRAYP(q)' /\ q # target'
    BY <2>2, <2>4, <2>8, <1>2, <1>3 DEF GRAYP
  <2> QED
    BY <2>5, <2>6, <2>8, <2>9
<1>7. /\ Chain(Main, next, prev, rk) /\ Chain(White, next, prev, rk)
      /\ IsFirst(White, rk, white) /\ IsLast(Main, rk, last) /\ IsFirst(Green, rk, free)
      /\ IsFirst(Main, rk, black)
      /\ \A o \in Main \ Green : \A q \in Green : rk[o] < rk[q]
      /\ gray # NULL => IsFirst(Main, rk, gray) /\ ~GREENP(gray)
  <2>1. IsFirst(Main, rk, black)
    BY <1>0, <1>1, <1>2, <1>3, BlackFirst
  <2> QED
    BY <2>1, <1>0 DEF Lists, Chains, Ends, Boundary
<1>8. /\ white = NULL => White = {}
      /\ white # NULL => white \in White /\ \A q \in White : rk[white] <= rk[q]
  BY <1>2, <1>7 DEF IsFirst
<1>9. gray' # NULL => gray \in Main /\ ~GREENP(gray)'
  <2>1. gray # NULL => gray \in Main /\ ~GREENP(gray)
    BY <1>7, <1>2 DEF IsFirst
  <2> QED
    BY <2>1, <1>1, <1>2, <1>5 DEF GREENP
<1>10. \E rr \in [Object -> Int] :
         /\ Chains(rr)' /\ Ends(rr)' /\ IsFirst(Main', rr, black')
         /\ gray' # NULL => IsFirst(Main', rr, gray')
         /\ {free', last', black'} \subseteq Object \cup {NULL}
         /\ next' \in [Object -> Link] /\ prev' \in [Object -> Link]
         /\ free # NULL => free' # NULL
  <2>1. CASE white = NULL
    <3>1. UNCHANGED <<next, prev, free, black, last>> /\ White = {} /\ Main' = Main /\ Green' = Green
      BY <2>1, <1>6, <1>8 DEF recycle_group_garbage
    <3>2. Chain(White', next', prev', rk)
      BY <1>6 DEF Chain
    <3>3. Chains(rk)' /\ Ends(rk)' /\ IsFirst(Main', rk, black')
      BY <3>1, <3>2, <1>1, <1>6, <1>7 DEF Chains, Ends, IsFirst
    <3>4. {free', last', black'} \subseteq Object \cup {NULL}
      BY <3>1, <1>2 DEF TypeOK
    <3> QED
      BY <3>1, <3>3, <3>4, <1>1, <1>2, <1>7
  <2>2. CASE white # NULL
    <3>1. /\ next' = SetLink(next, last, white) /\ prev' = [prev EXCEPT ![white] = last]
          /\ free' = (IF free = NULL THEN white ELSE free)
          /\ black' = (IF black = NULL THEN white ELSE black)
          /\ last' = CHOOSE o \in White : next[o] = NULL
      BY <2>2, <1>4 DEF recycle_group_garbage
    <3>2. white \in White /\ white \in Object /\ \A q \in White : rk[white] <= rk[q]
      BY <2>2, <1>2, <1>8
    <3>3. /\ Main # {} => last \in Main /\ black \in Main /\ \A q \in Main : rk[q] <= rk[last]
          /\ Main # {} => \A q \in Main : rk[black] <= rk[q]
          /\ Main = {} => last = NULL /\ black = NULL
      BY <1>7 DEF IsFirst, IsLast
    <3>4. PICK base \in Int : \A q \in Main : rk[q] <= base
      <4>1. CASE Main = {}
        BY <4>1
      <4>2. CASE Main # {}
        BY <4>2, <1>2, <3>3
      <4> QED
        BY <4>1, <4>2
    <3>5. PICK rr \in [Object -> Int] :
            /\ \A o \in White : rr[o] = base + 1 + (rk[o] - rk[white])
            /\ \A o \in Object : o \notin White => rr[o] = rk[o]
      <4> DEFINE r == [o \in Object |-> IF o \in White THEN base + 1 + (rk[o] - rk[white]) ELSE rk[o]]
      <4>1. /\ r \in [Object -> Int] /\ \A o \in White : r[o] = base + 1 + (rk[o] - rk[white])
            /\ \A o \in Object : o \notin White => r[o] = rk[o]
        BY <1>2, <3>2
      <4> HIDE DEF r
      <4> QED
        BY <4>1
    <3>6. /\ \A o, q \in White : rr[o] <= rr[q] <=> rk[o] <= rk[q]
          /\ \A o \in Main : rr[o] = rk[o] /\ rr[o] \in Int
          /\ \A o \in Main, q \in White : rr[o] < rr[q]
          /\ \A q \in White : rr[q] \in Int
      <4>1. \A o, q \in White : rr[o] <= rr[q] <=> rk[o] <= rk[q]
        <5> TAKE o, q \in White
        <5>1. /\ rr[o] = base + 1 + (rk[o] - rk[white]) /\ rr[q] = base + 1 + (rk[q] - rk[white])
              /\ rk[o] \in Int /\ rk[q] \in Int /\ rk[white] \in Int
          BY <1>2, <3>2, <3>5
        <5> QED
          BY <5>1
      <4>2. \A o \in Main : rr[o] = rk[o] /\ rr[o] \in Int
        BY <1>2, <3>5
      <4>3. ASSUME NEW o \in Main, NEW q \in White
            PROVE  rr[o] < rr[q]
        <5>1. /\ rr[o] = rk[o] /\ rk[o] \in Int /\ rk[o] <= base
              /\ rr[q] = base + 1 + (rk[q] - rk[white]) /\ rk[q] \in Int /\ rk[white] \in Int
              /\ rk[white] <= rk[q]
          BY <1>2, <3>2, <3>4, <3>5
        <5> QED
          BY <5>1
      <4> QED
        BY <4>1, <4>2, <4>3, <1>2
    <3>7. /\ next' \in [Object -> Link] /\ prev' \in [Object -> Link]
          /\ \A o \in Object : next'[o] = IF o = last THEN white ELSE next[o]
          /\ \A o \in Object : prev'[o] = IF o = white THEN last ELSE prev[o]
      <4>0. last \in Link /\ white \in Link
        BY <1>2, Sets
      <4>1. CASE last = NULL
        <5>1. next' = next
          BY <4>1, <3>1 DEF SetLink
        <5> QED
          BY <4>0, <4>1, <5>1, <3>1, <3>2, <1>2, ZenonT(30)
      <4>2. CASE last # NULL
        <5>1. next' = [next EXCEPT ![last] = white] /\ last \in Object
          BY <4>0, <4>2, <3>1 DEF SetLink, Link
        <5> QED
          BY <4>0, <5>1, <3>1, <3>2, <1>2
      <4> QED
        BY <4>1, <4>2
    <3>8. Chain(White, next, prev, rr) /\ Chain(Main, next, prev, rr)
      <4>1. Chain(White, next, prev, rr)
        <5>1. PICK S : S = White
          OBVIOUS
        <5>2. S \in SUBSET Object /\ Chain(S, next, prev, rk) /\ \A o, q \in S : rr[o] <= rr[q] <=> rk[o] <= rk[q]
          BY <5>1, <1>2, <1>7, <3>6
        <5>3. Chain(S, next, prev, rr)
          BY <5>2, <1>2, ChainOrder
        <5> QED
          BY <5>1, <5>3
      <4>2. Chain(Main, next, prev, rr)
        BY <3>6, <1>7 DEF Chain
      <4> QED
        BY <4>1, <4>2
    <3>9. Chains(rr)'
      <4>1. PICK V, S, T, l, h, n1, p1 : /\ V = Main' /\ S = Main /\ T = White /\ l = last
                                         /\ h = white /\ n1 = next' /\ p1 = prev'
        OBVIOUS
      <4>2. IsLast(S, rr, l) /\ IsFirst(T, rr, h)
        BY <4>1, <1>7, <3>6 DEF IsLast, IsFirst
      <4>3. /\ \A o \in Main : next'[o] = IF o = last THEN white ELSE next[o]
            /\ \A o \in Main : prev'[o] = prev[o]
            /\ \A q \in White : next'[q] = next[q]
            /\ \A q \in White : prev'[q] = IF q = white THEN last ELSE prev[q]
        BY <1>2, <3>2, <3>3, <3>7
      <4>4. IsJoin(V, S, T, l, h, next, prev, n1, p1, rr)
        BY <4>1, <4>2, <4>3, <1>2, <1>6, <3>2, <3>6, <3>7 DEF IsJoin
      <4>5. Chain(S, next, prev, rr) /\ Chain(T, next, prev, rr)
        BY <4>1, <3>8
      <4>6. Chain(V, n1, p1, rr)
        BY <4>4, <4>5, ChainJoin
      <4>7. Chain(White', next', prev', rr)
        BY <1>6 DEF Chain
      <4> QED
        BY <4>1, <4>6, <4>7 DEF Chains
    <3>10. last' \in White /\ IsLast(White, rr, last')
      <4>1. PICK S : S = White
        OBVIOUS
      <4>2. S \in SUBSET Object /\ Chain(S, next, prev, rr) /\ white \in S
        BY <4>1, <1>2, <3>2, <3>8
      <4>3. (\E o \in S : next[o] = NULL) /\ \A o \in S : next[o] = NULL => IsLast(S, rr, o)
        BY <4>2, <1>2, ChainLast
      <4>4. last' \in S /\ next[last'] = NULL
        BY <4>1, <4>3, <3>1
      <4> QED
        BY <4>1, <4>3, <4>4
    <3>11. Ends(rr)'
      <4>1. IsFirst(White', rr, white')
        BY <1>1, <1>6 DEF IsFirst
      <4>2. IsLast(Main', rr, last')
        <5>1. \A q \in White : rr[q] <= rr[last']
          BY <3>10 DEF IsLast
        <5>2. \A q \in Main : rr[q] < rr[last'] /\ rr[q] \in Int /\ rr[last'] \in Int
          BY <3>6, <3>10
        <5> QED
          BY <5>1, <5>2, <3>10, <1>6 DEF IsLast
      <4>3. IsFirst(Green', rr, free')
        <5>1. CASE free = NULL
          <6>1. Green = {}
            BY <5>1, <1>2, <1>7 DEF IsFirst
          <6> QED
            BY <5>1, <6>1, <1>6, <3>1, <3>2, <3>6 DEF IsFirst
        <5>2. CASE free # NULL
          <6>1. free \in Green /\ free \in Main /\ \A q \in Green : rk[free] <= rk[q]
            BY <5>2, <1>2, <1>7 DEF IsFirst
          <6>2. \A q \in Green : rr[free] <= rr[q]
            BY <6>1, <1>2, <3>6
          <6>3. \A q \in White : rr[free] <= rr[q]
            BY <6>1, <3>6
          <6> QED
            BY <5>2, <6>1, <6>2, <6>3, <1>6, <3>1 DEF IsFirst
        <5> QED
          BY <5>1, <5>2
      <4>4. \A a \in Main' \ Green' : \A b \in Green' : rr[a] < rr[b]
        <5> SUFFICES ASSUME NEW a \in Main, a \notin Green, NEW b \in Green \cup White
                     PROVE  rr[a] < rr[b]
          BY <1>6
        <5>1. b \in Green => rk[a] < rk[b] /\ b \in Main
          BY <1>2, <1>7
        <5> QED
          BY <5>1, <3>6
      <4> QED
        BY <4>1, <4>2, <4>3, <4>4 DEF Ends
    <3>12. ASSUME NEW h \in Main, \A q \in Main : rk[h] <= rk[q]
           PROVE  IsFirst(Main', rr, h)
      <4>1. \A q \in Main : rr[h] <= rr[q]
        BY <3>6, <3>12
      <4>2. \A q \in White : rr[h] <= rr[q]
        BY <3>6
      <4> QED
        BY <4>1, <4>2, <1>6 DEF IsFirst
    <3>13. IsFirst(Main', rr, black')
      <4>1. CASE Main = {}
        <5>1. black' = white /\ Main' = White
          BY <4>1, <3>1, <3>3, <1>6
        <5> QED
          BY <5>1, <3>2, <3>6 DEF IsFirst
      <4>2. CASE Main # {}
        <5>1. black' = black /\ black \in Main
          BY <4>2, <3>1, <3>3, <1>2
        <5> QED
          BY <4>2, <5>1, <3>3, <3>12
      <4> QED
        BY <4>1, <4>2
    <3>14. gray' # NULL => IsFirst(Main', rr, gray')
      <4>1. gray # NULL => gray \in Main /\ \A q \in Main : rk[gray] <= rk[q]
        BY <1>7, <1>2 DEF IsFirst
      <4>2. gray # NULL => IsFirst(Main', rr, gray)
        BY <4>1, <3>12
      <4> QED
        BY <4>2, <1>1
    <3>15. {free', last', black'} \subseteq Object \cup {NULL} /\ (free # NULL => free' # NULL)
      <4>1. free' \in Object \cup {NULL} /\ black' \in Object \cup {NULL}
        BY <3>1, <3>2, <1>2 DEF TypeOK
      <4>2. last' \in Object
        BY <3>10, <1>2
      <4> QED
        BY <4>1, <4>2, <3>1
    <3> QED
      BY <3>7, <3>9, <3>11, <3>13, <3>14, <3>15
  <2> QED
    BY <2>1, <2>2
<1>11. PICK rr \in [Object -> Int] :
         /\ Chains(rr)' /\ Ends(rr)' /\ IsFirst(Main', rr, black')
         /\ gray' # NULL => IsFirst(Main', rr, gray')
         /\ {free', last', black'} \subseteq Object \cup {NULL}
         /\ next' \in [Object -> Link] /\ prev' \in [Object -> Link]
         /\ free # NULL => free' # NULL
  BY <1>10
<1>12. Boundary(rr)'
  <2>1. /\ Main' = {} => black' = NULL
        /\ Main' # {} => black' \in Main'
        /\ \A q \in Main' : rr[black'] <= rr[q]
    BY <1>11 DEF IsFirst
  <2>2. \A q \in Main' : ~(rr[q] < rr[black'])
    <3> TAKE q \in Main'
    <3>1. q \in Object /\ black' \in Object /\ rr[q] \in Int /\ rr[black'] \in Int
      BY <2>1, <1>2, <1>6
    <3> QED
      BY <2>1, <3>1
  <2> QED
    BY <2>1, <2>2, <1>6, <1>9, <1>11 DEF Boundary
<1>13. Scanning(rr)' /\ Coalescing' /\ Tracing'
  BY <1>1, <1>6 DEF Scanning, Coalescing, Tracing
<1>14. Greying'
  BY <1>1, <1>3 DEF Greying, Linked
<1>15. Counts'
  BY <1>1, <1>2, <1>6, FS_EmptySet DEF Counts
<1>16. Locking'
  BY <1>1, <1>2, <1>11 DEF Locking, mutVars
<1>17. TypeOK'
  <2>1. {free, last, black, gray, white, current, target}' \subseteq Object \cup {NULL}
    BY <1>1, <1>2, <1>11 DEF TypeOK
  <2>2. color' \in [Object -> 0..3]
    BY <1>1, <1>2 DEF GREEN
  <2>3. {white_count, black_scanned_count, black_alloc_count}' \subseteq Nat
    BY <1>1, <1>2 DEF TypeOK
  <2> QED
    BY <2>1, <2>2, <2>3, <1>1, <1>2, <1>11 DEF TypeOK, colorVars, mutVars, Link
<1> QED
  BY <1>11, <1>12, <1>13, <1>14, <1>15, <1>16, <1>17 DEF IInv, Lists
-----------------------------------------------------------------------------
(***************************************************************************)
(* identify_single_free_page unlinks the objects of an all-green page.     *)
(***************************************************************************)
ListState == [next : [Object -> Link], prev : [Object -> Link],
              free : Link, black : Link, last : Link]

(* Removing an object yields links again. *)
LEMMA RemovalTyped ==
  ASSUME NEW l \in ListState, NEW o \in Object
  PROVE  remove_object_from_free_list(l, o) \in ListState
<1>1. /\ l.next \in [Object -> Link] /\ l.prev \in [Object -> Link]
      /\ l.free \in Link /\ l.black \in Link /\ l.last \in Link
  BY DEF ListState
<1>2. l.next[o] \in Link /\ l.prev[o] \in Link
  BY <1>1
<1>3. ASSUME NEW f \in [Object -> Link], NEW a \in Link, NEW b \in Link
      PROVE  SetLink(f, a, b) \in [Object -> Link]
  BY DEF SetLink, Link
<1>4. /\ SetLink(l.next, l.prev[o], l.next[o]) \in [Object -> Link]
      /\ SetLink(l.prev, l.next[o], l.prev[o]) \in [Object -> Link]
  BY <1>1, <1>2, <1>3
<1> QED
  BY <1>1, <1>2, <1>4 DEF remove_object_from_free_list, ListState

Before == [next |-> next, prev |-> prev, free |-> free, black |-> black, last |-> last]

Removal(p) ==
  CHOOSE l : l = [i \in 0..ObjectsPerPage |->
                    IF i = 0 THEN Before ELSE remove_object_from_free_list(l[i - 1], <<p, i>>)]

(* The removals one after the other, as WithoutObjects defines them. *)
LEMMA RemovalSteps ==
  ASSUME TypeOK, NEW p \in Page
  PROVE  /\ Removal(p) \in [0..ObjectsPerPage -> ListState]
         /\ Removal(p)[0] = Before
         /\ \A i \in 1..ObjectsPerPage :
              Removal(p)[i] = remove_object_from_free_list(Removal(p)[i - 1], <<p, i>>)
         /\ WithoutObjects(p) = Removal(p)[ObjectsPerPage]
<1> DEFINE N == ObjectsPerPage
           f == [x \in (1..N) \X ListState |-> remove_object_from_free_list(x[2], <<p, x[1]>>)]
           D(l) == [i \in 0..N |->
                      IF i = 0 THEN Before ELSE remove_object_from_free_list(l[i - 1], <<p, i>>)]
<1>0. N \in Nat /\ N >= 1
  BY ObjectsPerPageAssumption
<1>1. \A i \in 1..N : <<p, i>> \in Object
  BY PageObjects
<1>2. Before \in ListState
  BY DEF TypeOK, Before, ListState, Link
<1>3. f \in [(1..N) \X ListState -> ListState]
  BY <1>1, RemovalTyped
<1>4. \A i \in 1..N, l \in ListState : f[<<i, l>>] = remove_object_from_free_list(l, <<p, i>>)
  OBVIOUS
<1> HIDE DEF f
<1>5. PICK w \in [0..N -> ListState] : Follows(w, N, Before, f)
  BY <1>0, <1>2, <1>3, RecursionExists
<1>6. w[0] = Before
  BY <1>5 DEF Follows
<1>7. ASSUME NEW i \in 1..N
      PROVE  w[i] = remove_object_from_free_list(w[i - 1], <<p, i>>)
  <2>1. w[i - 1] \in ListState
    BY <1>0
  <2>2. w[i] = f[<<i, w[i - 1]>>]
    BY <1>5 DEF Follows
  <2> QED
    BY <2>1, <2>2, <1>4
<1>8. w = D(w)
  <2>1. \A i \in 0..N : w[i] = D(w)[i]
    BY <1>0, <1>6, <1>7
  <2> QED
    BY <2>1
<1>9. Removal(p) = CHOOSE l : l = D(l)
  BY DEF Removal
<1>10. Removal(p) = D(Removal(p))
  <2> HIDE DEF D
  <2> QED
    BY <1>8, <1>9
<1>11. /\ DOMAIN Removal(p) = 0..N /\ Removal(p)[0] = Before
       /\ \A i \in 1..N : Removal(p)[i] = remove_object_from_free_list(Removal(p)[i - 1], <<p, i>>)
  BY <1>0, <1>10
<1>12. WithoutObjects(p) = Removal(p)[N]
  BY DEF WithoutObjects, Removal, Before
<1>13. Removal(p) \in [0..N -> ListState]
  <2> DEFINE T == {i \in Nat : i <= N => Removal(p)[i] \in ListState}
  <2>1. 0 \in T
    BY <1>2, <1>11
  <2>2. ASSUME NEW i \in Nat, i \in T
        PROVE  i + 1 \in T
    <3> SUFFICES ASSUME i + 1 <= N
                 PROVE  Removal(p)[i + 1] \in ListState
      OBVIOUS
    <3>1. i + 1 \in 1..N /\ (i + 1) - 1 = i /\ i <= N
      BY <1>0
    <3>2. Removal(p)[i] \in ListState
      BY <2>2, <3>1
    <3>3. Removal(p)[i + 1] = remove_object_from_free_list(Removal(p)[i], <<p, i + 1>>)
      BY <3>1, <1>11
    <3> QED
      BY <3>1, <3>2, <3>3, <1>1, RemovalTyped
  <2>3. Nat \subseteq T
    <3> HIDE DEF T
    <3> QED
      BY <2>1, <2>2, AllNumbers
  <2>4. \A i \in 0..N : Removal(p)[i] \in ListState
    BY <2>3, <1>0
  <2> QED
    BY <2>4, <1>10, <1>11
<1> QED
  BY <1>11, <1>12, <1>13

(* The list l has the members R, of which G are the green ones at its end, *)
(* and black is its first.                                                 *)
Trimmed(l, R, G, rk) ==
  /\ Chain(R, l.next, l.prev, rk)
  /\ IsFirst(G, rk, l.free) /\ IsFirst(R, rk, l.black) /\ IsLast(R, rk, l.last)

IsDrop(l, R, G, r, g, o, rk) ==
  /\ l \in ListState /\ rk \in [Object -> Int]
  /\ R \in SUBSET Object /\ G \in SUBSET R /\ o \in G
  /\ r = R \ {o} /\ g = G \ {o}
  /\ \A a \in R \ G : \A b \in G : rk[a] < rk[b]

(* One removal. *)
LEMMA RemoveOne ==
  ASSUME NEW l, NEW R, NEW G, NEW r, NEW g, NEW o, NEW rk,
         Trimmed(l, R, G, rk), IsDrop(l, R, G, r, g, o, rk)
  PROVE  Trimmed(remove_object_from_free_list(l, o), r, g, rk)
<1>1. PICK nx, pv, n, p : nx = l.next /\ pv = l.prev /\ n = nx[o] /\ p = pv[o]
  OBVIOUS
<1>2. PICK nn, pp : nn = SetLink(nx, p, n) /\ pp = SetLink(pv, n, p)
  OBVIOUS
<1>3. /\ nx \in [Object -> Link] /\ pv \in [Object -> Link] /\ rk \in [Object -> Int]
      /\ R \in SUBSET Object /\ G \in SUBSET R /\ o \in G /\ o \in R
      /\ \A a \in R \ G : \A b \in G : rk[a] < rk[b]
  BY <1>1 DEF IsDrop, ListState
<1>4. Chain(R, nx, pv, rk)
  BY <1>1 DEF Trimmed
<1>5. Chain(r, nn, pp, rk)
  <2>1. IsUnlink(R, r, o, nx, pv, nn, pp, rk)
    BY <1>1, <1>2, <1>3 DEF IsUnlink, IsDrop
  <2> QED
    BY <2>1, <1>4, ChainRemove
<1>6. PICK f, b, e : f = l.free /\ b = l.black /\ e = l.last
  OBVIOUS
<1>7. IsFirst(G, rk, f) /\ IsFirst(R, rk, b) /\ IsLast(R, rk, e)
  BY <1>6 DEF Trimmed
<1>8. IsFirst(G \ {o}, rk, IF o = f THEN nx[o] ELSE f)
  BY <1>3, <1>4, <1>7, FirstRemove
<1>9. IsFirst(R \ {o}, rk, IF o = b THEN nx[o] ELSE b)
  <2>1. R \in SUBSET R /\ \A a \in R \ R : \A c \in R : rk[a] < rk[c]
    OBVIOUS
  <2> QED
    BY <2>1, <1>3, <1>4, <1>7, FirstRemove
<1>10. IsLast(R \ {o}, rk, IF o = e THEN pv[o] ELSE e) /\ (o = e => nx[o] = NULL)
  BY <1>3, <1>4, <1>7, LastRemove, ZenonT(60)
<1>11. PICK d : d = remove_object_from_free_list(l, o)
  OBVIOUS
<1>12. /\ d.next = nn /\ d.prev = pp
       /\ d.free = (IF o = f THEN n ELSE f)
       /\ d.black = (IF o = b THEN n ELSE b)
       /\ d.last = (IF o # e THEN e ELSE IF n = NULL THEN p ELSE n)
  BY <1>1, <1>2, <1>6, <1>11 DEF remove_object_from_free_list
<1>13. d.last = IF o = e THEN pv[o] ELSE e
  BY <1>1, <1>10, <1>12
<1>14. r = R \ {o} /\ g = G \ {o}
  BY DEF IsDrop
<1>15. Trimmed(d, r, g, rk)
  BY <1>1, <1>5, <1>8, <1>9, <1>10, <1>12, <1>13, <1>14 DEF Trimmed
<1> QED
  BY <1>11, <1>15

(* After the last one exactly the objects of the page are gone. *)
LEMMA RemoveAll ==
  ASSUME TypeOK, NEW p \in Page, NEW rk \in [Object -> Int],
         NEW R \in SUBSET Object, NEW G \in SUBSET R, ObjectsOf(p) \subseteq G,
         Trimmed(Before, R, G, rk), \A a \in R \ G : \A b \in G : rk[a] < rk[b]
  PROVE  /\ WithoutObjects(p) \in ListState
         /\ Trimmed(WithoutObjects(p), R \ ObjectsOf(p), G \ ObjectsOf(p), rk)
<1> DEFINE N == ObjectsPerPage
           Gone(i) == {o \in Object : o[1] = p /\ o[2] <= i}
           w == Removal(p)
           T == {i \in Nat : i <= N => Trimmed(w[i], R \ Gone(i), G \ Gone(i), rk)}
<1>0. N \in Nat /\ N >= 1
  BY ObjectsPerPageAssumption
<1>1. /\ w \in [0..N -> ListState] /\ w[0] = Before
      /\ \A i \in 1..N : w[i] = remove_object_from_free_list(w[i - 1], <<p, i>>)
      /\ WithoutObjects(p) = w[N]
  BY RemovalSteps
<1>2. /\ \A o \in Object : o[2] \in 1..N /\ o = <<o[1], o[2]>>
      /\ \A o \in Object : o \in ObjectsOf(p) <=> o[1] = p
      /\ \A i \in 1..N : <<p, i>> \in Object /\ <<p, i>>[1] = p /\ <<p, i>>[2] = i
      /\ ObjectsOf(p) \subseteq Object
  BY PageObjects
<1> HIDE DEF w
<1>3. 0 \in T
  <2>1. Gone(0) = {}
    BY <1>0, <1>2
  <2>2. R \ Gone(0) = R /\ G \ Gone(0) = G
    BY <2>1
  <2> HIDE DEF Gone
  <2> QED
    BY <2>2, <1>1
<1>4. ASSUME NEW i \in Nat, i \in T
      PROVE  i + 1 \in T
  <2> HIDE DEF Gone
  <2> SUFFICES ASSUME i + 1 <= N
               PROVE  Trimmed(w[i + 1], R \ Gone(i + 1), G \ Gone(i + 1), rk)
    OBVIOUS
  <2> USE DEF Gone
  <2>1. i \in 0..N /\ i + 1 \in 1..N /\ (i + 1) - 1 = i /\ i <= N
    BY <1>0
  <2>2. PICK l, o : l = w[i] /\ o = <<p, i + 1>>
    OBVIOUS
  <2>2b. PICK A, B : A = R \ Gone(i) /\ B = G \ Gone(i)
    OBVIOUS
  <2>2c. PICK a, b : a = R \ Gone(i + 1) /\ b = G \ Gone(i + 1)
    OBVIOUS
  <2>3. o \in Object /\ o[1] = p /\ o[2] = i + 1 /\ o \in G /\ o \notin Gone(i)
    <3>1. o \in Object /\ o[1] = p /\ o[2] = i + 1
      BY <2>1, <2>2, <2>2b, <2>2c, <1>2
    <3>2. o \in G
      BY <3>1, <1>2
    <3> QED
      BY <3>1, <3>2
  <2>4. Gone(i + 1) = Gone(i) \cup {o}
    <3>1. ASSUME NEW q \in Object
          PROVE  q[1] = p /\ q[2] <= i + 1 <=> (q[1] = p /\ q[2] <= i) \/ q = o
      <4>1. q[2] \in Int /\ q = <<q[1], q[2]>> /\ o = <<p, i + 1>>
        BY <1>2, <2>2, <2>2b, <2>2c
      <4>2. q[2] <= i + 1 <=> q[2] <= i \/ q[2] = i + 1
        BY <4>1
      <4> QED
        BY <4>1, <4>2, <2>3
    <3> QED
      BY <3>1, <2>3
  <2>5. Trimmed(l, A, B, rk)
    <3> HIDE DEF Gone
    <3> QED
      BY <1>4, <2>1, <2>2, <2>2b, <2>2c
  <2>6. IsDrop(l, A, B, a, b, o, rk)
    <3>1. l \in ListState
      BY <2>1, <2>2, <2>2b, <2>2c, <1>1
    <3> HIDE DEF Gone
    <3>2. o \in B /\ A \in SUBSET Object /\ B \in SUBSET A /\ a = A \ {o} /\ b = B \ {o}
      BY <2>2, <2>2b, <2>2c, <2>3, <2>4
    <3>3. \A x \in A \ B : \A y \in B : rk[x] < rk[y]
      BY <2>2, <2>2b, <2>2c
    <3> QED
      BY <3>1, <3>2, <3>3 DEF IsDrop
  <2>7. Trimmed(remove_object_from_free_list(l, o), a, b, rk)
    BY <2>5, <2>6, RemoveOne
  <2>8. w[i + 1] = remove_object_from_free_list(l, o)
    BY <2>1, <2>2, <2>2b, <2>2c, <1>1
  <2> HIDE DEF Gone
  <2> QED
    BY <2>2, <2>2b, <2>2c, <2>7, <2>8
<1>5. N \in T
  <2>1. Nat \subseteq T
    <3> HIDE DEF T
    <3> QED
      BY <1>3, <1>4, AllNumbers
  <2> HIDE DEF T
  <2> QED
    BY <2>1, <1>0
<1>6. Gone(N) = ObjectsOf(p)
  <2>1. \A o \in Object : o[2] <= N
    BY <1>0, <1>2
  <2> QED
    BY <2>1, <1>2
<1>7. Trimmed(w[N], R \ Gone(N), G \ Gone(N), rk)
  <2> HIDE DEF Gone
  <2> QED
    BY <1>0, <1>5
<1>8. w[N] \in ListState
  BY <1>0, <1>1
<1> HIDE DEF Gone
<1> QED
  BY <1>1, <1>6, <1>7, <1>8

(* The second look under the lock decides; what it unlinks was all green. *)
LEMMA IdentifyStep ==
  ASSUME IInv, identify_single_free_page
  PROVE  IInv'
<1>0. PICK rk \in [Object -> Int] : Lists(rk) /\ Scanning(rk)
  BY DEF IInv
<1>1. /\ gcpc = "free" /\ free_lock = NULL /\ page' = NULL /\ gcpc' = "identify"
      /\ UNCHANGED <<color, gray, white, countVars, colorVars, free_lock, mutVars, current,
                     target, return, mark_count, pages_left>>
  BY DEF identify_single_free_page
<1>2. /\ TypeOK /\ Greying /\ Tracing /\ Coalescing /\ Counts /\ Locking /\ Linked
      /\ Main \subseteq Object /\ White \subseteq Object /\ Green \subseteq Main
      /\ NULL \notin Object /\ NULL \notin Mutator
      /\ next \in [Object -> Link] /\ prev \in [Object -> Link]
      /\ Main \subseteq Group /\ Group \subseteq Object
      /\ \A q \in Object : rk[q] \in Int
      /\ table \in [Page -> {"EMPTY", "GROUP", "FREE"}]
  BY <1>1, Sets, NullFacts DEF IInv, TypeOK, Linked
<1>3. /\ target = NULL /\ Colored(GRAY) = {} /\ Colored(unmarked_color) = {} /\ White = {}
      /\ Main = {o \in Group : color[o] # unmarked_color}
      /\ page \in Page /\ table[page] = "GROUP"
  BY <1>1, <1>2, Sets DEF Greying, Tracing, Coalescing, WHITEP
<1>4. Main = Group
  BY <1>3 DEF Colored
<1>5. Locking'
  BY <1>1, <1>2 DEF Locking, mutVars
<1>6. CASE ~all_green_page(page)
  <2>1. UNCHANGED <<next, prev, free, black, last, table>>
    BY <1>6 DEF identify_single_free_page
  <2>2. Kept
    BY <2>1, <1>1 DEF Kept, headerVars, groupVars, Group
  <2>3. Lists(rk)'
    BY <2>2, <1>0, ListsKept
  <2>4. Scanning(rk)' /\ Coalescing' /\ Greying'
    BY <1>1, <1>3 DEF Scanning, Coalescing, Greying, Linked
  <2>5. Tracing'
    BY <2>2, <1>1, <1>3, SetsKept DEF Tracing
  <2>6. Counts'
    BY <2>2, <1>1, <1>2, SetsKept DEF Counts, countVars
  <2>7. TypeOK'
    BY <2>1, <1>1, <1>2 DEF TypeOK, countVars, colorVars, mutVars
  <2> QED
    BY <2>3, <2>4, <2>5, <2>6, <2>7, <1>5 DEF IInv
<1>7. CASE all_green_page(page)
  <2> DEFINE Old == ObjectsOf(page)
  <2>1. PICK l : /\ l = WithoutObjects(page) /\ next' = l.next /\ prev' = l.prev
                 /\ free' = l.free /\ black' = l.black /\ last' = l.last
                 /\ table' = [table EXCEPT ![page] = "FREE"]
    BY <1>7 DEF identify_single_free_page
  <2>2. /\ Old \subseteq Object /\ \A o \in Object : o \in Old <=> o[1] = page
        /\ \A o \in Object : o[1] \in Page
    BY <1>3, PageObjects
  <2>3. Old \subseteq Green
    <3>1. Old \subseteq Group
      BY <2>2, <1>3 DEF Group
    <3>2. \A o \in Old : color[o] = GREEN
      BY <1>7 DEF all_green_page, GREENP
    <3> HIDE DEF Old
    <3> QED
      BY <3>1, <3>2 DEF Green, Colored
  <2>4. Group' = Group \ Old
    <3>1. \A q \in Page : table'[q] = "GROUP" <=> table[q] = "GROUP" /\ q # page
      BY <2>1, <1>2
    <3> HIDE DEF Old
    <3> QED
      BY <2>2, <3>1 DEF Group
  <2>5. /\ IsFirst(Main, rk, black) /\ IsFirst(Green, rk, free) /\ IsLast(Main, rk, last)
        /\ \A a \in Main \ Green : \A b \in Green : rk[a] < rk[b]
        /\ Chain(Main, next, prev, rk)
        /\ gray # NULL => IsFirst(Main, rk, gray) /\ ~GREENP(gray)
    <3>1. IsFirst(Main, rk, black)
      BY <1>0, <1>1, <1>2, <1>3, BlackFirst
    <3> QED
      BY <3>1, <1>0 DEF Lists, Chains, Ends, Boundary
  <2>6. l \in ListState /\ Trimmed(l, Main \ Old, Green \ Old, rk)
    <3>1. Trimmed(Before, Main, Green, rk)
      BY <2>5 DEF Trimmed, Before
    <3>2. PICK R, G, P : R = Main /\ G = Green /\ P = page
      OBVIOUS
    <3>3. /\ R \in SUBSET Object /\ G \in SUBSET R /\ P \in Page /\ ObjectsOf(P) \subseteq G
          /\ Trimmed(Before, R, G, rk) /\ \A a \in R \ G : \A b \in G : rk[a] < rk[b]
      BY <2>3, <2>5, <3>1, <3>2, <1>2, <1>3
    <3>4. /\ WithoutObjects(P) \in ListState
          /\ Trimmed(WithoutObjects(P), R \ ObjectsOf(P), G \ ObjectsOf(P), rk)
      BY <3>3, <1>2, RemoveAll
    <3> QED
      BY <2>1, <3>2, <3>4
  <2> HIDE DEF Old
  <2>7. /\ Main' = Main \ Old /\ Green' = Green \ Old /\ White' = {}
        /\ Colored(GRAY)' = {} /\ Colored(unmarked_color)' = {}
        /\ Colored(marked_color)' = Colored(marked_color)
        /\ \A q \in Main' : ~GRAYP(q)' /\ q # target'
    <3>1. UNCHANGED <<color, marked_color, unmarked_color, target>> /\ gcpc' # "paint"
      BY <1>1 DEF colorVars
    <3>2. Green' = Green \ Old
      BY <2>4, <3>1 DEF Green, Colored
    <3>3. Colored(GRAY)' = {} /\ Colored(unmarked_color)' = {}
      BY <2>4, <3>1, <1>3 DEF Colored
    <3>4. marked_color # GREEN
      BY <1>2, Colors
    <3>5. Colored(marked_color)' = Colored(marked_color)
      BY <2>3, <2>4, <3>1, <3>4 DEF Colored, Green
    <3>6. White' = {}
      BY <3>3 DEF White
    <3>7. Main' = {o \in Group' : color[o] # unmarked_color}
      BY <3>1 DEF Main, WHITEP
    <3>8. Main' = Main \ Old
      BY <3>7, <2>4, <1>3
    <3>9. \A q \in Main' : ~GRAYP(q)' /\ q # target'
      BY <3>1, <3>8, <1>2, <1>3 DEF GRAYP, Colored
    <3> QED
      BY <3>2, <3>3, <3>5, <3>6, <3>8, <3>9
  <2>8. /\ Chain(Main', next', prev', rk) /\ IsFirst(Green', rk, free')
        /\ IsFirst(Main', rk, black') /\ IsLast(Main', rk, last')
    BY <2>1, <2>6, <2>7 DEF Trimmed
  <2>9. Chains(rk)'
    <3>1. Chain(White', next', prev', rk)
      BY <2>7 DEF Chain
    <3> QED
      BY <2>8, <3>1 DEF Chains
  <2>10. Ends(rk)'
    <3>1. white' = NULL
      BY <1>0, <1>1, <1>3 DEF Lists, Ends, IsFirst
    <3>2. IsFirst(White', rk, white')
      BY <3>1, <2>7 DEF IsFirst
    <3>3. \A a \in Main' \ Green' : \A b \in Green' : rk[a] < rk[b]
      BY <2>3, <2>5, <2>7
    <3> QED
      BY <2>8, <3>2, <3>3 DEF Ends
  <2>11. Boundary(rk)'
    <3>1. /\ Main' = {} => black' = NULL
          /\ Main' # {} => black' \in Main'
          /\ \A q \in Main' : rk[black'] <= rk[q]
      BY <2>8 DEF IsFirst
    <3>2. \A q \in Main' : ~(rk[q] < rk[black'])
      <4> TAKE q \in Main'
      <4>1. q \in Object /\ black' \in Object /\ rk[q] \in Int /\ rk[black'] \in Int
        BY <3>1, <2>7, <1>2
      <4> QED
        BY <3>1, <4>1
    <3>3. gray # NULL => gray \in Main /\ ~GREENP(gray) /\ gray \notin Old /\ \A q \in Main : rk[gray] <= rk[q]
      <4>1. gray # NULL => gray \in Main /\ ~GREENP(gray) /\ \A q \in Main : rk[gray] <= rk[q]
        BY <2>5, <1>2 DEF IsFirst
      <4> QED
        BY <4>1, <2>3 DEF Green, Colored, GREENP
    <3>4. gray' # NULL => IsFirst(Main', rk, gray') /\ ~GREENP(gray)'
      BY <3>3, <2>7, <1>1 DEF IsFirst, GREENP
    <3> QED
      BY <3>1, <3>2, <3>4, <2>7 DEF Boundary
  <2>12. Scanning(rk)' /\ Coalescing' /\ Greying'
    BY <1>1, <1>3 DEF Scanning, Coalescing, Greying, Linked
  <2>13. Tracing'
    BY <2>7, <1>1 DEF Tracing
  <2>14. Counts'
    <3>1. UNCHANGED <<white_count, black_scanned_count, black_alloc_count>>
      BY <1>1 DEF countVars
    <3>2. white_count = Cardinality({})
      BY <1>2, <1>3 DEF Counts
    <3> QED
      BY <2>7, <3>1, <3>2, <1>2 DEF Counts
  <2>15. TypeOK'
    <3>1. /\ next' \in [Object -> Link] /\ prev' \in [Object -> Link]
          /\ free' \in Link /\ black' \in Link /\ last' \in Link
      BY <2>1, <2>6 DEF ListState
    <3>2. {free, last, black, gray, white, current, target}' \subseteq Object \cup {NULL}
      BY <3>1, <1>1, <1>2 DEF TypeOK, Link
    <3>3. table' \in [Page -> {"EMPTY", "GROUP", "FREE"}]
      BY <2>1, <1>2
    <3> QED
      BY <3>1, <3>2, <3>3, <1>1, <1>2 DEF TypeOK, countVars, colorVars, mutVars, Link
  <2> QED
    BY <2>9, <2>10, <2>11, <2>12, <2>13, <2>14, <2>15, <1>5 DEF IInv, Lists
<1> QED
  BY <1>6, <1>7
-----------------------------------------------------------------------------
(***************************************************************************)
(* The invariant, and what follows from it.                                *)
(***************************************************************************)
LEMMA InitInv ==
  ASSUME Init
  PROVE  IInv
<1>1. Group = {}
  BY PageObjects DEF Init, Group, Object
<1>2. Main = {} /\ White = {} /\ Green = {} /\ \A c : Colored(c) = {}
  BY <1>1 DEF Init, Main, White, Green, Colored
<1>3. TypeOK
  BY DEF Init, TypeOK, GENERATION0, GENERATION1
<1>4. Greying /\ Coalescing /\ Locking
  BY DEF Init, Greying, Coalescing, Locking, Linked
<1>5. Tracing
  BY <1>2 DEF Init, Tracing
<1>6. Counts
  BY <1>2, FS_EmptySet DEF Init, Counts
<1>7. PICK rk \in [Object -> Int] : TRUE
  <2>1. [o \in Object |-> 0] \in [Object -> Int]
    OBVIOUS
  <2> QED
    BY <2>1
<1>8. Chains(rk)
  BY <1>2 DEF Chains, Chain
<1>9. Ends(rk) /\ Boundary(rk)
  BY <1>2 DEF Init, Ends, Boundary, IsFirst, IsLast
<1>10. Scanning(rk)
  BY DEF Init, Scanning
<1> QED
  BY <1>3, <1>4, <1>5, <1>6, <1>8, <1>9, <1>10 DEF IInv, Lists

(* Every step keeps the invariant. *)
LEMMA NextInv ==
  ASSUME IInv, [Next]_vars
  PROVE  IInv'
<1>1. ASSUME NEW m \in Mutator, Allocator(m)
      PROVE  IInv'
  BY <1>1, QuietAllocator, PopFreeStep, AppendPageStep DEF Allocator
<1>2. CASE RTmake_object_gray
  BY <1>2, MakeGrayFrontStep, MakeGrayFirstStep, MakeGrayLinkStep, MakeGrayBackStep,
     MakeGrayPaintStep DEF RTmake_object_gray
<1>3. CASE full_gc /\ ~RTmake_object_gray
  BY <1>3, FlipStep, StartPassStep, FinishObjectStep, QuietCollector, RecycleStep,
     IdentifyStep DEF full_gc
<1>4. CASE UNCHANGED vars
  BY <1>4, QuietStutter
<1> QED
  BY <1>1, <1>2, <1>3, <1>4 DEF Next

(* The inductive invariant holds in every reachable state. *)
THEOREM Invariance == Spec => []IInv
<1>1. Init => IInv
  BY InitInv
<1>2. IInv /\ [Next]_vars => IInv'
  BY NextInv
<1> QED
  BY <1>1, <1>2, PTL DEF Spec

(* Every variable keeps its type. *)
THEOREM TypeCorrect == Spec => []TypeOK
<1>1. IInv => TypeOK
  BY DEF IInv
<1> QED
  BY <1>1, Invariance, PTL

(***************************************************************************)
(* Both lists of a group stay doubly linked, finite and disjoint, through  *)
(* every interleaving of RTallocate with flip, RTmake_object_gray,         *)
(* scan_gray_set, recycle_group_garbage and identify_single_free_page.     *)
(***************************************************************************)
THEOREM ListsStayLinked == Spec => []ListsLinked
<1>1. IInv => ListsLinked
  BY InvProperties DEF Properties
<1> QED
  BY <1>1, Invariance, PTL

(* The two lists hold exactly the objects of the group's pages. *)
THEOREM NoObjectLost == Spec => []NothingLost
<1>1. IInv => NothingLost
  BY InvProperties DEF Properties
<1> QED
  BY <1>1, Invariance, PTL

(* The colour in an object's header is that of its place on the lists. *)
THEOREM ColorsCorrect == Spec => []ColorsMatchLists
<1>1. IInv => ColorsMatchLists
  BY InvProperties DEF Properties
<1> QED
  BY <1>1, Invariance, PTL

(* white_count is the length of the white list that recycle_group_garbage    *)
(* compares it with; the two black counts add up to the marked objects.      *)
THEOREM CountsCorrect == Spec => []CountsExact
<1>1. IInv => CountsExact
  BY InvProperties DEF Properties
<1> QED
  BY <1>1, Invariance, PTL

(* The list operations find what they assert or take for granted. *)
THEOREM AssertsCorrect == Spec => []AssertsHold
<1>1. IInv => AssertsHold
  BY InvProperties DEF Properties
<1> QED
  BY <1>1, Invariance, PTL

(* The group's pointers are in one of the states of doc/gc-states.txt. *)
THEOREM PointersDocumented == Spec => []PointerStatesDocumented
<1>1. IInv => PointerStatesDocumented
  BY InvProperties DEF Properties
<1> QED
  BY <1>1, Invariance, PTL
-----------------------------------------------------------------------------
(***************************************************************************)
(* The cycle of colours.                                                   *)
(***************************************************************************)

(* A step paints when it does so object by object. *)
LEMMA Painted ==
  ASSUME NEW S, NEW c,
         \A o \in Object : Shade'[o] = IF o \in S THEN c ELSE Shade[o]
  PROVE  Cycle!Paint(S, c)
  BY DEF Shade, Cycle!Paint

(* The names of the colours, and what has none. *)
LEMMA Shades ==
  ASSUME TypeOK
  PROVE  /\ Cycle!Shaded("none") = Object \ Group
         /\ Cycle!Shaded("white") = Colored(unmarked_color)
         /\ Cycle!Shaded("gray") = Colored(GRAY)
         /\ Cycle!Shaded("green") = Colored(GREEN)
         /\ Cycle!Shaded("black") = Colored(marked_color)
<1>1. \A o \in Object :
        /\ table[o[1]] # "GROUP" => Shade[o] = "none"
        /\ table[o[1]] = "GROUP" =>
             /\ color[o] = unmarked_color => Shade[o] = "white"
             /\ color[o] = GRAY => Shade[o] = "gray"
             /\ color[o] = GREEN => Shade[o] = "green"
             /\ color[o] = marked_color => Shade[o] = "black"
             /\ color[o] \in {unmarked_color, GRAY, GREEN, marked_color}
  BY Colors DEF TypeOK, Shade, WHITEP, GRAYP, GREENP
<1> QED
  BY <1>1 DEF Cycle!Shaded, Colored, Group

(* A step that gives no object another colour is a stutter. *)
LEMMA SameShades ==
  ASSUME UNCHANGED <<color, table, colorVars>>
  PROVE  UNCHANGED Shade
  BY DEF Shade, WHITEP, GRAYP, GREENP, colorVars

(* An object that leaves one colour for gray or for black. *)
LEMMA OneShade ==
  ASSUME TypeOK, NEW o \in Group, NEW c \in {GRAY, marked_color},
         color' = [color EXCEPT ![o] = c], UNCHANGED <<table, colorVars>>
  PROVE  Cycle!Paint({o}, IF c = GRAY THEN "gray" ELSE "black")
<1>1. \A q \in Object : Shade'[q] = IF q \in {o} THEN (IF c = GRAY THEN "gray" ELSE "black")
                                    ELSE Shade[q]
  BY Colors DEF TypeOK, Group, Shade, WHITEP, GRAYP, GREENP, colorVars
<1> QED
  BY <1>1, Painted

(* Of the allocator's steps, AppendPage and PopFree colour objects. *)
LEMMA AllocatorShades ==
  ASSUME IInv, NEW m \in Mutator, Allocator(m)
  PROVE  [Cycle!Next]_Shade
<1>0. TypeOK
  BY DEF IInv
<1>1. ASSUME PopFree(m)
      PROVE  Cycle!Next
  <2>1. free \in Object /\ GREENP(free) /\ free \in Group
    <3>1. PICK rk \in [Object -> Int] : Lists(rk)
      BY DEF IInv
    <3>2. free # NULL
      BY <1>1 DEF PopFree, IInv, Locking
    <3>3. free \in Green
      BY <3>1, <3>2 DEF Lists, Ends, IsFirst
    <3> QED
      BY <3>3 DEF Green, Colored, Group, GREENP
  <2>2. Cycle!Paint({free}, "black")
    <3>1. marked_color # GRAY
      BY <1>0, Colors
    <3> QED
      BY <1>0, <1>1, <2>1, <3>1, OneShade DEF PopFree
  <2>3. free \in Cycle!Shaded("green")
    BY <1>0, <2>1, Shades DEF Colored, GREENP
  <2> QED
    BY <2>2, <2>3 DEF Cycle!Next, Cycle!Allocate
<1>2. ASSUME NEW p \in Page, AppendPage(m, p)
      PROVE  Cycle!Next
  <2>1. /\ table[p] = "EMPTY" /\ table' = [table EXCEPT ![p] = "GROUP"]
        /\ color' = [o \in Object |-> IF o[1] = p THEN GREEN ELSE color[o]]
        /\ UNCHANGED colorVars
    BY <1>2 DEF AppendPage, EmptyPages
  <2>2. ObjectsOf(p) \in SUBSET Cycle!Shaded("none")
    BY <1>0, <2>1, Shades, PageObjects DEF Group
  <2>3. \A o \in Object : Shade'[o] = IF o \in ObjectsOf(p) THEN "green" ELSE Shade[o]
    <3>1. ASSUME NEW o \in Object, o[1] = p
          PROVE  Shade'[o] = "green"
      <4>1. table'[o[1]] = "GROUP" /\ color'[o] = GREEN
        BY <1>0, <2>1, <3>1 DEF TypeOK
      <4>2. GREEN # unmarked_color' /\ GREEN # GRAY
        BY <1>0, <2>1, Colors DEF colorVars
      <4> QED
        BY <4>1, <4>2 DEF Shade, WHITEP, GRAYP, GREENP
    <3>2. ASSUME NEW o \in Object, o[1] # p
          PROVE  Shade'[o] = Shade[o]
      <4>1. table'[o[1]] = table[o[1]] /\ color'[o] = color[o] /\ unmarked_color' = unmarked_color
        BY <1>0, <2>1, <3>2, PageObjects DEF TypeOK, colorVars
      <4> QED
        BY <4>1 DEF Shade, WHITEP, GRAYP, GREENP
    <3> QED
      BY <3>1, <3>2, PageObjects
  <2>4. Cycle!Paint(ObjectsOf(p), "green")
    BY <2>3, Painted
  <2> QED
    BY <2>2, <2>4 DEF Cycle!Next, Cycle!Carve
<1>3. CASE RTallocate(m) \/ SyncCollect(m) \/ Resume(m) \/ out_of_memory(m)
  BY <1>3, SameShades DEF RTallocate, SyncCollect, Resume, out_of_memory, headerVars
<1> QED
  BY <1>1, <1>2, <1>3 DEF Allocator

(* RTmake_object_gray colours the object in its last step. *)
LEMMA MakeGrayShades ==
  ASSUME IInv, RTmake_object_gray
  PROVE  [Cycle!Next]_Shade
<1>0. TypeOK
  BY DEF IInv
<1>1. ASSUME NEW o \in Colored(unmarked_color), color' = [color EXCEPT ![o] = GRAY],
             UNCHANGED <<table, colorVars>>
      PROVE  Cycle!Next
  <2>1. o \in Group
    BY DEF Colored
  <2>2. Cycle!Paint({o}, "gray")
    BY <1>0, <1>1, <2>1, OneShade
  <2>3. {o} \in SUBSET Cycle!Shaded("white")
    BY <1>0, Shades
  <2> QED
    BY <2>2, <2>3 DEF Cycle!Next, Cycle!MakeGray
<1>2. ASSUME NEW o \in Object, MakeGrayFront(o)
      PROVE  Cycle!Next
  BY <1>1, <1>2 DEF MakeGrayFront, Colored, Group, WHITEP
<1>3. CASE MakeGrayPaint
  <2>1. target \in Colored(unmarked_color)
    BY <1>3 DEF MakeGrayPaint, IInv, Greying, Linked, Colored, WHITEP
  <2> QED
    BY <1>1, <1>3, <2>1 DEF MakeGrayPaint
<1>4. CASE MakeGrayLink \/ MakeGrayBack \/ \E o \in Object : MakeGrayFirst(o)
  BY <1>4, SameShades DEF MakeGrayLink, MakeGrayBack, MakeGrayFirst
<1> QED
  BY <1>2, <1>3, <1>4 DEF RTmake_object_gray

(* The list that flip cuts off holds all black objects, and no white ones  *)
(* are left to be mistaken for black by the swap.                          *)
LEMMA FlipShades ==
  ASSUME IInv, flip
  PROVE  Cycle!Next
<1>1. /\ TypeOK /\ Colored(GRAY) = {} /\ Colored(unmarked_color) = {}
      /\ marked_color' = unmarked_color /\ unmarked_color' = marked_color
      /\ UNCHANGED <<color, table>>
  BY DEF IInv, flip, Tracing
<1>2. \A o \in Object : Shade'[o] = IF o \in Colored(marked_color) THEN "white" ELSE Shade[o]
  BY <1>1, Colors DEF TypeOK, Colored, Group, Shade, WHITEP, GRAYP, GREENP
<1>3. Cycle!Paint(Cycle!Shaded("black"), "white")
  <2>1. Cycle!Shaded("black") = Colored(marked_color)
    BY <1>1, Shades
  <2> QED
    BY <1>2, <2>1, Painted
<1>4. Cycle!Shaded("gray") = {} /\ Cycle!Shaded("white") = {}
  BY <1>1, Shades
<1> QED
  BY <1>3, <1>4 DEF Cycle!Next, Cycle!Flip

(* What recycle_group_garbage finds on its walk is all that is white. *)
LEMMA RecycleShades ==
  ASSUME IInv, recycle_group_garbage
  PROVE  Cycle!Next
<1>1. /\ TypeOK /\ Greying /\ Linked /\ Colored(GRAY) = {}
      /\ color' = [o \in Object |-> IF o \in Members(white) THEN GREEN ELSE color[o]]
      /\ UNCHANGED <<table, colorVars>>
  BY DEF IInv, recycle_group_garbage, Tracing, Linked
<1>2. Members(white) = Colored(unmarked_color)
  <2>1. PICK rk \in [Object -> Int] : Lists(rk)
    BY DEF IInv
  <2> QED
    BY <1>1, <2>1, Visits, Sets
<1>3. \A o \in Object : Shade'[o] = IF o \in Colored(unmarked_color) THEN "green" ELSE Shade[o]
  <2>1. ASSUME NEW o \in Colored(unmarked_color)
        PROVE  Shade'[o] = "green"
    <3>1. o \in Object /\ table'[o[1]] = "GROUP" /\ color'[o] = GREEN
      BY <1>1, <1>2 DEF Colored, Group
    <3>2. GREEN # unmarked_color' /\ GREEN # GRAY
      BY <1>1, Colors DEF colorVars
    <3> QED
      BY <3>1, <3>2 DEF Shade, WHITEP, GRAYP, GREENP
  <2>2. ASSUME NEW o \in Object, o \notin Colored(unmarked_color)
        PROVE  Shade'[o] = Shade[o]
    <3>1. table' = table /\ color'[o] = color[o] /\ unmarked_color' = unmarked_color
      BY <1>1, <1>2, <2>2 DEF colorVars
    <3> QED
      BY <3>1 DEF Shade, WHITEP, GRAYP, GREENP
  <2> QED
    BY <2>1, <2>2
<1>4. Cycle!Paint(Colored(unmarked_color), "green")
  BY <1>3, Painted
<1>5. Colored(unmarked_color) \in SUBSET Cycle!Shaded("white") /\ Cycle!Shaded("gray") = {}
  BY <1>1, Shades
<1> QED
  BY <1>4, <1>5 DEF Cycle!Next, Cycle!Recycle

(* The other steps of the collector. *)
LEMMA CollectorShades ==
  ASSUME IInv, full_gc
  PROVE  [Cycle!Next]_Shade
<1>0. TypeOK
  BY DEF IInv
<1>1. ASSUME FinishObject
      PROVE  Cycle!Next
  <2>1. current \in Colored(GRAY) /\ current \in Group
    BY <1>1 DEF FinishObject, IInv, Tracing, Colored
  <2>2. Cycle!Paint({current}, "black")
    <3>1. marked_color # GRAY
      BY <1>0, Colors
    <3> QED
      BY <1>0, <1>1, <2>1, <3>1, OneShade DEF FinishObject
  <2>3. current \in Cycle!Shaded("gray")
    BY <1>0, <2>1, Shades
  <2> QED
    BY <2>2, <2>3 DEF Cycle!Next, Cycle!Blacken
<1>2. ASSUME identify_single_free_page, all_green_page(page)
      PROVE  Cycle!Next
  <2>1. /\ page \in Page /\ table[page] = "GROUP"
        /\ table' = [table EXCEPT ![page] = "FREE"] /\ UNCHANGED <<color, colorVars>>
    BY <1>2 DEF identify_single_free_page, IInv, Coalescing
  <2>2. ObjectsOf(page) \in SUBSET Cycle!Shaded("green")
    BY <1>0, <1>2, <2>1, Shades, PageObjects DEF all_green_page, Colored, Group, GREENP
  <2>3. \A o \in Object : Shade'[o] = IF o \in ObjectsOf(page) THEN "none" ELSE Shade[o]
    BY <1>0, <2>1, PageObjects, ZenonT(30) DEF TypeOK, Shade, WHITEP, GRAYP, GREENP, colorVars
  <2>4. Cycle!Paint(ObjectsOf(page), "none")
    BY <2>3, Painted
  <2> QED
    BY <2>2, <2>4 DEF Cycle!Next, Cycle!Release
<1>3. ASSUME NEW p \in Page, coalesce_free_pages(p)
      PROVE  UNCHANGED Shade
  <2>1. \A o \in Object : Shade'[o] = Shade[o]
    BY <1>0, <1>3, PageObjects
       DEF coalesce_free_pages, headerVars, TypeOK, Shade, WHITEP, GRAYP, GREENP, colorVars
  <2> QED
    BY <2>1 DEF Shade
<1>4. CASE \/ StartPass \/ TraceAgain \/ TraceDone \/ CycleDone
           \/ \E p \in Page : SkipPage(p) \/ FindGreenPage(p)
           \/ identify_single_free_page /\ ~all_green_page(page)
  BY <1>4, SameShades DEF StartPass, TraceAgain, TraceDone, CycleDone, SkipPage,
     FindGreenPage, identify_single_free_page, headerVars
<1> QED
  BY <1>1, <1>2, <1>3, <1>4, MakeGrayShades, FlipShades, RecycleShades DEF full_gc

(***************************************************************************)
(* The linked lists of a group implement sets of colours, for any finite   *)
(* heap and any number of mutators: RTallocate, RTmake_object_gray,        *)
(* scan_gray_set, flip, recycle_group_garbage, init_pages_for_group and    *)
(* identify_single_free_page are steps of ColorCycle.                      *)
(***************************************************************************)
THEOREM ColorRefinement == Spec => FollowsColorCycle
<1>1. Init => Cycle!Init
  BY DEF Init, Cycle!Init, Shade, Object
<1>2. IInv /\ [Next]_vars => [Cycle!Next]_Shade
  <2> SUFFICES ASSUME IInv, [Next]_vars
               PROVE  [Cycle!Next]_Shade
    OBVIOUS
  <2>1. CASE UNCHANGED vars
    BY <2>1, SameShades DEF vars, colorVars
  <2> QED
    BY <2>1, AllocatorShades, CollectorShades DEF Next
<1> QED
  BY <1>1, <1>2, Invariance, PTL DEF Spec, FollowsColorCycle, Cycle!Spec
=============================================================================
