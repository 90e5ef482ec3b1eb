----------------------- MODULE ProxiedValidatorProofs -----------------------
(***************************************************************************)
(* Proofs about ProxiedValidator: its types, that the two maps of the      *)
(* assignment are each other's reverse and agree with the hash, and that   *)
(* the validators of the sets that were retrieved take part in it as they  *)
(* should, for any number of proxies and validators and any hash.          *)
(*                                                                         *)
(* Between two steps of the thread the assignment is one map and its       *)
(* reverse (WellFormed).  Each operation on it is shown to lead from such  *)
(* an assignment to such an assignment, of a map that is given; the loop   *)
(* that removes proxies while it ranges over the assignment is covered by  *)
(* induction over its iterations.                                          *)
(***************************************************************************)
EXTENDS ProxiedValidator, FiniteSetTheorems, WellFoundedInduction, TLAPS

\* The reverse of a map of validators to proxies.
Reversed(f) == [p \in {f[v] : v \in DOMAIN f} \ {nil} |-> {v \in DOMAIN f : f[v] = p}]

Assignment(f) == [valToProxy |-> f, proxyToVals |-> Reversed(f)]

\* The maps of some of the validators to proxies, or to none yet.
Maps == UNION {[vals -> Proxies \cup {nil}] : vals \in SUBSET Validators}

WellFormed(va) == \E f \in Maps : va = Assignment(f)

-----------------------------------------------------------------------------
(***************************************************************************)
(* The operations on an assignment.                                        *)
(***************************************************************************)

\* What a map of validators to proxies is.
LEMMA MapFacts ==
    ASSUME NEW f \in Maps
    PROVE  /\ DOMAIN f \subseteq Validators
           /\ f \in [DOMAIN f -> Proxies \cup {nil}]
           /\ \A v \in DOMAIN f : f[v] \in Proxies \cup {nil}
BY DEF Maps

\* When a function on a set of validators is such a map.
LEMMA IsMap ==
    ASSUME NEW vals \in SUBSET Validators, NEW f \in [vals -> Proxies \cup {nil}]
    PROVE  f \in Maps /\ DOMAIN f = vals
BY DEF Maps


\* The entries of an assignment.
LEMMA AssignmentFacts ==
    ASSUME NEW f
    PROVE  /\ Assignment(f).valToProxy = f
           /\ Assignment(f).proxyToVals = Reversed(f)
           /\ getValidators(Assignment(f)) = DOMAIN f
           /\ \A p : p \in DOMAIN Reversed(f) <=> p # nil /\ \E v \in DOMAIN f : f[v] = p
           /\ \A p \in DOMAIN Reversed(f) : Reversed(f)[p] = {v \in DOMAIN f : f[v] = p}
BY DEF Assignment, Reversed, getValidators

\* The assignment that a node starts with.
LEMMA NewAssignment ==
    [v \in {} |-> nil] \in Maps /\ newValAssignments = Assignment([v \in {} |-> nil])
<1>. DEFINE f == [v \in {} |-> nil]
<1>1. f \in Maps
    <2>1. {} \in SUBSET Validators /\ f \in [{} -> Proxies \cup {nil}]
        OBVIOUS
    <2>. QED  BY <2>1, IsMap, Zenon
<1>2. Reversed(f) = [p \in {} |-> {}]
    BY DEF Reversed
<1>. QED  BY <1>1, <1>2 DEF newValAssignments, Assignment

\* addValidators: the new validators have no proxy.
LEMMA AddKeepsForm ==
    ASSUME NEW f \in Maps, NEW vals \in SUBSET Validators, vals \cap DOMAIN f = {}
    PROVE  LET g == [v \in DOMAIN f \cup vals |-> IF v \in vals THEN nil ELSE f[v]]
           IN  g \in Maps /\ addValidators(Assignment(f), vals) = Assignment(g)
<1>. DEFINE g == [v \in DOMAIN f \cup vals |-> IF v \in vals THEN nil ELSE f[v]]
<1>1. g \in Maps
    <2>1. DOMAIN f \cup vals \in SUBSET Validators /\ g \in [DOMAIN f \cup vals -> Proxies \cup {nil}]
        BY MapFacts
    <2>. QED  BY <2>1, IsMap
<1>2. Reversed(f) = Reversed(g)
    <2>1. DOMAIN g = DOMAIN f \cup vals /\ \A v \in DOMAIN g : g[v] = IF v \in vals THEN nil ELSE f[v]
        OBVIOUS
    <2>. HIDE DEF g
    <2>2. {f[v] : v \in DOMAIN f} \ {nil} = {g[v] : v \in DOMAIN g} \ {nil}
        BY <2>1
    <2>3. ASSUME NEW p \in {f[v] : v \in DOMAIN f} \ {nil}
          PROVE  {v \in DOMAIN f : f[v] = p} = {v \in DOMAIN g : g[v] = p}
        BY <2>1
    <2>. QED  BY <2>2, <2>3 DEF Reversed
<1>3. addValidators(Assignment(f), vals) = [valToProxy |-> g, proxyToVals |-> Reversed(f)]
    BY AssignmentFacts DEF addValidators, Assignment
<1>. QED  BY <1>1, <1>2, <1>3 DEF Assignment

\* unassignValidator: the validators have no proxy any more.
LEMMA UnassignKeepsForm ==
    ASSUME NEW f \in Maps, NEW vals \in SUBSET DOMAIN f
    PROVE  LET g == [v \in DOMAIN f |-> IF v \in vals THEN nil ELSE f[v]]
           IN  g \in Maps /\ unassignValidator(Assignment(f), vals) = Assignment(g)
<1>. DEFINE g == [v \in DOMAIN f |-> IF v \in vals THEN nil ELSE f[v]]
            left(p) == Reversed(f)[p] \ {v \in vals : f[v] = p}
            D == {p \in DOMAIN Reversed(f) : left(p) # {}}
<1>1. g \in Maps
    <2>1. DOMAIN f \in SUBSET Validators /\ g \in [DOMAIN f -> Proxies \cup {nil}]
        BY MapFacts
    <2>. QED  BY <2>1, IsMap
<1>2. DOMAIN g = DOMAIN f /\ \A v \in DOMAIN g : g[v] = IF v \in vals THEN nil ELSE f[v]
    OBVIOUS
<1>3. ASSUME NEW p \in DOMAIN Reversed(f)
      PROVE  left(p) = {v \in DOMAIN g : g[v] = p}
    <2>1. p # nil /\ Reversed(f)[p] = {v \in DOMAIN f : f[v] = p}
        BY AssignmentFacts
    <2>. HIDE DEF g
    <2>. QED  BY <2>1, <1>2
<1>4. ASSUME NEW p
      PROVE  p \in D <=> p # nil /\ \E v \in DOMAIN g : g[v] = p
    <2>. HIDE DEF g
    <2>1. CASE p \in DOMAIN Reversed(f)
        <3>1. p # nil
            BY <2>1, AssignmentFacts
        <3>. QED  BY <2>1, <3>1, <1>3
    <2>2. CASE p \notin DOMAIN Reversed(f)
        <3>1. p = nil \/ \A v \in DOMAIN f : f[v] # p
            BY <2>2, AssignmentFacts
        <3>. QED  BY <2>2, <3>1, <1>2
    <2>. QED  BY <2>1, <2>2
<1>5. [p \in D |-> left(p)] = Reversed(g)
    <2>1. D = {g[v] : v \in DOMAIN g} \ {nil}
        <3>. HIDE DEF g, D
        <3>. QED  BY <1>4
    <2>2. \A p \in D : left(p) = {v \in DOMAIN g : g[v] = p}
        BY <1>3
    <2>. HIDE DEF g, D, left
    <2>. QED  BY <2>1, <2>2 DEF Reversed
<1>6. unassignValidator(Assignment(f), vals) = [valToProxy |-> g, proxyToVals |-> [p \in D |-> left(p)]]
    <2>1. /\ Assignment(f).valToProxy = f /\ Assignment(f).proxyToVals = Reversed(f)
          /\ getValidators(Assignment(f)) = DOMAIN f
        BY AssignmentFacts
    <2>. QED  BY <2>1 DEF unassignValidator
<1>. QED  BY <1>1, <1>5, <1>6, Zenon DEF Assignment

\* removeValidators: the others are left as they are.
LEMMA RemoveKeepsForm ==
    ASSUME NEW f \in Maps, NEW vals \in SUBSET DOMAIN f
    PROVE  LET g == [v \in DOMAIN f \ vals |-> f[v]]
           IN  g \in Maps /\ removeValidators(Assignment(f), vals) = Assignment(g)
<1>. DEFINE u == [v \in DOMAIN f |-> IF v \in vals THEN nil ELSE f[v]]
            g == [v \in DOMAIN f \ vals |-> f[v]]
<1>1. g \in Maps
    <2>1. DOMAIN f \ vals \in SUBSET Validators /\ g \in [DOMAIN f \ vals -> Proxies \cup {nil}]
        BY MapFacts
    <2>. QED  BY <2>1, IsMap
<1>2. unassignValidator(Assignment(f), vals) = Assignment(u)
    BY UnassignKeepsForm
<1>3. /\ DOMAIN u = DOMAIN f /\ \A v \in DOMAIN u : u[v] = IF v \in vals THEN nil ELSE f[v]
      /\ DOMAIN g = DOMAIN f \ vals /\ \A v \in DOMAIN g : g[v] = f[v]
    OBVIOUS
<1>4. Reversed(u) = Reversed(g)
    <2>. HIDE DEF u, g
    <2>1. {u[v] : v \in DOMAIN u} \ {nil} = {g[v] : v \in DOMAIN g} \ {nil}
        BY <1>3
    <2>2. ASSUME NEW p \in {u[v] : v \in DOMAIN u} \ {nil}
          PROVE  {v \in DOMAIN u : u[v] = p} = {v \in DOMAIN g : g[v] = p}
        BY <1>3
    <2>. QED  BY <2>1, <2>2 DEF Reversed
<1>5. Restrict(u, DOMAIN u \ vals) = g
    BY DEF Restrict
<1>6. removeValidators(Assignment(f), vals)
        = [valToProxy |-> Restrict(u, DOMAIN u \ vals), proxyToVals |-> Reversed(u)]
    <2>. HIDE DEF u
    <2>. QED  BY <1>2 DEF removeValidators, Assignment
<1>. QED  BY <1>1, <1>4, <1>5, <1>6 DEF Assignment

\* assignValidator: validators that have no proxy are given one.
LEMMA AssignKeepsForm ==
    ASSUME NEW f \in Maps, NEW vals \in SUBSET DOMAIN f, NEW to,
           \A v \in vals : f[v] = nil /\ to[v] \in Proxies,
           nil \notin Proxies
    PROVE  LET g == [v \in DOMAIN f |-> IF v \in vals THEN to[v] ELSE f[v]]
           IN  g \in Maps /\ assignValidator(Assignment(f), vals, to) = Assignment(g)
<1>. DEFINE g == [v \in DOMAIN f |-> IF v \in vals THEN to[v] ELSE f[v]]
            had(p) == IF p \in DOMAIN Reversed(f) THEN Reversed(f)[p] ELSE {}
            D == DOMAIN Reversed(f) \cup {to[v] : v \in vals}
            h(p) == had(p) \cup {v \in vals : to[v] = p}
<1>1. g \in Maps
    <2>1. DOMAIN f \in SUBSET Validators /\ g \in [DOMAIN f -> Proxies \cup {nil}]
        BY MapFacts
    <2>. QED  BY <2>1, IsMap
<1>2. DOMAIN g = DOMAIN f /\ \A v \in DOMAIN g : g[v] = IF v \in vals THEN to[v] ELSE f[v]
    OBVIOUS
<1>3. D = {g[v] : v \in DOMAIN g} \ {nil}
    <2>1. ASSUME NEW p
          PROVE  p \in D <=> p # nil /\ \E v \in DOMAIN g : g[v] = p
        <3>. HIDE DEF g
        <3>1. p \in DOMAIN Reversed(f) <=> p # nil /\ \E v \in DOMAIN f : f[v] = p
            BY AssignmentFacts
        <3>2. p \in {to[v] : v \in vals} => p # nil
            OBVIOUS
        <3>. QED  BY <3>1, <3>2, <1>2
    <2>. HIDE DEF g, D
    <2>. QED  BY <2>1
<1>4. ASSUME NEW p \in D
      PROVE  h(p) = {v \in DOMAIN g : g[v] = p}
    <2>1. p # nil
        BY <1>3
    <2>2. had(p) = {v \in DOMAIN f : f[v] = p}
        <3>1. p \in DOMAIN Reversed(f) => Reversed(f)[p] = {v \in DOMAIN f : f[v] = p}
            BY AssignmentFacts
        <3>2. p \notin DOMAIN Reversed(f) => {v \in DOMAIN f : f[v] = p} = {}
            BY <2>1, AssignmentFacts
        <3>. QED  BY <3>1, <3>2
    <2>. HIDE DEF g, had
    <2>. QED  BY <2>1, <2>2, <1>2
<1>5. [p \in D |-> h(p)] = Reversed(g)
    <2>. HIDE DEF g, D, h
    <2>. QED  BY <1>3, <1>4 DEF Reversed
<1>6. /\ Assignment(f).valToProxy = f /\ Assignment(f).proxyToVals = Reversed(f)
      /\ getValidators(Assignment(f)) = DOMAIN f
    BY AssignmentFacts
<1>7. assignValidator(Assignment(f), vals, to) = [valToProxy |-> g, proxyToVals |-> [p \in D |-> h(p)]]
    <2>1. getValidators(Assignment(f)) \cup vals = DOMAIN f
        BY <1>6
    <2>. QED  BY <1>6, <2>1, Zenon DEF assignValidator
<1>. QED  BY <1>1, <1>5, <1>7, Zenon DEF Assignment

-----------------------------------------------------------------------------
(***************************************************************************)
(* The hash, and the reassignment of all validators.                       *)
(***************************************************************************)

\* The hash gives a validator a member of the ring, if there is one.
LEMMA KeyIsMember ==
    ASSUME hash \in Hashes, NEW members \in SUBSET Proxies, NEW v \in Validators
    PROVE  /\ LocateKey(members, v) \in members \cup {nil}
           /\ LocateKey(members, v) \in Proxies \cup {nil}
<1>1. CASE members = {}
    BY <1>1 DEF LocateKey
<1>2. CASE members # {}
    <2>1. members \in (SUBSET Proxies) \ {{}}
        BY <1>2
    <2>2. hash[members] \in [Validators -> members]
        BY <2>1, ConstantsAssumption
    <2>3. hash[members][v] \in members
        BY <2>2
    <2>. QED  BY <1>2, <2>3 DEF LocateKey
<1>. QED  BY <1>1, <1>2

\* Where the hash has the validators of an assignment.
Located(members, va) == [v \in getValidators(va) |-> LocateKey(members, v)]

\* reassignValidators leaves each validator with the proxy that the hash gives
\* it, and the two maps each other's reverse.
LEMMA Reassigned ==
    ASSUME hash \in Hashes, NEW members \in SUBSET Proxies, NEW va, WellFormed(va)
    PROVE  /\ Located(members, va) \in Maps
           /\ reassignValidators(members, va) = Assignment(Located(members, va))
           /\ WellFormed(reassignValidators(members, va))
           /\ getValidators(reassignValidators(members, va)) = getValidators(va)
<1>1. PICK f \in Maps : va = Assignment(f)
    BY DEF WellFormed
<1>. DEFINE to == [v \in getValidators(va) |-> LocateKey(members, v)]
            moved == {v \in getValidators(va) : va.valToProxy[v] # to[v]}
            given == {v \in moved : to[v] # nil}
            u == [v \in DOMAIN f |-> IF v \in moved THEN nil ELSE f[v]]
            g == [v \in DOMAIN u |-> IF v \in given THEN to[v] ELSE u[v]]
<1>2. getValidators(va) = DOMAIN f /\ va.valToProxy = f /\ DOMAIN f \subseteq Validators
    BY <1>1, AssignmentFacts, MapFacts
<1>3. DOMAIN to = DOMAIN f /\ \A v \in DOMAIN f : to[v] = LocateKey(members, v)
    BY <1>2
<1>4. \A v \in DOMAIN f : to[v] \in Proxies \cup {nil}
    BY <1>2, <1>3, KeyIsMember
<1>5. moved \subseteq DOMAIN f /\ moved = {v \in DOMAIN f : f[v] # to[v]}
    BY <1>2
<1>. HIDE DEF to
<1>6. u \in Maps /\ unassignValidator(va, moved) = Assignment(u)
    <2>. HIDE DEF moved
    <2>. QED  BY <1>1, <1>5, UnassignKeepsForm
<1>7. DOMAIN u = DOMAIN f /\ \A v \in DOMAIN f : u[v] = IF v \in moved THEN nil ELSE f[v]
    OBVIOUS
<1>8. given \subseteq DOMAIN u /\ \A v \in given : u[v] = nil /\ to[v] \in Proxies
    <2>. HIDE DEF moved, u
    <2>. QED  BY <1>4, <1>5, <1>7
<1>9. g \in Maps /\ assignValidator(Assignment(u), given, to) = Assignment(g)
    <2>1. nil \notin Proxies /\ u \in Maps /\ given \in SUBSET DOMAIN u
        BY <1>6, <1>8, ConstantsAssumption
    <2>. HIDE DEF u, given
    <2>. QED  BY <2>1, <1>8, AssignKeepsForm
<1>10. g = to
    <2>1. DOMAIN g = DOMAIN f /\ \A v \in DOMAIN f : g[v] = IF v \in given THEN to[v] ELSE u[v]
        BY <1>7, Zenon
    <2>2. ASSUME NEW v \in DOMAIN f
          PROVE  g[v] = to[v]
        BY <2>1, <1>5, <1>7
    <2>3. to = [v \in DOMAIN f |-> to[v]] /\ g = [v \in DOMAIN f |-> g[v]]
        <3>1. g = [v \in DOMAIN f |-> g[v]]
            BY <1>7
        <3>2. to = [v \in DOMAIN f |-> to[v]]
            <4>1. to = [v \in DOMAIN f |-> LocateKey(members, v)]
                BY <1>2 DEF to
            <4>. QED  BY <4>1, <1>3
        <3>. QED  BY <3>1, <3>2
    <2>. HIDE DEF g
    <2>. QED  BY <2>2, <2>3
<1>11. reassignValidators(members, va) = Assignment(to) /\ to \in Maps
    <2>1. reassignValidators(members, va) = assignValidator(unassignValidator(va, moved), given, to)
        BY DEF reassignValidators, to
    <2>. HIDE DEF g, u, moved, given
    <2>. QED  BY <2>1, <1>6, <1>9, <1>10
<1>12. to = Located(members, va)
    BY DEF to, Located
<1>13. getValidators(Assignment(to)) = getValidators(va)
    BY <1>2, <1>3, AssignmentFacts
<1>. QED  BY <1>11, <1>12, <1>13 DEF WellFormed

\* The hash and the assignment agree.
Agrees(members, va) == \A v \in getValidators(va) : va.valToProxy[v] = LocateKey(members, v)

\* After a reassignment they do.
LEMMA ReassignedAgrees ==
    ASSUME hash \in Hashes, NEW members \in SUBSET Proxies, NEW va, WellFormed(va)
    PROVE  Agrees(members, reassignValidators(members, va))
<1>. DEFINE f == Located(members, va)
<1>1. reassignValidators(members, va) = Assignment(f) /\ DOMAIN f = getValidators(va)
    BY Reassigned DEF Located
<1>2. \A v \in DOMAIN f : f[v] = LocateKey(members, v)
    BY DEF Located
<1>. HIDE DEF f
<1>3. getValidators(Assignment(f)) = DOMAIN f /\ Assignment(f).valToProxy = f
    BY AssignmentFacts
<1>. QED  BY <1>1, <1>2, <1>3 DEF Agrees

-----------------------------------------------------------------------------
(***************************************************************************)
(* The loop of unassignDisconnectedProxies, by induction.                  *)
(***************************************************************************)

\* A set of numbers with 0 and the successor of each of its members has all.
LEMMA Induction ==
    ASSUME NEW T \in SUBSET Nat, 0 \in T, \A n \in T : n + 1 \in T
    PROVE  T = Nat
<1>. SUFFICES ASSUME Nat \ T # {} PROVE FALSE
    BY Zenon
<1>. DEFINE R == OpToRel(<, Nat)
<1>1. IsWellFoundedOn(R, Nat)
    BY NatLessThanWellFounded, Zenon
<1>2. \A x, y \in Nat : y < x => <<y, x>> \in R
    BY DEF OpToRel
<1>. HIDE DEF R
<1>3. PICK x \in Nat \ T : \A y \in Nat \ T : ~ (<<y, x>> \in R)
    BY <1>1, WFMin, Zenon
<1>4. x # 0 /\ x - 1 \in Nat /\ x - 1 < x
    OBVIOUS
<1>5. x - 1 \in T
    <2>1. <<x - 1, x>> \in R
        BY <1>2, <1>4
    <2>. QED  BY <2>1, <1>3, <1>4
<1>. QED  BY <1>5, <1>4

\* Where the loop may stand: a part of the ring is left, and the assignment is
\* of the same validators and agrees with it.
Midway(u) ==
    /\ u.members \in SUBSET ring
    /\ WellFormed(u.va) /\ Agrees(u.members, u.va)
    /\ getValidators(u.va) = getValidators(valAssignments)

\* One iteration.
LEMMA RemoveProxyMidway ==
    ASSUME hash \in Hashes, ring \subseteq Proxies, NEW u, Midway(u), NEW p
    PROVE  Midway(removeProxy(u, p))
<1>1. CASE p \in DOMAIN u.va.proxyToVals
    <2>. DEFINE m == u.members \ {p}
    <2>1. m \in SUBSET ring /\ m \in SUBSET Proxies /\ WellFormed(u.va)
        BY DEF Midway
    <2>2. removeProxy(u, p) = [members |-> m, va |-> reassignValidators(m, u.va)]
        BY <1>1 DEF removeProxy
    <2>. HIDE DEF m
    <2>3. /\ WellFormed(reassignValidators(m, u.va))
          /\ getValidators(reassignValidators(m, u.va)) = getValidators(u.va)
          /\ Agrees(m, reassignValidators(m, u.va))
        BY <2>1, Reassigned, ReassignedAgrees
    <2>. QED  BY <2>1, <2>2, <2>3 DEF Midway
<1>2. CASE p \notin DOMAIN u.va.proxyToVals
    BY <1>2 DEF removeProxy
<1>. QED  BY <1>1, <1>2

\* The loop, in whatever order it comes to the proxies.
LEMMA LoopEnds ==
    ASSUME hash \in Hashes, ring \subseteq Proxies, NEW order, Len(order) \in Nat,
           WellFormed(valAssignments), Agrees(ring, valAssignments)
    PROVE  Midway(unassignDisconnectedProxies(order))
<1>. DEFINE start == [members |-> ring, va |-> valAssignments]
            Body(g, n) == [i \in 0 .. n |-> IF i = 0 THEN start ELSE removeProxy(g[i - 1], order[i])]
            Runs == {n \in Nat : \E g : g = Body(g, n)}
<1>1. Runs = Nat
    <2>1. 0 \in Runs
        <3>. DEFINE g == [i \in 0 .. 0 |-> start]
        <3>1. g = Body(g, 0)
            OBVIOUS
        <3>. QED  BY <3>1, Zenon
    <2>2. ASSUME NEW n \in Runs
          PROVE  n + 1 \in Runs
        <3>1. PICK g : g = Body(g, n)
            OBVIOUS
        <3>. DEFINE h == [i \in 0 .. n + 1 |-> IF i <= n THEN g[i] ELSE removeProxy(g[n], order[n + 1])]
        <3>2. /\ DOMAIN g = 0 .. n
              /\ \A i \in 0 .. n : g[i] = IF i = 0 THEN start ELSE removeProxy(g[i - 1], order[i])
            BY <3>1
        <3>3. \A i \in 0 .. n : h[i] = g[i]
            OBVIOUS
        <3>4. ASSUME NEW i \in 0 .. n + 1
              PROVE  h[i] = IF i = 0 THEN start ELSE removeProxy(h[i - 1], order[i])
            <4>1. CASE i = 0
                BY <4>1, <3>2, <3>3
            <4>2. CASE i # 0 /\ i <= n
                <5>1. i \in 0 .. n /\ i - 1 \in 0 .. n
                    BY <4>2
                <5>. HIDE DEF h
                <5>. QED  BY <4>2, <5>1, <3>2, <3>3
            <4>3. CASE i = n + 1
                <5>1. h[i] = removeProxy(g[n], order[n + 1]) /\ i - 1 = n /\ n \in 0 .. n /\ i # 0
                    BY <4>3
                <5>. HIDE DEF h
                <5>. QED  BY <4>3, <5>1, <3>3
            <4>. QED  BY <4>1, <4>2, <4>3
        <3>5. h = Body(h, n + 1)
            <4>1. h = [i \in 0 .. n + 1 |-> h[i]]
                OBVIOUS
            <4>. HIDE DEF h
            <4>. QED  BY <3>4, <4>1, Zenon
        <3>6. n + 1 \in Nat
            OBVIOUS
        <3>. HIDE DEF h, Body
        <3>. QED  BY <3>5, <3>6
    <2>3. Runs \in SUBSET Nat
        OBVIOUS
    <2>. HIDE DEF Runs
    <2>. QED  BY <2>1, <2>2, <2>3, Induction, Zenon
<1>. DEFINE N == Len(order)
            after == CHOOSE g : g = Body(g, N)
<1>2. after = Body(after, N)
    <2>1. \E g : g = Body(g, N)
        BY <1>1
    <2>. HIDE DEF Body, Runs
    <2>. QED  BY <2>1
<1>. HIDE DEF after
<1>3. \A i \in 0 .. N : after[i] = IF i = 0 THEN start ELSE removeProxy(after[i - 1], order[i])
    BY <1>2
<1>. DEFINE T == {n \in Nat : n <= N => Midway(after[n])}
<1>4. T = Nat
    <2>1. 0 \in T
        <3>1. after[0] = start
            BY <1>3
        <3>2. Midway(start)
            BY DEF Midway
        <3>. QED  BY <3>1, <3>2
    <2>2. ASSUME NEW n \in T
          PROVE  n + 1 \in T
        <3>. SUFFICES ASSUME n + 1 <= N PROVE Midway(after[n + 1])
            OBVIOUS
        <3>1. after[n + 1] = removeProxy(after[n], order[n + 1])
            BY <1>3
        <3>2. Midway(after[n])
            OBVIOUS
        <3>. QED  BY <3>1, <3>2, RemoveProxyMidway
    <2>3. T \in SUBSET Nat
        OBVIOUS
    <2>. HIDE DEF T
    <2>. QED  BY <2>1, <2>2, <2>3, Induction
<1>5. Midway(after[N])
    BY <1>4
<1>. QED  BY <1>5 DEF unassignDisconnectedProxies, after

-----------------------------------------------------------------------------
(***************************************************************************)
(* The inductive invariant.  Only proxies of the set are members of the    *)
(* hash, and the events that wait in the channels are of connections that  *)
(* there were.                                                             *)
(***************************************************************************)
Numbers == 0 .. connections

SetTypes ==
    /\ engine \in {"stopped", "starting", "running", "stopping"}
    /\ proxiesByID \in SUBSET Proxies /\ disconnected \in SUBSET proxiesByID
    /\ ring \in SUBSET proxiesByID /\ static \in SUBSET Proxies /\ asking \in SUBSET Proxies
    /\ removing \in Proxies \cup {nil}
    /\ connSet \in SUBSET Validators /\ confirmed \in BOOLEAN
    /\ hash \in Hashes

NumberTypes ==
    /\ connections \in Nat
    /\ connection \in [Proxies -> Numbers] /\ peer \in [Proxies -> Numbers]
    /\ addProxyPeer \in Seq(Proxies \X Numbers)
    /\ removeProxyPeer \in Seq(Proxies \X Numbers)

TableTypes == valEnodes \in [Proxies -> SUBSET Validators]

AssignmentInv == WellFormed(valAssignments) /\ Agrees(ring, valAssignments)

IInv == SetTypes /\ NumberTypes /\ TableTypes /\ AssignmentInv /\ ConnSetAssigned

\* The validators of a well-formed assignment.
LEMMA WellFormedFacts ==
    ASSUME NEW va, WellFormed(va)
    PROVE  /\ getValidators(va) \in SUBSET Validators
           /\ \A v \in getValidators(va) : va.valToProxy[v] \in Proxies \cup {nil}
           /\ \A p : p \in DOMAIN va.proxyToVals
                        <=> p # nil /\ \E v \in getValidators(va) : va.valToProxy[v] = p
           /\ \A p \in DOMAIN va.proxyToVals :
                va.proxyToVals[p] = {v \in getValidators(va) : va.valToProxy[v] = p}
<1>1. PICK f \in Maps : va = Assignment(f)
    BY DEF WellFormed
<1>2. /\ va.valToProxy = f /\ va.proxyToVals = Reversed(f) /\ getValidators(va) = DOMAIN f
      /\ \A p : p \in DOMAIN Reversed(f) <=> p # nil /\ \E v \in DOMAIN f : f[v] = p
      /\ \A p \in DOMAIN Reversed(f) : Reversed(f)[p] = {v \in DOMAIN f : f[v] = p}
    BY <1>1, AssignmentFacts
<1>3. DOMAIN f \subseteq Validators /\ \A v \in DOMAIN f : f[v] \in Proxies \cup {nil}
    BY MapFacts
<1>. QED  BY <1>2, <1>3

\* The invariant implies the types.
LEMMA TypesFollow == IInv => TypeOK
<1>. SUFFICES ASSUME IInv PROVE TypeOK
    BY Zenon
<1>. DEFINE va == valAssignments
<1>1. /\ getValidators(va) \in SUBSET Validators
      /\ \A v \in getValidators(va) : va.valToProxy[v] \in Proxies \cup {nil}
      /\ \A p : p \in DOMAIN va.proxyToVals
                    <=> p # nil /\ \E v \in getValidators(va) : va.valToProxy[v] = p
      /\ \A p \in DOMAIN va.proxyToVals :
            va.proxyToVals[p] = {v \in getValidators(va) : va.valToProxy[v] = p}
    BY WellFormedFacts, Zenon DEF IInv, AssignmentInv
<1>2. DOMAIN va.proxyToVals \subseteq Proxies
    BY <1>1
<1>3. \A p \in DOMAIN va.proxyToVals : va.proxyToVals[p] \in (SUBSET Validators) \ {{}}
    <2>. SUFFICES ASSUME NEW p \in DOMAIN va.proxyToVals
                  PROVE  va.proxyToVals[p] \in (SUBSET Validators) \ {{}}
        OBVIOUS
    <2>. HIDE DEF va
    <2>1. PICK v \in getValidators(va) : va.valToProxy[v] = p
        BY <1>1
    <2>2. va.proxyToVals[p] = {w \in getValidators(va) : va.valToProxy[w] = p}
        BY <1>1
    <2>3. v \in va.proxyToVals[p]
        BY <2>1, <2>2
    <2>. QED  BY <1>1, <2>2, <2>3
<1>4. \A p \in Proxies :
        connection[p] \in 0 .. connections /\ peer[p] \in 0 .. connections
        /\ valEnodes[p] \subseteq Validators
    BY DEF IInv, NumberTypes, Numbers, TableTypes
<1>5. /\ engine \in {"stopped", "starting", "running", "stopping"}
      /\ proxiesByID \subseteq Proxies /\ disconnected \subseteq proxiesByID
      /\ ring \subseteq Proxies /\ static \subseteq Proxies /\ asking \subseteq Proxies
      /\ removing \in Proxies \cup {nil} /\ connSet \subseteq Validators
      /\ confirmed \in BOOLEAN
    BY DEF IInv, SetTypes
<1>. QED  BY <1>1, <1>2, <1>3, <1>4, <1>5 DEF TypeOK

\* The invariant implies that the two maps agree, with each other, with the
\* hash and with the set.
LEMMA ConsistencyFollows == IInv => AssignmentsConsistent
<1>. SUFFICES ASSUME IInv PROVE AssignmentsConsistent
    OBVIOUS
<1>. DEFINE va == valAssignments
<1>1. /\ getValidators(va) \in SUBSET Validators
      /\ \A p : p \in DOMAIN va.proxyToVals
                    <=> p # nil /\ \E v \in getValidators(va) : va.valToProxy[v] = p
      /\ \A p \in DOMAIN va.proxyToVals :
            va.proxyToVals[p] = {v \in getValidators(va) : va.valToProxy[v] = p}
    BY WellFormedFacts DEF IInv, AssignmentInv
<1>2. ring \in SUBSET Proxies /\ ring \subseteq proxiesByID /\ hash \in Hashes
    BY DEF IInv, SetTypes
<1>3. \A v \in getValidators(va) : va.valToProxy[v] = LocateKey(ring, v)
    BY DEF IInv, AssignmentInv, Agrees
<1>4. nil \notin Proxies
    BY ConstantsAssumption
<1>5. ASSUME NEW v \in getValidators(va)
      PROVE  va.valToProxy[v] # nil => va.valToProxy[v] \in proxiesByID
    <2>1. LocateKey(ring, v) \in ring \cup {nil}
        BY <1>1, <1>2, KeyIsMember, Zenon
    <2>. QED  BY <1>2, <1>3, <2>1, Zenon
<1>6. ASSUME NEW v \in getValidators(va), NEW p \in Proxies
      PROVE  va.valToProxy[v] = p <=> p \in DOMAIN va.proxyToVals /\ v \in va.proxyToVals[p]
    <2>. HIDE DEF va
    <2>1. p # nil
        BY <1>4
    <2>. QED  BY <1>1, <2>1
<1>. QED  BY <1>3, <1>5, <1>6 DEF AssignmentsConsistent

\* At the start.
LEMMA InitIInv == Init => IInv
<1>. SUFFICES ASSUME Init PROVE IInv
    OBVIOUS
<1>1. SetTypes
    BY ConstantsAssumption DEF Init, SetTypes
<1>2. NumberTypes
    <2>1. connections = 0 /\ 0 \in Numbers
        BY DEF Init, Numbers
    <2>2. addProxyPeer = <<>> /\ removeProxyPeer = <<>>
        BY DEF Init
    <2>. QED  BY <2>1, <2>2 DEF Init, NumberTypes
<1>3. TableTypes
    BY DEF Init, TableTypes
<1>4. AssignmentInv
    <2>1. WellFormed(newValAssignments)
        BY NewAssignment DEF WellFormed
    <2>2. getValidators(newValAssignments) = {}
        BY DEF newValAssignments, getValidators
    <2>. QED  BY <2>1, <2>2 DEF Init, AssignmentInv, Agrees
<1>5. ConnSetAssigned
    BY DEF Init, ConnSetAssigned
<1>. QED  BY <1>1, <1>2, <1>3, <1>4, <1>5 DEF IInv

\* What a step leaves as it is stays as it should be.
LEMMA AssignmentKept ==
    ASSUME hash' = hash, NEW m, NEW va, WellFormed(va), Agrees(m, va),
           ring' = m, valAssignments' = va
    PROVE  AssignmentInv'
BY DEF AssignmentInv, Agrees, LocateKey

\* The types of the connections do not depend on the other variables.
LEMMA NumbersKept ==
    ASSUME NumberTypes, UNCHANGED <<connection, connections, peer, addProxyPeer, removeProxyPeer>>
    PROVE  NumberTypes'
BY DEF NumberTypes, Numbers

\* What the proxies are told.
LEMMA TablesTyped ==
    ASSUME NEW tables \in [Proxies -> SUBSET Validators], NEW known, NEW peers, NEW va,
           WellFormed(va)
    PROVE  sendValEnodeShareMsgs(tables, known, peers, va) \in [Proxies -> SUBSET Validators]
<1>1. getValidators(va) \in SUBSET Validators
    BY WellFormedFacts
<1>2. \A p \in Proxies : getValidatorAssignments(p, peers, va) \in SUBSET Validators
    BY <1>1 DEF getValidatorAssignments
<1>. QED  BY <1>2 DEF sendValEnodeShareMsgs

\* A reassignment on a part of the set, taken over by the thread.
LEMMA TakesKeeps ==
    ASSUME hash \in Hashes, hash' = hash, NEW members \in SUBSET Proxies, ring' = members,
           NEW va, WellFormed(va),
           NEW tables \in [Proxies -> SUBSET Validators], NEW known, NEW peers,
           takes(reassigned(members, va), tables, known, peers)
    PROVE  /\ AssignmentInv' /\ TableTypes'
           /\ getValidators(valAssignments') = getValidators(va)
<1>. DEFINE n == reassignValidators(members, va)
<1>1. WellFormed(n) /\ Agrees(members, n) /\ getValidators(n) = getValidators(va)
    BY Reassigned, ReassignedAgrees
<1>2. reassigned(members, va).va = n
    BY DEF reassigned
<1>. HIDE DEF n
<1>3. valAssignments' = n
    BY <1>2 DEF takes
<1>4. AssignmentInv'
    BY <1>1, <1>3, AssignmentKept
<1>5. valEnodes' \in {tables, sendValEnodeShareMsgs(tables, known, peers, n)}
    BY <1>2 DEF takes
<1>6. TableTypes'
    BY <1>1, <1>5, TablesTyped DEF TableTypes
<1>. QED  BY <1>1, <1>3, <1>4, <1>6

\* A step that leaves the hash and the assignment as they are, with whose types
\* the rest of the invariant is kept.
LEMMA QuietStep ==
    ASSUME IInv, UNCHANGED <<ring, valAssignments, valEnodes, hash>>,
           SetTypes', NumberTypes',
           \/ engine' \notin {"starting", "running"}
           \/ /\ UNCHANGED engine \/ engine \in {"starting", "running"}
              /\ UNCHANGED <<connSet, confirmed>>
    PROVE  IInv'
<1>1. AssignmentInv'
    BY AssignmentKept DEF IInv, AssignmentInv
<1>2. TableTypes' /\ ConnSetAssigned'
    BY DEF IInv, TableTypes, ConnSetAssigned, getValidators
<1>. QED  BY <1>1, <1>2 DEF IInv

-----------------------------------------------------------------------------
(***************************************************************************)
(* The steps.  First those that reassign validators.                       *)
(***************************************************************************)

\* RemoveProxy keeps the invariant.
LEMMA RemoveProxyStep ==
    ASSUME IInv, NEW p \in Proxies, RemoveProxy(p)
    PROVE  IInv'
<1>. DEFINE m == leftBy(p)
            tables == [valEnodes EXCEPT ![p] = IF reaches(p, peer) THEN {} ELSE @]
<1>1. /\ SetTypes /\ NumberTypes /\ WellFormed(valAssignments) /\ ConnSetAssigned
      /\ valEnodes \in [Proxies -> SUBSET Validators]
    BY DEF IInv, AssignmentInv, TableTypes
<1>2. /\ proxiesByID' = proxiesByID \ {p} /\ ring' = m
      /\ takes(reassigned(m, valAssignments), tables, proxiesByID \ {p}, peer)
      /\ peer' = [peer EXCEPT ![p] = 0]
      /\ disconnected' = disconnected \ {p}
      /\ static' = static \ {p}
      /\ removing' \in {p, nil}
      /\ UNCHANGED <<engine, addProxyPeer, removeProxyPeer, newBlockchainEpoch, asking,
                     connection, connections, connSet, confirmed, hash>>
    BY DEF RemoveProxy, removeStatic, peerEvents, retrieval
<1>3. m \in SUBSET (proxiesByID \ {p}) /\ m \in SUBSET Proxies
    BY <1>1 DEF leftBy, SetTypes
<1>4. SetTypes'
    <2>. HIDE DEF m
    <2>. QED  BY <1>1, <1>2, <1>3 DEF SetTypes
<1>5. NumberTypes'
    <2>1. 0 \in Numbers
        BY <1>1 DEF NumberTypes, Numbers
    <2>. QED  BY <1>1, <1>2, <2>1 DEF NumberTypes, Numbers
<1>6. tables \in [Proxies -> SUBSET Validators]
    BY <1>1
<1>7. AssignmentInv' /\ TableTypes' /\ getValidators(valAssignments') = getValidators(valAssignments)
    <2>1. hash \in Hashes
        BY <1>1, Zenon DEF SetTypes
    <2>. HIDE DEF m, tables
    <2>. QED  BY <2>1, <1>1, <1>2, <1>3, <1>6, TakesKeeps, Zenon
<1>8. ConnSetAssigned'
    BY <1>1, <1>2, <1>7 DEF ConnSetAssigned, getValidators
<1>. QED  BY <1>4, <1>5, <1>7, <1>8 DEF IInv

\* setProxyPeer keeps the invariant.
LEMMA SetProxyPeerStep ==
    ASSUME IInv, setProxyPeer
    PROVE  IInv'
<1>. DEFINE p == Head(addProxyPeer)[1]
            c == Head(addProxyPeer)[2]
<1>1. /\ SetTypes /\ NumberTypes /\ AssignmentInv /\ ConnSetAssigned
      /\ WellFormed(valAssignments) /\ hash \in Hashes
      /\ valEnodes \in [Proxies -> SUBSET Validators]
    BY Zenon DEF IInv, AssignmentInv, TableTypes, SetTypes
<1>2. /\ UNCHANGED <<engine, proxiesByID, removing, removeProxyPeer, newBlockchainEpoch, asking,
                     static, connection, connections, connSet, confirmed, hash>>
      /\ addProxyPeer # <<>> /\ addProxyPeer' = Tail(addProxyPeer)
    BY DEF setProxyPeer, network, retrieval
<1>3. p \in Proxies /\ c \in Numbers /\ addProxyPeer' \in Seq(Proxies \X Numbers)
    <2>1. Head(addProxyPeer) \in Proxies \X Numbers /\ Tail(addProxyPeer) \in Seq(Proxies \X Numbers)
        BY <1>1, <1>2 DEF NumberTypes
    <2>. QED  BY <2>1, <1>2
<1>4. CASE p \in proxiesByID
    <2>1. /\ peer' = [peer EXCEPT ![p] = c]
          /\ disconnected' = disconnected \ {p}
          /\ ring' = ring \cup {p}
          /\ takes(reassigned(ring \cup {p}, valAssignments), valEnodes, proxiesByID,
                   [peer EXCEPT ![p] = c])
        BY <1>4 DEF setProxyPeer
    <2>. HIDE DEF p, c
    <2>2. SetTypes'
        BY <1>1, <1>2, <1>4, <2>1, Zenon DEF SetTypes
    <2>3. NumberTypes'
        BY <1>1, <1>2, <1>3, <2>1, Zenon DEF NumberTypes, Numbers
    <2>4. ring \cup {p} \in SUBSET Proxies
        BY <1>1, <1>3 DEF SetTypes
    <2>5. AssignmentInv' /\ TableTypes' /\ getValidators(valAssignments') = getValidators(valAssignments)
        BY <1>1, <1>2, <2>1, <2>4, TakesKeeps, Zenon
    <2>6. ConnSetAssigned'
        BY <1>1, <1>2, <2>5 DEF ConnSetAssigned, getValidators
    <2>. QED  BY <2>2, <2>3, <2>5, <2>6, Zenon DEF IInv
<1>5. CASE p \notin proxiesByID
    <2>1. UNCHANGED <<peer, disconnected, ring, valAssignments, valEnodes>>
        BY <1>5 DEF setProxyPeer
    <2>2. SetTypes'
        BY <1>1, <1>2, <2>1, Zenon DEF SetTypes
    <2>3. NumberTypes'
        BY <1>1, <1>2, <1>3, <2>1, Zenon DEF NumberTypes, Numbers
    <2>4. AssignmentInv'
        BY <1>1, <1>2, <2>1, AssignmentKept DEF AssignmentInv
    <2>5. TableTypes' /\ ConnSetAssigned'
        BY <1>1, <1>2, <2>1 DEF TableTypes, ConnSetAssigned, getValidators
    <2>. QED  BY <2>2, <2>3, <2>4, <2>5, Zenon DEF IInv
<1>. QED  BY <1>4, <1>5

\* An update keeps the invariant, and leads to an assignment of the validators
\* that were retrieved, of no other if there is no new one among them.
LEMMA UpdateStep ==
    ASSUME IInv, NEW vals \in SUBSET Validators, UNCHANGED <<ring, hash>>,
           takes(updateValidatorAssignments(valAssignments, vals), valEnodes, proxiesByID, peer)
    PROVE  /\ AssignmentInv' /\ TableTypes'
           /\ vals \subseteq getValidators(valAssignments')
           /\ vals \subseteq getValidators(valAssignments) => getValidators(valAssignments') = vals
<1>. DEFINE va == valAssignments
            newVals == vals \ getValidators(va)
            rmVals == getValidators(va) \ vals
<1>1. /\ WellFormed(va) /\ Agrees(ring, va) /\ hash \in Hashes /\ ring \in SUBSET Proxies
      /\ valEnodes \in [Proxies -> SUBSET Validators]
      /\ proxiesByID \in SUBSET Proxies
    BY DEF IInv, AssignmentInv, TableTypes, SetTypes
<1>2. /\ ring' = ring /\ hash' = hash
      /\ takes(updateValidatorAssignments(va, vals), valEnodes, proxiesByID, peer)
    OBVIOUS
<1>3. PICK f \in Maps : va = Assignment(f)
    BY <1>1 DEF WellFormed
<1>4. getValidators(va) = DOMAIN f
    BY <1>3, AssignmentFacts
<1>. HIDE DEF va
<1>5. CASE newVals # {}
    <2>. DEFINE g == [v \in DOMAIN f \cup newVals |-> IF v \in newVals THEN nil ELSE f[v]]
                n == addValidators(va, newVals)
    <2>1. newVals \in SUBSET Validators /\ newVals \cap DOMAIN f = {}
        BY <1>1, <1>4
    <2>2. DOMAIN g = DOMAIN f \cup newVals
        OBVIOUS
    <2>. HIDE DEF newVals
    <2>3. g \in Maps /\ n = Assignment(g)
        BY <1>3, <2>1, AddKeepsForm, Zenon
    <2>. HIDE DEF g
    <2>4. WellFormed(n) /\ getValidators(n) = DOMAIN f \cup newVals
        BY <2>2, <2>3, AssignmentFacts, Zenon DEF WellFormed
    <2>5. updateValidatorAssignments(va, vals) = reassigned(ring, n)
        BY <1>5, Zenon DEF updateValidatorAssignments, newVals
    <2>. HIDE DEF n
    <2>6. AssignmentInv' /\ TableTypes' /\ getValidators(valAssignments') = getValidators(n)
        <3>1. takes(reassigned(ring, n), valEnodes, proxiesByID, peer)
            BY <1>2, <2>5, Zenon
        <3>. QED  BY <1>1, <1>2, <2>4, <3>1, TakesKeeps, Zenon
    <2>. QED  BY <1>4, <1>5, <2>4, <2>6 DEF newVals, va
<1>6. CASE newVals = {} /\ rmVals # {}
    <2>. DEFINE g == [v \in DOMAIN f \ rmVals |-> f[v]]
                n == removeValidators(va, rmVals)
    <2>1. rmVals \in SUBSET DOMAIN f
        BY <1>4
    <2>2. DOMAIN g = DOMAIN f \ rmVals
        OBVIOUS
    <2>. HIDE DEF rmVals
    <2>3. g \in Maps /\ n = Assignment(g)
        BY <1>3, <2>1, RemoveKeepsForm, Zenon
    <2>. HIDE DEF g
    <2>4. WellFormed(n) /\ getValidators(n) = DOMAIN f \ rmVals
        BY <2>2, <2>3, AssignmentFacts DEF WellFormed
    <2>5. updateValidatorAssignments(va, vals) = reassigned(ring, n)
        BY <1>6, Zenon DEF updateValidatorAssignments, rmVals
    <2>. HIDE DEF n
    <2>6. AssignmentInv' /\ TableTypes' /\ getValidators(valAssignments') = getValidators(n)
        <3>1. takes(reassigned(ring, n), valEnodes, proxiesByID, peer)
            BY <1>2, <2>5, Zenon
        <3>. QED  BY <1>1, <1>2, <2>4, <3>1, TakesKeeps, Zenon
    <2>7. getValidators(n) = vals
        BY <1>4, <1>6, <2>4 DEF rmVals
    <2>. QED  BY <2>6, <2>7, Zenon
<1>7. CASE newVals = {} /\ rmVals = {}
    <2>1. updateValidatorAssignments(va, vals) = [va |-> va, changed |-> FALSE]
        BY <1>7 DEF updateValidatorAssignments
    <2>2. valAssignments' = va /\ valEnodes' = valEnodes
        BY <1>2, <2>1 DEF takes
    <2>3. AssignmentInv'
        BY <1>1, <1>2, <2>2, AssignmentKept, Zenon
    <2>. QED  BY <1>1, <1>7, <2>2, <2>3, Zenon DEF TableTypes
<1>. QED  BY <1>5, <1>6, <1>7

\* handleEpoch keeps the invariant, whichever set is retrieved, or none.
LEMMA EpochStep ==
    ASSUME IInv, handleEpoch
    PROVE  IInv'
<1>1. SetTypes /\ NumberTypes /\ ConnSetAssigned
    BY DEF IInv
<1>2. /\ engine \in {"starting", "running"}
      /\ UNCHANGED <<engine, proxiesByID, peer, disconnected, ring, removing, addProxyPeer,
                     removeProxyPeer, asking, static, connection, connections, hash>>
    BY DEF handleEpoch, selecting, network, peerEvents
<1>3. ASSUME NEW vals \in ConnSets,
             takes(updateValidatorAssignments(valAssignments, vals), valEnodes, proxiesByID, peer),
             connSet' = vals, confirmed' = (vals = connSet)
      PROVE  IInv'
    <2>1. vals \in SUBSET Validators
        BY ConstantsAssumption
    <2>2. /\ AssignmentInv' /\ TableTypes'
          /\ vals \subseteq getValidators(valAssignments')
          /\ vals \subseteq getValidators(valAssignments) => getValidators(valAssignments') = vals
        BY <1>2, <1>3, <2>1, UpdateStep
    <2>3. getValidators(valAssignments)' = getValidators(valAssignments')
        BY DEF getValidators
    <2>4. ConnSetAssigned'
        BY <1>1, <1>2, <1>3, <2>2, <2>3 DEF ConnSetAssigned
    <2>5. SetTypes' /\ NumberTypes'
        BY <1>1, <1>2, <1>3, <2>1, NumbersKept DEF SetTypes
    <2>. QED  BY <2>2, <2>4, <2>5 DEF IInv
<1>4. CASE UNCHANGED <<valAssignments, valEnodes, connSet, confirmed>>
    <2>1. SetTypes' /\ NumberTypes'
        BY <1>1, <1>2, <1>4, NumbersKept DEF SetTypes
    <2>. QED  BY <1>2, <1>4, <2>1, QuietStep, Zenon
<1>. QED  BY <1>3, <1>4 DEF handleEpoch, RetrieveValidatorConnSet, retrieval

\* schedulerTick keeps the invariant, whatever it meets in the map that it
\* changes.
LEMMA TickStep ==
    ASSUME IInv, schedulerTick
    PROVE  IInv'
<1>1. /\ SetTypes /\ NumberTypes /\ ConnSetAssigned
      /\ WellFormed(valAssignments) /\ Agrees(ring, valAssignments)
      /\ hash \in Hashes /\ ring \in SUBSET Proxies /\ proxiesByID \in SUBSET Proxies
      /\ valEnodes \in [Proxies -> SUBSET Validators]
    BY DEF IInv, AssignmentInv, TableTypes, SetTypes
<1>2. UNCHANGED <<engine, proxiesByID, peer, disconnected, removing, addProxyPeer, removeProxyPeer,
                  newBlockchainEpoch, asking, static, connection, connections,
                  connSet, confirmed, hash>>
    BY DEF schedulerTick, network, peerEvents, retrieval
<1>3. PICK loop \in SUBSET {p \in proxiesByID : stale(p)} :
        \E order \in Injection(1 .. Cardinality(loop), loop) :
            \E u \in {unassignDisconnectedProxies(order)} :
                ring' = u.members /\ valAssignments' = u.va /\ valEnodes' = resend(u.va)
    BY DEF schedulerTick
<1>4. PICK order \in Injection(1 .. Cardinality(loop), loop) :
        \E u \in {unassignDisconnectedProxies(order)} :
            ring' = u.members /\ valAssignments' = u.va /\ valEnodes' = resend(u.va)
    BY <1>3
<1>. DEFINE u == unassignDisconnectedProxies(order)
<1>5. ring' = u.members /\ valAssignments' = u.va /\ valEnodes' = resend(u.va)
    BY <1>4
<1>6. Len(order) \in Nat
    <2>1. IsFiniteSet(loop)
        BY <1>1, FS_Subset, ConstantsAssumption
    <2>2. Cardinality(loop) \in Nat
        BY <2>1, FS_CardinalityType
    <2>3. order \in [1 .. Cardinality(loop) -> loop]
        BY DEF Injection
    <2>. QED  BY <2>2, <2>3
<1>7. Midway(u)
    BY <1>1, <1>6, LoopEnds, Zenon
<1>. HIDE DEF u
<1>8. /\ u.members \in SUBSET ring /\ WellFormed(u.va) /\ Agrees(u.members, u.va)
      /\ getValidators(u.va) = getValidators(valAssignments)
    BY <1>7, Zenon DEF Midway
<1>9. AssignmentInv'
    BY <1>2, <1>5, <1>8, AssignmentKept, Zenon
<1>10. TableTypes'
    BY <1>1, <1>5, <1>8, TablesTyped, Zenon DEF TableTypes, resend
<1>11. SetTypes' /\ NumberTypes'
    BY <1>1, <1>2, <1>5, <1>8, NumbersKept, Zenon DEF SetTypes
<1>12. ConnSetAssigned'
    BY <1>1, <1>2, <1>5, <1>8, Zenon DEF ConnSetAssigned, getValidators
<1>. QED  BY <1>9, <1>10, <1>11, <1>12, Zenon DEF IInv

\* The assignment that the thread starts with.
LEMMA FirstAssignment ==
    ASSUME hash \in Hashes, NEW vals \in SUBSET Validators
    PROVE  LET va == reassignValidators({}, addValidators(newValAssignments, vals))
           IN  WellFormed(va) /\ Agrees({}, va) /\ getValidators(va) = vals
<1>. DEFINE e == [v \in {} |-> nil]
            n == addValidators(newValAssignments, vals)
            g == [v \in DOMAIN e \cup vals |-> IF v \in vals THEN nil ELSE e[v]]
<1>1. e \in Maps /\ newValAssignments = Assignment(e) /\ vals \cap DOMAIN e = {}
    BY NewAssignment
<1>2. DOMAIN g = vals
    OBVIOUS
<1>. HIDE DEF e
<1>3. g \in Maps /\ n = Assignment(g)
    BY <1>1, AddKeepsForm, Zenon
<1>. HIDE DEF g
<1>4. WellFormed(n) /\ getValidators(n) = vals
    BY <1>2, <1>3, AssignmentFacts DEF WellFormed
<1>. HIDE DEF n
<1>5. /\ WellFormed(reassignValidators({}, n)) /\ Agrees({}, reassignValidators({}, n))
      /\ getValidators(reassignValidators({}, n)) = vals
    BY <1>4, Reassigned, ReassignedAgrees
<1>. QED  BY <1>5 DEF n

\* Start keeps the invariant.
LEMMA StartStep ==
    ASSUME IInv, Start
    PROVE  IInv'
<1>1. SetTypes /\ NumberTypes /\ TableTypes /\ hash \in Hashes
    BY DEF IInv, SetTypes
<1>2. /\ engine' = "starting"
      /\ proxiesByID' = {} /\ ring' = {} /\ disconnected' = {}
      /\ peer' = [p \in Proxies |-> 0]
      /\ confirmed' = FALSE
      /\ UNCHANGED <<removing, addProxyPeer, removeProxyPeer, asking, static, connection, connections,
                     valEnodes, hash>>
    BY DEF Start, network, peerEvents
<1>3. /\ WellFormed(valAssignments') /\ Agrees({}, valAssignments')
      /\ connSet' \in SUBSET Validators /\ connSet' \subseteq getValidators(valAssignments')
    <2>1. ASSUME NEW vals \in ConnSets, connSet' = vals,
                 valAssignments' = reassignValidators({}, addValidators(newValAssignments, vals))
          PROVE  /\ WellFormed(valAssignments') /\ Agrees({}, valAssignments')
                 /\ connSet' \in SUBSET Validators
                 /\ connSet' \subseteq getValidators(valAssignments')
        <3>1. vals \in SUBSET Validators
            BY ConstantsAssumption
        <3>. QED  BY <1>1, <2>1, <3>1, FirstAssignment
    <2>2. CASE valAssignments' = newValAssignments /\ connSet' = {}
        <3>1. WellFormed(newValAssignments)
            BY NewAssignment DEF WellFormed
        <3>2. getValidators(newValAssignments) = {}
            BY DEF newValAssignments, getValidators
        <3>. QED  BY <2>2, <3>1, <3>2 DEF Agrees
    <2>. QED  BY <2>1, <2>2 DEF Start, RetrieveValidatorConnSet
<1>4. AssignmentInv'
    BY <1>2, <1>3, AssignmentKept
<1>5. SetTypes' /\ TableTypes'
    BY <1>1, <1>2, <1>3 DEF SetTypes, TableTypes
<1>6. NumberTypes'
    <2>1. 0 \in Numbers
        BY <1>1 DEF NumberTypes, Numbers
    <2>. QED  BY <1>1, <1>2, <2>1 DEF NumberTypes, Numbers
<1>7. ConnSetAssigned'
    BY <1>2, <1>3 DEF ConnSetAssigned, getValidators
<1>. QED  BY <1>4, <1>5, <1>6, <1>7, Zenon DEF IInv

-----------------------------------------------------------------------------
(***************************************************************************)
(* The steps that leave the hash and the assignment as they are.           *)
(***************************************************************************)

\* The adding of proxies keeps the invariant, by command or on the start.
LEMMA AddProxiesStep ==
    ASSUME IInv, NEW configs \in SUBSET Proxies, addProxies(configs),
           \/ UNCHANGED engine
           \/ engine = "starting" /\ engine' = "running"
    PROVE  IInv'
<1>. DEFINE new == configs \ proxiesByID
<1>1. SetTypes /\ NumberTypes
    BY DEF IInv
<1>2. /\ proxiesByID' = proxiesByID \cup new
      /\ peer' = [p \in Proxies |-> IF p \in new THEN 0 ELSE peer[p]]
      /\ disconnected' = disconnected \ new
      /\ static' = static \cup new
      /\ UNCHANGED <<ring, valAssignments, removing, addProxyPeer, removeProxyPeer,
                     newBlockchainEpoch, asking, connection, connections,
                     connSet, confirmed, valEnodes, hash>>
    BY DEF addProxies, peerEvents, retrieval
<1>3. SetTypes'
    BY <1>1, <1>2 DEF SetTypes
<1>4. NumberTypes'
    <2>1. 0 \in Numbers
        BY <1>1 DEF NumberTypes, Numbers
    <2>2. peer' \in [Proxies -> Numbers]
        BY <1>1, <1>2, <2>1 DEF NumberTypes
    <2>. HIDE DEF new
    <2>. QED  BY <1>1, <1>2, <2>2 DEF NumberTypes, Numbers
<1>. HIDE DEF new
<1>. QED  BY <1>2, <1>3, <1>4, QuietStep

\* The steps of a proxy that leave the assignment alone keep the invariant.
LEMMA ProxyQuietStep ==
    ASSUME IInv, NEW p \in Proxies,
           \/ RegisterProxyPeer(p) \/ UnregisterProxyPeer(p)
           \/ shouldHandleDelegateSign(p) \/ proxiedValThreadOp(p) \/ disconnectTime(p)
    PROVE  IInv'
<1>. USE DEF network, peerEvents, retrieval, proxySet
<1>0. SetTypes /\ NumberTypes
    BY DEF IInv
<1>1. CASE RegisterProxyPeer(p)
    <2>1. /\ connections' = connections + 1
          /\ connection' = [connection EXCEPT ![p] = connections']
          /\ addProxyPeer' = Append(addProxyPeer, <<p, connections'>>)
          /\ UNCHANGED <<engine, proxiesByID, peer, disconnected, ring, valAssignments, removing,
                         removeProxyPeer, newBlockchainEpoch, asking, static,
                         connSet, confirmed, valEnodes, hash>>
        BY <1>1, Zenon DEF RegisterProxyPeer
    <2>2. SetTypes'
        BY <1>0, <2>1, Zenon DEF SetTypes
    <2>3. connections' \in Nat /\ Numbers \subseteq Numbers' /\ connections' \in Numbers'
        BY <1>0, <2>1 DEF NumberTypes, Numbers
    <2>4. connection' \in [Proxies -> Numbers'] /\ peer' \in [Proxies -> Numbers']
        BY <1>0, <2>1, <2>3, Zenon DEF NumberTypes
    <2>5. Seq(Proxies \X Numbers) \subseteq Seq(Proxies \X Numbers')
        <3>. DEFINE A == Proxies \X Numbers
                    B == Proxies \X Numbers'
        <3>1. A \subseteq B
            BY <2>3, Zenon
        <3>. HIDE DEF A, B
        <3>2. Seq(A) \subseteq Seq(B)
            BY <3>1
        <3>. QED  BY <3>2, Zenon DEF A, B
    <2>6. addProxyPeer' \in Seq(Proxies \X Numbers') /\ removeProxyPeer' \in Seq(Proxies \X Numbers')
        <3>1. addProxyPeer \in Seq(Proxies \X Numbers') /\ <<p, connections'>> \in Proxies \X Numbers'
            BY <1>0, <2>3, <2>5, Zenon DEF NumberTypes
        <3>2. removeProxyPeer' \in Seq(Proxies \X Numbers')
            BY <1>0, <2>1, <2>5 DEF NumberTypes
        <3>. QED  BY <2>1, <3>1, <3>2
    <2>7. NumberTypes'
        BY <2>3, <2>4, <2>6 DEF NumberTypes
    <2>. QED  BY <2>1, <2>2, <2>7, QuietStep, Zenon
<1>2. CASE UnregisterProxyPeer(p)
    <2>1. /\ connection' = [connection EXCEPT ![p] = 0]
          /\ removeProxyPeer' \in {Append(removeProxyPeer, <<p, connection[p]>>), removeProxyPeer}
          /\ UNCHANGED <<engine, proxiesByID, peer, disconnected, ring, valAssignments, removing,
                         addProxyPeer, newBlockchainEpoch, asking, static, connections,
                         connSet, confirmed,
                         valEnodes, hash>>
        BY <1>2, Zenon DEF UnregisterProxyPeer
    <2>2. SetTypes'
        BY <1>0, <2>1 DEF SetTypes
    <2>3. 0 \in Numbers /\ <<p, connection[p]>> \in Proxies \X Numbers /\ Numbers' = Numbers
        BY <1>0, <2>1 DEF NumberTypes, Numbers
    <2>4. removeProxyPeer' \in Seq(Proxies \X Numbers)
        <3>. DEFINE A == Proxies \X Numbers
                    x == <<p, connection[p]>>
        <3>1. /\ removeProxyPeer \in Seq(A) /\ x \in A
              /\ removeProxyPeer' \in {Append(removeProxyPeer, x), removeProxyPeer}
            BY <1>0, <2>1, <2>3 DEF NumberTypes
        <3>. HIDE DEF A, x
        <3>2. removeProxyPeer' \in Seq(A)
            BY <3>1
        <3>. QED  BY <3>2, Zenon DEF A
    <2>5. NumberTypes'
        BY <1>0, <2>1, <2>3, <2>4, Zenon DEF NumberTypes
    <2>. QED  BY <2>1, <2>2, <2>5, QuietStep
<1>3. CASE shouldHandleDelegateSign(p) \/ proxiedValThreadOp(p)
    <2>1. /\ asking' \in {asking \cup {p}, asking \ {p}}
          /\ UNCHANGED <<engine, proxiesByID, peer, disconnected, ring, valAssignments, removing,
                         addProxyPeer, removeProxyPeer, newBlockchainEpoch, static, connection,
                         connections, connSet, confirmed, valEnodes, hash>>
        BY <1>3, Zenon DEF shouldHandleDelegateSign, proxiedValThreadOp
    <2>2. SetTypes' /\ NumberTypes'
        BY <1>0, <2>1, NumbersKept, Zenon DEF SetTypes
    <2>. QED  BY <2>1, <2>2, QuietStep, Zenon
<1>4. CASE disconnectTime(p)
    <2>1. /\ p \in proxiesByID /\ disconnected' = disconnected \cup {p}
          /\ UNCHANGED <<engine, proxiesByID, peer, ring, valAssignments, removing, addProxyPeer,
                         removeProxyPeer, newBlockchainEpoch, asking, static, connection,
                         connections, connSet, confirmed, valEnodes, hash>>
        BY <1>4, Zenon DEF disconnectTime
    <2>2. SetTypes' /\ NumberTypes'
        BY <1>0, <2>1, NumbersKept DEF SetTypes
    <2>. QED  BY <2>1, <2>2, QuietStep, Zenon
<1>. QED  BY <1>1, <1>2, <1>3, <1>4

\* So do those of the engine.
LEMMA EngineQuietStep ==
    ASSUME IInv,
           \/ NewEpoch
           \/ unsetProxyPeer \/ RemovePeerReturns \/ Stop \/ stopped
    PROVE  IInv'
<1>. USE DEF network, peerEvents, retrieval, proxySet
<1>0. SetTypes /\ NumberTypes
    BY DEF IInv
<1>1. CASE NewEpoch
    <2>1. UNCHANGED <<engine, proxiesByID, peer, disconnected, ring, valAssignments, removing,
                      addProxyPeer, removeProxyPeer, asking, static, connection, connections,
                      connSet, confirmed, valEnodes, hash>>
        BY <1>1, Zenon DEF NewEpoch
    <2>2. SetTypes' /\ NumberTypes'
        BY <1>0, <2>1, NumbersKept DEF SetTypes
    <2>. QED  BY <2>1, <2>2, QuietStep, Zenon
<1>2. CASE unsetProxyPeer
    <2>. DEFINE p == Head(removeProxyPeer)[1]
    <2>1. /\ removeProxyPeer # <<>> /\ removeProxyPeer' = Tail(removeProxyPeer)
          /\ \/ peer' = [peer EXCEPT ![p] = 0] /\ disconnected' = disconnected \ {p}
             \/ UNCHANGED <<peer, disconnected>>
          /\ UNCHANGED <<engine, proxiesByID, ring, valAssignments, removing, addProxyPeer,
                         newBlockchainEpoch, asking, static, connection, connections,
                         connSet, confirmed,
                         valEnodes, hash>>
        BY <1>2 DEF unsetProxyPeer
    <2>. HIDE DEF p
    <2>2. SetTypes'
        BY <1>0, <2>1 DEF SetTypes
    <2>3. Tail(removeProxyPeer) \in Seq(Proxies \X Numbers) /\ Numbers' = Numbers /\ 0 \in Numbers
        BY <1>0, <2>1 DEF NumberTypes, Numbers
    <2>4. NumberTypes'
        BY <1>0, <2>1, <2>3, Zenon DEF NumberTypes
    <2>. QED  BY <2>1, <2>2, <2>4, QuietStep
<1>3. CASE RemovePeerReturns
    <2>1. /\ removing' = nil
          /\ UNCHANGED <<engine, proxiesByID, peer, disconnected, ring, valAssignments,
                         addProxyPeer, removeProxyPeer, newBlockchainEpoch, asking, static,
                         connection, connections, connSet, confirmed, valEnodes, hash>>
        BY <1>3, Zenon DEF RemovePeerReturns
    <2>2. SetTypes' /\ NumberTypes'
        BY <1>0, <2>1, NumbersKept, Zenon DEF SetTypes
    <2>. QED  BY <2>1, <2>2, QuietStep, Zenon
<1>4. CASE Stop \/ stopped
    <2>1. /\ engine' \in {"stopping", "stopped"} /\ asking' \in {{}, asking}
          /\ UNCHANGED <<proxiesByID, peer, disconnected, ring, valAssignments, removing,
                         addProxyPeer, removeProxyPeer, static, connection, connections,
                         connSet, confirmed,
                         valEnodes, hash>>
        BY <1>4, Zenon DEF Stop, stopped
    <2>2. SetTypes' /\ NumberTypes'
        BY <1>0, <2>1, NumbersKept, Zenon DEF SetTypes
    <2>. QED  BY <2>1, <2>2, QuietStep, Zenon
<1>. QED  BY <1>1, <1>2, <1>3, <1>4

-----------------------------------------------------------------------------
\* Every step keeps the invariant.
LEMMA NextIInv == IInv /\ [Next]_vars => IInv'
<1>. SUFFICES ASSUME IInv, [Next]_vars PROVE IInv'
    OBVIOUS
<1>1. CASE UNCHANGED vars
    <2>1. UNCHANGED <<engine, proxiesByID, peer, disconnected, ring, valAssignments, removing,
                      addProxyPeer, removeProxyPeer, newBlockchainEpoch, asking, static,
                      connection, connections, connSet, confirmed, valEnodes, hash>>
        BY <1>1, Zenon DEF vars, proxySet, peerEvents, retrieval, network
    <2>2. SetTypes' /\ NumberTypes'
        BY <2>1, NumbersKept DEF IInv, SetTypes
    <2>. QED  BY <2>1, <2>2, QuietStep, Zenon
<1>2. ASSUME NEW p \in Proxies, AddProxy(p)
      PROVE  IInv'
    BY <1>2, AddProxiesStep, Zenon DEF AddProxy
<1>3. CASE started
    BY <1>3, AddProxiesStep, ConstantsAssumption DEF started
<1>4. ASSUME NEW p \in Proxies, RemoveProxy(p)
      PROVE  IInv'
    BY <1>4, RemoveProxyStep
<1>5. ASSUME NEW p \in Proxies,
             \/ RegisterProxyPeer(p) \/ UnregisterProxyPeer(p)
             \/ shouldHandleDelegateSign(p) \/ proxiedValThreadOp(p) \/ disconnectTime(p)
      PROVE  IInv'
    BY <1>5, ProxyQuietStep
<1>6. CASE \/ NewEpoch
           \/ unsetProxyPeer \/ RemovePeerReturns \/ Stop \/ stopped
    BY <1>6, EngineQuietStep
<1>7. CASE setProxyPeer
    BY <1>7, SetProxyPeerStep
<1>8. CASE handleEpoch
    BY <1>8, EpochStep
<1>9. CASE schedulerTick
    BY <1>9, TickStep
<1>10. CASE Start
    BY <1>10, StartStep
<1>. QED  BY <1>1, <1>2, <1>3, <1>4, <1>5, <1>6, <1>7, <1>8, <1>9, <1>10, Zenon DEF Next

\* So the invariant always holds.
LEMMA IInvHolds == Spec => []IInv
BY InitIInv, NextIInv, PTL DEF Spec

\* The types, and that a proxy has an entry in proxyToVals only while it has a
\* validator.
THEOREM TypeCorrect == Spec => []TypeOK
BY IInvHolds, TypesFollow, PTL

\* The two maps of the assignment are each other's reverse, agree with the hash
\* and lead only to proxies that the set knows: getValidatorAssignments may
\* dereference the proxy of any validator, in whatever order the commands,
\* connections, epochs, ticks and restarts came, and whatever the loop of
\* unassignDisconnectedProxies met in the map that it changed.
THEOREM AssignmentsStayConsistent == Spec => []AssignmentsConsistent
BY IInvHolds, ConsistencyFollows, PTL

\* Every validator of the set that the thread retrieved last takes part in the
\* assignment, and no other once the same set was retrieved twice: whatever sets
\* the updates meet and whichever of them fail, updateValidatorAssignments skips
\* no addition, and skips removals only until the set has settled.
THEOREM ConnSetStaysAssigned == Spec => []ConnSetAssigned
<1>1. IInv => ConnSetAssigned
    BY DEF IInv
<1>. QED  BY <1>1, IInvHolds, PTL

=============================================================================
