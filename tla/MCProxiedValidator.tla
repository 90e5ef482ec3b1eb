------------------------- MODULE MCProxiedValidator -------------------------
(***************************************************************************)
(* ProxiedValidator with two proxies and two remote validators.  A ring of *)
(* one proxy leaves no choice; on a ring of both, each has a validator.    *)
(***************************************************************************)
EXTENDS ProxiedValidator, FiniteSetsExt

CONSTANTS proxy1, proxy2, validator1, validator2

TwoProxies == {proxy1, proxy2}
TwoValidators == {validator1, validator2}
OneOrOther == {{validator1}, {validator2}}

OneEach ==
    {[members \in (SUBSET TwoProxies) \ {{}} |->
        [val \in TwoValidators |->
            IF members # TwoProxies THEN CHOOSE one \in members : TRUE
            ELSE IF val = validator1 THEN proxy1 ELSE proxy2]]}

-----------------------------------------------------------------------------
\* One validator after the other, as the loops of the code go.
removeEach(va, vals) ==
    FoldSet(LAMBDA v, a : removeValidators(a, {v}), va, vals)

reassignEach(va, located) ==
    LET moves(v, a) == a.valToProxy[v] # located[v]
        without(v, a) == unassignValidator(a, {v})
        reassign(v, a) ==
            IF located[v] = nil THEN without(v, a)
            ELSE IF moves(v, a) THEN assignValidator(without(v, a), {v}, located)
            ELSE a
    IN  FoldSet(reassign, va, getValidators(va))

\* The assignments in which the two maps are each other's reverse.
Assignments ==
    {[valToProxy |-> f,
      proxyToVals |-> [p \in Range(f) \ {nil} |-> {v \in DOMAIN f : f[v] = p}]] :
        f \in UNION {[vals -> Proxies \cup {nil}] : vals \in SUBSET Validators}}

\* What is done at once comes to the same.
ASSUME OneAfterTheOther ==
    \A va \in Assignments :
        /\ \A vals \in SUBSET getValidators(va) : removeValidators(va, vals) = removeEach(va, vals)
        /\ \A located \in [getValidators(va) -> Proxies \cup {nil}] :
            LET moved == {v \in getValidators(va) : va.valToProxy[v] # located[v]}
            IN  assignValidator(unassignValidator(va, moved),
                                {v \in moved : located[v] # nil}, located)
                    = reassignEach(va, located)

=============================================================================
