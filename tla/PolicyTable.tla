---- MODULE PolicyTable ----
(***************************************************************************)
(* The routing policy of internal/pkg/table/policy.go while it is changed  *)
(* through the API: defined sets, statements and policies by name, and     *)
(* the policies assigned to the global table and to route server clients,  *)
(* by direction.  Every operation runs under the policy's lock, so each is *)
(* one action; what is hard is that the maps, the policies, the statements *)
(* and the conditions point to each other's objects, while the API names   *)
(* them.                                                                   *)
(*                                                                         *)
(* Objects are numbers: sets[i], statements[i] and policies[i] are what    *)
(* the i-th object of its kind holds, 0 is no object.  There is one name   *)
(* of a defined set and one type of condition, on membership in that set,  *)
(* a prefix set.                                                           *)
(* Modification actions of statements, which change a path and not its     *)
(* fate, are left out.                                                     *)
(***************************************************************************)
EXTENDS Integers, Sequences, SequencesExt, FiniteSets

CONSTANTS
    StatementNames, PolicyNames,
    Ids,            \* whose assignments there are: the global table, clients
    Global,         \* the one of the global table
    Routes,         \* routes, and members of defined sets
    Family,         \* of each route: a defined set has routes of one
    Definitions,    \* what the API may say of statements: sequences of
                    \* [name, cond, route]
    Configs,        \* configurations to load: [sets, policies]
    Assigned,       \* and the policies assigned at the start: [Ids -> [Dirs ->
                    \* names]]
    MaxOps          \* bound on operations

VARIABLES
    sets,           \* defined sets: sequence of sets of routes
    statements,     \* sequence of [name, set, route]
    policies,       \* sequence of [name, statements]
    definedSet,     \* definedSetMap at the one name
    statementMap, policyMap,
    assignment,     \* assignmentMap: [present, import, export], the latter
                    \* [policies, default]; a client is present while it is
                    \* in the neighborMap of the server
    failed,         \* the last operation returned an error
    ops,
    cut,            \* definedSet was taken away from, or replaced under, statements
    loose           \* bare statements a policy got in place of ones not found

objects == <<sets, statements, policies>>
maps == <<definedSet, statementMap, policyMap>>
vars == <<objects, maps, assignment, failed, ops, cut, loose>>

Dirs == {"import", "export"}

NoAssignment == [policies |-> <<>>, default |-> "none"]

Absent == [present |-> FALSE, import |-> NoAssignment, export |-> NoAssignment]

Names(defs) == [i \in 1 .. Len(defs) |-> defs[i].name]

NamesOf(p) ==
    IF p = 0 THEN {}
    ELSE {statements[policies[p].statements[i]].name : i \in 1 .. Len(policies[p].statements)}

InMap == {policyMap[n] : n \in PolicyNames} \ {0}

-----------------------------------------------------------------------------
(* Applying policies *)

\* Statement.Evaluate and Apply
Apply(s, route) ==
    IF s.set = 0 \/ route \in sets[s.set] THEN s.route ELSE "none"

\* What policies say in their order: the first that is not "none"
First(results) ==
    LET said == SelectSeq(results, LAMBDA r : r # "none")
    IN  IF said = <<>> THEN "none" ELSE said[1]

PolicyApply(p, route) ==
    First([i \in 1 .. Len(policies[p].statements) |->
              Apply(statements[policies[p].statements[i]], route)])

\* ApplyPolicy
ApplyPolicy(id, dir, route) ==
    LET a    == assignment[id][dir]
        said == First([i \in 1 .. Len(a.policies) |-> PolicyApply(a.policies[i], route)])
    IN  (IF said = "none" THEN a.default ELSE said) = "accept"

-----------------------------------------------------------------------------
(* Operations: each ends in OK or in an error *)

Operation ==
    /\ ops < MaxOps
    /\ ops' = ops + 1

OK == failed' = FALSE

Error == failed' = TRUE

\* validateCondition, for the conditions of a call
Valid(defs) == \A i \in 1 .. Len(defs) : defs[i].cond => definedSet # 0

\* The object of a statement given in a call
Statement(def) ==
    [name |-> def.name, set |-> IF def.cond THEN definedSet ELSE 0, route |-> def.route]

\* The statements that point to the current defined set
Users(ss) == {i \in DOMAIN ss : ss[i].set # 0 /\ ss[i].set = definedSet}

\* What a call may give as a defined set
SetsOfRoutes == {rs \in SUBSET Routes : \A r, q \in rs : Family[r] = Family[q]}

\* Append refuses a set of another family, unless one of the two is empty
SameFamily(routes) == \A r \in routes, q \in sets[definedSet] : Family[r] = Family[q]

AddDefinedSet(routes, replace) ==
    /\ Operation
    /\ \/ /\ definedSet # 0 /\ ~replace /\ ~SameFamily(routes)
          /\ Error
          /\ UNCHANGED <<sets, definedSet, cut>>
       \/ /\ definedSet # 0 /\ ~replace /\ SameFamily(routes)
          /\ OK
          /\ sets' = [sets EXCEPT ![definedSet] = @ \cup routes]
          /\ UNCHANGED <<definedSet, cut>>
       \/ /\ definedSet = 0 \/ replace
          /\ OK
          /\ sets' = Append(sets, routes)
          /\ definedSet' = Len(sets')
          /\ cut' = cut \cup Users(statements)
    /\ UNCHANGED <<statements, policies, statementMap, policyMap, assignment, loose>>

\* inUse: by the name of the set, in statements of policies
setInUse ==
    \E p \in InMap : \E i \in 1 .. Len(policies[p].statements) :
        statements[policies[p].statements[i]].set # 0

\* Remove fails only on a set of another type, which the lookup excludes.
DeleteDefinedSet(routes, all) ==
    /\ Operation
    /\ \/ /\ definedSet = 0 \/ (all /\ setInUse)
          /\ Error
          /\ UNCHANGED <<sets, definedSet, cut>>
       \/ /\ definedSet # 0 /\ all /\ ~setInUse
          /\ OK
          /\ definedSet' = 0
          /\ cut' = cut \cup Users(statements)
          /\ UNCHANGED sets
       \/ /\ definedSet # 0 /\ ~all
          /\ OK
          /\ sets' = [sets EXCEPT ![definedSet] = @ \ routes]
          /\ UNCHANGED <<definedSet, cut>>
    /\ UNCHANGED <<statements, policies, statementMap, policyMap, assignment, loose>>

\* Statement.Add and Statement.Remove, mod: on a statement that is there
AddStatement(def) ==
    /\ Operation
    /\ LET i == statementMap[def.name]
       IN  \/ /\ \/ ~Valid(<<def>>)
                 \/ i # 0 /\ def.cond /\ statements[i].set # 0
                 \/ i # 0 /\ def.route # "none" /\ statements[i].route # "none"
              /\ Error
              /\ UNCHANGED <<statements, statementMap, cut>>
           \/ /\ Valid(<<def>>) /\ i = 0
              /\ OK
              /\ statements' = Append(statements, Statement(def))
              /\ statementMap' = [statementMap EXCEPT ![def.name] = Len(statements')]
              /\ UNCHANGED cut
           \/ /\ Valid(<<def>>) /\ i # 0
              /\ ~def.cond \/ statements[i].set = 0
              /\ def.route = "none" \/ statements[i].route = "none"
              /\ OK
              /\ statements' = [statements EXCEPT
                     ![i].set   = IF def.cond THEN definedSet ELSE @,
                     ![i].route = IF def.route # "none" THEN def.route ELSE @]
              /\ cut' = IF def.cond THEN cut \ {i} ELSE cut
              /\ UNCHANGED statementMap
    /\ UNCHANGED <<sets, policies, definedSet, policyMap, assignment, loose>>

statementInUse(name) == \E p \in InMap : name \in NamesOf(p)

DeleteStatement(def, all) ==
    /\ Operation
    /\ LET i == statementMap[def.name]
       IN  \/ /\ \/ i = 0
                 \/ all /\ statementInUse(def.name)
                 \/ i # 0 /\ ~all /\ def.cond /\ statements[i].set = 0
                 \/ i # 0 /\ ~all /\ def.route # "none" /\ statements[i].route = "none"
              /\ Error
              /\ UNCHANGED <<statements, statementMap>>
           \/ /\ i # 0 /\ all /\ ~statementInUse(def.name)
              /\ OK
              /\ statementMap' = [statementMap EXCEPT ![def.name] = 0]
              /\ UNCHANGED statements
           \/ /\ i # 0 /\ ~all
              /\ ~def.cond \/ statements[i].set # 0
              /\ def.route = "none" \/ statements[i].route # "none"
              /\ OK
              /\ statements' = [statements EXCEPT
                     ![i].set   = IF def.cond THEN 0 ELSE @,
                     ![i].route = IF def.route # "none" THEN "none" ELSE @]
              /\ UNCHANGED statementMap
    /\ UNCHANGED <<sets, policies, definedSet, policyMap, assignment, cut, loose>>

\* The policy object gets these statements at its end, or is made
AddToPolicy(name, ss) ==
    IF policyMap[name] # 0
    THEN /\ policies' = [policies EXCEPT ![policyMap[name]].statements = @ \o ss]
         /\ UNCHANGED policyMap
    ELSE /\ policies' = Append(policies, [name |-> name, statements |-> ss])
         /\ policyMap' = [policyMap EXCEPT ![name] = Len(policies')]

\* How many of the statements of a call can be defined before one is found
\* that is already there
Definable(defs) ==
    LET free(n) == \A i \in 1 .. n : /\ statementMap[defs[i].name] = 0
                                     /\ \A j \in 1 .. i - 1 : defs[j].name # defs[i].name
    IN  CHOOSE n \in 0 .. Len(defs) : free(n) /\ (n < Len(defs) => ~free(n + 1))

\* statementMap with the first n statements of a call
Defined(defs, n) ==
    [name \in StatementNames |->
        IF \E i \in 1 .. n : defs[i].name = name
        THEN Len(statements) + (CHOOSE i \in 1 .. n : defs[i].name = name)
        ELSE statementMap[name]]

\* Mutant: the policy goes on although a statement was already defined.
AddPolicy_Goes(name, defs) ==
    /\ Operation
    /\ Valid(defs)
    /\ statements' = statements \o [i \in 1 .. Len(defs) |-> Statement(defs[i])]
    /\ statementMap' = Defined(defs, Definable(defs))
    /\ AddToPolicy(name, [i \in 1 .. Len(defs) |-> Len(statements) + i])
    /\ failed' = (Definable(defs) < Len(defs))
    /\ UNCHANGED <<sets, definedSet, assignment, cut, loose>>

\* AddPolicy with statements of its own.  The ones before one that is already
\* defined stay in statementMap.
AddPolicy(name, defs) ==
    /\ Operation
    /\ LET n == Definable(defs)
       IN  \/ /\ ~Valid(defs)
              /\ Error
              /\ UNCHANGED <<statements, statementMap, policies, policyMap>>
           \/ /\ Valid(defs) /\ n < Len(defs)
              /\ Error
              /\ statements' = statements \o [i \in 1 .. n |-> Statement(defs[i])]
              /\ statementMap' = Defined(defs, n)
              /\ UNCHANGED <<policies, policyMap>>
           \/ /\ Valid(defs) /\ n = Len(defs)
              /\ OK
              /\ statements' = statements \o [i \in 1 .. n |-> Statement(defs[i])]
              /\ statementMap' = Defined(defs, n)
              /\ AddToPolicy(name, [i \in 1 .. n |-> Len(statements) + i])
    /\ UNCHANGED <<sets, definedSet, assignment, cut, loose>>

\* AddPolicy that refers to statements by name.  Where one is not found the
\* policy gets the bare statements of the call, and the error is returned only
\* if the policy was not there.
AddPolicyRefer(name, names) ==
    /\ Operation
    /\ \/ /\ \A i \in 1 .. Len(names) : statementMap[names[i]] # 0
          /\ OK
          /\ AddToPolicy(name, [i \in 1 .. Len(names) |-> statementMap[names[i]]])
          /\ UNCHANGED <<statements, loose>>
       \/ /\ \E i \in 1 .. Len(names) : statementMap[names[i]] = 0
          /\ failed' = (policyMap[name] = 0)
          /\ statements' = statements \o
                 [i \in 1 .. Len(names) |-> [name |-> names[i], set |-> 0, route |-> "none"]]
          /\ AddToPolicy(name, [i \in 1 .. Len(names) |-> Len(statements) + i])
          /\ loose' = loose \cup (Len(statements) + 1 .. Len(statements'))
    /\ UNCHANGED <<sets, definedSet, statementMap, assignment, cut>>

\* Mutant: only the import policies are looked at.
policyInUse_Import(name) ==
    \E id \in Ids : \E i \in 1 .. Len(assignment[id].import.policies) :
        policies[assignment[id].import.policies[i]].name = name

policyInUse(name) ==
    \E id \in Ids, dir \in Dirs : \E i \in 1 .. Len(assignment[id][dir].policies) :
        policies[assignment[id][dir].policies[i]].name = name

\* statementMap without those of these names that no policy of the map uses
Unused(names, inMap, pols) ==
    [n \in StatementNames |->
        IF n \in names /\ ~\E p \in inMap : \E i \in 1 .. Len(pols[p].statements) :
                               statements[pols[p].statements[i]].name = n
        THEN 0 ELSE statementMap[n]]

\* DeletePolicy, the whole policy
DeletePolicy(name, preserve) ==
    /\ Operation
    /\ LET p == policyMap[name]
       IN  \/ /\ p = 0 \/ policyInUse(name)
              /\ Error
              /\ UNCHANGED <<policyMap, statementMap>>
           \/ /\ p # 0 /\ ~policyInUse(name)
              /\ OK
              /\ policyMap' = [policyMap EXCEPT ![name] = 0]
              /\ statementMap' = IF preserve THEN statementMap
                                 ELSE Unused(NamesOf(p), InMap \ {p}, policies)
    /\ UNCHANGED <<objects, definedSet, assignment, cut, loose>>

\* DeletePolicy, some of its statements
RemoveStatements(name, names, preserve) ==
    /\ Operation
    /\ LET p == policyMap[name]
       IN  \/ /\ p = 0 \/ ~(ToSet(names) \subseteq NamesOf(p))
              /\ Error
              /\ UNCHANGED <<policies, statementMap>>
           \/ /\ p # 0 /\ ToSet(names) \subseteq NamesOf(p)
              /\ OK
              /\ policies' = [policies EXCEPT ![p].statements =
                                  SelectSeq(@, LAMBDA s : statements[s].name \notin ToSet(names))]
              /\ statementMap' = IF preserve THEN statementMap
                                 ELSE Unused(ToSet(names), InMap, policies')
    /\ UNCHANGED <<sets, statements, definedSet, policyMap, assignment, cut, loose>>

\* The policies of a list of names, which are to be there and different
Known(names) == IsInjective(names) /\ \A i \in 1 .. Len(names) : policyMap[names[i]] # 0

Objects(names) == [i \in 1 .. Len(names) |-> policyMap[names[i]]]

\* setPolicy and setDefaultPolicy.  The server looks for the client first
\* (toPolicyInfo).
Assign(id, dir, ps, default) ==
    assignment' = [assignment EXCEPT ![id][dir] =
                      [policies |-> ps, default |-> IF default = "none" THEN @.default ELSE default]]

AddPolicyAssignment(id, dir, names, default) ==
    /\ Operation
    /\ LET ps == assignment[id][dir].policies \o Objects(names)
       IN  IF assignment[id].present /\ Known(names) /\ IsInjective([i \in 1 .. Len(ps) |-> policies[ps[i]].name])
           THEN OK /\ Assign(id, dir, ps, default)
           ELSE Error /\ UNCHANGED assignment
    /\ UNCHANGED <<objects, maps, cut, loose>>

DeletePolicyAssignment(id, dir, names, all) ==
    /\ Operation
    /\ IF assignment[id].present /\ Known(names)
       THEN /\ OK
            /\ assignment' = [assignment EXCEPT ![id][dir] =
                   IF all THEN NoAssignment
                   ELSE [@ EXCEPT !.policies =
                            SelectSeq(@, LAMBDA p : policies[p].name \notin ToSet(names))]]
       ELSE Error /\ UNCHANGED assignment
    /\ UNCHANGED <<objects, maps, cut, loose>>

SetPolicyAssignment(id, dir, names, default) ==
    /\ Operation
    /\ IF assignment[id].present /\ Known(names)
       THEN OK /\ Assign(id, dir, Objects(names), default)
       ELSE Error /\ UNCHANGED assignment
    /\ UNCHANGED <<objects, maps, cut, loose>>

\* SetPeerPolicy, of a client that is added or changed: both directions, or
\* none
SetPeerPolicy(id, import, export) ==
    /\ Operation
    /\ IF Known(import) /\ Known(export)
       THEN /\ OK
            /\ assignment' = [assignment EXCEPT ![id] =
                   [present |-> TRUE,
                    import  |-> [policies |-> Objects(import), default |-> "accept"],
                    export  |-> [policies |-> Objects(export), default |-> "accept"]]]
       ELSE Error /\ UNCHANGED assignment
    /\ UNCHANGED <<objects, maps, cut, loose>>

\* DeletePeerPolicy, of a client that goes
DeletePeerPolicy(id) ==
    /\ Operation /\ OK
    /\ assignment[id].present
    /\ assignment' = [assignment EXCEPT ![id] = Absent]
    /\ UNCHANGED <<objects, maps, cut, loose>>

-----------------------------------------------------------------------------

\* The statements of a configuration.  config is [sets: at most one set of
\* routes, policies: sequence of [name, statements]].
StatementsOf(config) ==
    FlattenSeq([i \in 1 .. Len(config.policies) |-> config.policies[i].statements])

\* What reload accepts: names that are unique, and conditions on sets that are
\* there.
Accepted(config) ==
    /\ IsInjective(Names(config.policies))
    /\ IsInjective(Names(StatementsOf(config)))
    /\ \A i \in 1 .. Len(StatementsOf(config)) :
           StatementsOf(config)[i].cond => config.sets # <<>>

\* The policies and defaults by name that SetPolicies collects
ByName(a) ==
    [names   |-> [i \in 1 .. Len(a.policies) |-> policies[a.policies[i]].name],
     default |-> IF a.default = "reject" THEN "reject" ELSE "accept"]

\* reload and setPeerPolicy, from a configuration that is accepted: new
\* objects for everything, and assignments of the ids that are present.  A
\* direction that names a policy the configuration does not have is passed
\* over and stays as reload left it.
Loaded(config, present, assigned) ==
    LET defs      == StatementsOf(config)
        offset(i) == FoldSeq(LAMBDA p, n : Len(p.statements) + n, 0, SubSeq(config.policies, 1, i - 1))
        number(n) == CHOOSE i \in 1 .. Len(config.policies) : config.policies[i].name = n
        has(n)    == n \in ToSet(Names(config.policies))
        left(id)  == IF id = Global THEN [NoAssignment EXCEPT !.default = "accept"] ELSE NoAssignment
        list(id, dir) ==
            LET a == assigned[id][dir]
            IN  IF id \in present /\ IsInjective(a.names) /\ \A i \in 1 .. Len(a.names) : has(a.names[i])
                THEN [policies |-> [i \in 1 .. Len(a.names) |-> number(a.names[i])], default |-> a.default]
                ELSE left(id)
    IN  [sets         |-> config.sets,
         statements   |-> [i \in 1 .. Len(defs) |->
                              [name |-> defs[i].name, set |-> IF defs[i].cond THEN 1 ELSE 0,
                               route |-> defs[i].route]],
         policies     |-> [i \in 1 .. Len(config.policies) |->
                              [name |-> config.policies[i].name,
                               statements |-> [j \in 1 .. Len(config.policies[i].statements) |->
                                                   offset(i) + j]]],
         statementMap |-> [n \in StatementNames |->
                              IF \E i \in 1 .. Len(defs) : defs[i].name = n
                              THEN CHOOSE i \in 1 .. Len(defs) : defs[i].name = n ELSE 0],
         policyMap    |-> [n \in PolicyNames |-> IF has(n) THEN number(n) ELSE 0],
         assignment   |-> [id \in Ids |-> [present |-> id \in present,
                                           import  |-> list(id, "import"),
                                           export  |-> list(id, "export")]]]

\* SetPolicies and Reset.  The old objects are gone with the maps that pointed
\* to them, so the numbers start again; a configuration that is refused
\* changes nothing.
Reset(config) ==
    /\ Operation
    /\ \/ /\ ~Accepted(config)
          /\ Error
          /\ UNCHANGED <<objects, maps, assignment, cut, loose>>
       \/ /\ Accepted(config)
          /\ OK
          /\ LET new == Loaded(config, {id \in Ids : assignment[id].present},
                               [id \in Ids |-> [dir \in Dirs |-> ByName(assignment[id][dir])]])
             IN  /\ sets' = new.sets /\ statements' = new.statements /\ policies' = new.policies
                 /\ definedSet' = Len(config.sets)
                 /\ statementMap' = new.statementMap /\ policyMap' = new.policyMap
                 /\ assignment' = new.assignment
          /\ cut' = {} /\ loose' = {}

\* A configuration is loaded, and it has the policies that are assigned.
Init ==
    \E config \in Configs :
        LET new == Loaded(config, Ids,
                          [id \in Ids |-> [dir \in Dirs |-> [names |-> Assigned[id][dir],
                                                             default |-> "accept"]]])
        IN  /\ Accepted(config)
            /\ \A id \in Ids, dir \in Dirs : ToSet(Assigned[id][dir]) \subseteq ToSet(Names(config.policies))
            /\ sets = new.sets /\ statements = new.statements /\ policies = new.policies
            /\ definedSet = Len(config.sets)
            /\ statementMap = new.statementMap /\ policyMap = new.policyMap
            /\ assignment = new.assignment
            /\ cut = {} /\ loose = {}
            /\ failed = FALSE
            /\ ops = 0

NameLists == {<<>>} \cup {<<n>> : n \in PolicyNames}

Next ==
    \/ \E routes \in SetsOfRoutes, yes \in BOOLEAN :
           AddDefinedSet(routes, yes) \/ DeleteDefinedSet(routes, yes)
    \/ \E defs \in Definitions, all \in BOOLEAN :
           Len(defs) = 1 /\ (DeleteStatement(defs[1], all) \/ (all /\ AddStatement(defs[1])))
    \/ \E n \in PolicyNames, defs \in Definitions : AddPolicy(n, defs) \/ AddPolicyRefer(n, Names(defs))
    \/ \E n \in PolicyNames, preserve \in BOOLEAN :
           \/ DeletePolicy(n, preserve)
           \/ \E s \in StatementNames : RemoveStatements(n, <<s>>, preserve)
    \/ \E id \in Ids, dir \in Dirs, ns \in NameLists :
           \/ AddPolicyAssignment(id, dir, ns, "none")
           \/ SetPolicyAssignment(id, dir, ns, "reject")
           \/ \E all \in BOOLEAN : DeletePolicyAssignment(id, dir, ns, all)
    \/ \E id \in Ids \ {Global} :
           DeletePeerPolicy(id) \/ \E ns \in NameLists : SetPeerPolicy(id, <<>>, ns)
    \/ \E config \in Configs : Reset(config)

Spec == Init /\ [][Next]_vars

-----------------------------------------------------------------------------

\* Every policy assigned is the one the policy map has under its name, and no
\* direction has one twice: what the API changes or shows of a policy is what
\* routes go through, and a deleted policy filters nothing (DeletePolicy,
\* AddPolicyAssignment, reload).
AssignedLive ==
    \A id \in Ids, dir \in Dirs :
        LET ps == assignment[id][dir].policies
        IN  /\ \A i \in 1 .. Len(ps) : policyMap[policies[ps[i]].name] = ps[i]
            /\ IsInjective(ps)

\* Every statement of a policy is the one the statement map has under its
\* name, except the bare ones it got from a call that named one that was not
\* there (AddPolicy, DeletePolicy, statementInUse).
StatementsLive ==
    \A p \in InMap : \A i \in 1 .. Len(policies[p].statements) :
        LET s == policies[p].statements[i]
        IN  s \notin loose => statementMap[statements[s].name] = s

\* Every condition of a policy is on the defined set that is in the map, so
\* that changes of the set reach the policy, unless the set was replaced, or
\* deleted while only statements outside policies used it
\* (DeleteDefinedSet, inUse, validateCondition).
ConditionsLive ==
    \A p \in InMap : \A i \in 1 .. Len(policies[p].statements) :
        LET s == policies[p].statements[i]
        IN  statements[s].set # 0 /\ s \notin cut => statements[s].set = definedSet

\* A call that returns an error changes the fate of no route, though some of
\* them leave statements behind.
FailedChangesNoRoute ==
    [][failed' => \A id \in Ids, dir \in Dirs, route \in Routes :
                      ApplyPolicy(id, dir, route)' = ApplyPolicy(id, dir, route)]_vars
====
