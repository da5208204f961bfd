------------------------- MODULE AgentRegistryProperties -------------------------
(* What the registry guarantees while commands of operators interleave.       *)
EXTENDS AgentRegistry

RegistryTypeOK ==
  /\ Registered \subseteq Agent
  /\ agents \in [Registered -> [thread : Thread, generation : Nat \ {0},
                                status : Status, owner : Binding]]
  /\ generations \in [Registered -> Seq([thread : Thread, status : {"active", "superseded"},
                                         owner : Binding])]
  /\ \A c \in Operator : intent[c] # Nothing => intent[c].agent \in Registered
  /\ raced \subseteq Agent

\* The two tables agree whatever commands race: the record of an agent names the
\* thread and the owner of its latest generation, the generations before it are
\* superseded, and no thread serves two generations (AgentRepository.replace and
\* bindCurrentOwner against each other).
GenerationsAgree ==
  /\ \A a \in Registered :
       /\ agents[a].generation = Len(generations[a])
       /\ generations[a] # <<>>
       /\ agents[a].thread = Current(a).thread
       /\ agents[a].owner = Current(a).owner
       /\ \A g \in 1 .. Len(generations[a]) - 1 : generations[a][g].status = "superseded"
  /\ \A a, b \in Registered : \A g \in DOMAIN generations[a], h \in DOMAIN generations[b] :
       generations[a][g].thread = generations[b][h].thread => a = b /\ g = h

\* The latest generation of an agent is marked superseded exactly when the agent
\* is, unless a setStatus wrote over a change it had not seen: then a superseded
\* thread may be active again, or a new generation carry the status of the old one.
RowFollowsAgent ==
  \A a \in Registered \ raced :
    agents[a].status = "superseded" <=> Current(a).status = "superseded"
=============================================================================
