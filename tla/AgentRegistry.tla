----------------------------- MODULE AgentRegistry -----------------------------
(***************************************************************************)
(* The registered agents and their generations: AdminService on behalf of  *)
(* operators, and AgentRepository on the tables agents and                 *)
(* agent_thread_generations.                                               *)
(*                                                                         *)
(* Every command of an operator is a process of its own.  A command reads  *)
(* a record, or asks the app-server about a thread, and writes later;      *)
(* other commands run in between.  accepts_messages is not kept: every     *)
(* statement that writes the status sets it to status = 'active'.          *)
(***************************************************************************)
EXTENDS Naturals, Sequences, SequencesExt

CONSTANTS
  Agent,          \* stable agent IDs
  Thread,         \* threads of the app-server
  Operator,       \* commands under way at the same time
  Binding,        \* owner bindings a command may run with
  Unverified,     \* the binding of a command that knows no host
  Founded,        \* the agents that are registered at the start
  FirstThread,    \* their threads
  Administered,   \* bound: the agents that commands are about
  MaxOperations,  \* bound: operations that are begun, by operators or others
  Nothing         \* a command that has read nothing

ASSUME RegistryAssumption ==
  /\ Unverified \in Binding
  /\ Founded \subseteq Agent
  /\ FirstThread \in [Founded -> Thread]
  /\ \A a, b \in Founded : FirstThread[a] = FirstThread[b] => a = b
  /\ Administered \subseteq Agent
  /\ MaxOperations \in Nat

VARIABLES
  agents,        \* the rows of agents, by agent
  generations,   \* the rows of agent_thread_generations of an agent, by generation
  intent,        \* what a command has read and is about to do
  raced,         \* history: agents whose status was written over another change
  operations     \* how many operations were begun

registryVars == <<agents, generations, intent, raced, operations>>

Status == {"active", "paused", "disabled", "superseded"}
Retired == {"disabled", "superseded"}

Record(t, g, o) == [thread |-> t, generation |-> g, status |-> "active", owner |-> o]
Row(t, o) == [thread |-> t, status |-> "active", owner |-> o]

RegistryInit ==
  /\ agents = [a \in Founded |-> Record(FirstThread[a], 1, Unverified)]
  /\ generations = [a \in Founded |-> <<Row(FirstThread[a], Unverified)>>]
  /\ intent = [o \in Operator |-> Nothing]
  /\ raced = {}
  /\ operations = 0

\* One operation more.
Begin == operations < MaxOperations /\ operations' = operations + 1

Registered == DOMAIN agents
Current(a) == Last(generations[a])

\* thread_id is unique in both tables.
Unused(t) == \A a \in Registered : \A g \in DOMAIN generations[a] : generations[a][g].thread # t

\* verify has looked at the thread; then one transaction.
Register(a, t, o) ==
  /\ Begin
  /\ a \notin Registered
  /\ Unused(t)
  /\ agents' = [b \in Registered \cup {a} |-> IF b = a THEN Record(t, 1, o) ELSE agents[b]]
  /\ generations' = [b \in Registered \cup {a} |->
                       IF b = a THEN <<Row(t, o)>> ELSE generations[b]]
  /\ UNCHANGED <<intent, raced>>

-----------------------------------------------------------------------------
\* A command has read the record of a, and will do the rest later.
Intend(c, kind, a, status, thread, owner) ==
  /\ Begin
  /\ intent[c] = Nothing
  /\ a \in Registered
  /\ intent' = [intent EXCEPT ![c] =
       [kind |-> kind, agent |-> a, status |-> status, thread |-> thread, owner |-> owner,
        generation |-> agents[a].generation, read |-> agents[a].status]]
  /\ UNCHANGED <<agents, generations, raced>>

Intends(c, kind) == intent[c] # Nothing /\ intent[c].kind = kind

\* The command ends.
Over(c) == intent' = [intent EXCEPT ![c] = Nothing]

\* An error: nothing but the command is changed.
Fails(c) == Over(c) /\ UNCHANGED <<agents, generations, raced, operations>>

\* Mutant of MayBecome: a superseded agent may be resumed.
MayBecomeAgain(a, s) == agents[a].status # "disabled" \/ s = "disabled"

MayBecome(a, s) == agents[a].status \in Retired => s = agents[a].status

\* setStatus up to its transaction.
ReadStatus(c, a, s) ==
  /\ Intend(c, "status", a, s, Nothing, Nothing)
  /\ MayBecome(a, s)

\* The transaction of setStatus: the record is whatever it is by now.
WriteStatus(c) ==
  /\ Intends(c, "status")
  /\ LET i == intent[c] IN
       /\ agents' = [agents EXCEPT ![i.agent].status = i.status]
       /\ generations' = IF i.status = "superseded"
                         THEN [generations EXCEPT ![i.agent][i.generation].status = "superseded"]
                         ELSE generations
       /\ raced' = IF agents[i.agent].generation = i.generation /\ agents[i.agent].status = i.read
                   THEN raced ELSE raced \cup {i.agent}
  /\ Over(c)
  /\ UNCHANGED operations

\* replace: the operator names the generation they have seen, verify is awaited.
ReadReplaced(c, a, t, o) == Intend(c, "replace", a, Nothing, t, o)

\* Mutant of Expected: replace does not look whether the agent was replaced since.
ExpectedAny(c) == TRUE

Expected(c) == agents[intent[c].agent].generation = intent[c].generation

Replace(c) ==
  /\ Intends(c, "replace")
  /\ IF Expected(c) /\ Unused(intent[c].thread)
     THEN LET a == intent[c].agent
              g == intent[c].generation IN
          /\ generations' = [generations EXCEPT ![a] =
               Append([@ EXCEPT ![g].status = "superseded"], Row(intent[c].thread, intent[c].owner))]
          /\ agents' = [agents EXCEPT ![a] = Record(intent[c].thread, g + 1, intent[c].owner)]
          /\ raced' = raced \ {a}
          /\ Over(c)
          /\ UNCHANGED operations
     ELSE Fails(c)

\* adoptOwner up to its transaction; verify is awaited.
ReadAdopted(c, a, o) ==
  /\ o # Unverified
  /\ Intend(c, "adopt", a, Nothing, Nothing, o)

\* bindCurrentOwner: both updates find an active row, or neither stays.
AdoptOwner(c) ==
  /\ Intends(c, "adopt")
  /\ LET a == intent[c].agent IN
     IF Expected(c) /\ agents[a].status = "active" /\ Current(a).status = "active"
     THEN /\ agents' = [agents EXCEPT ![a].owner = intent[c].owner]
          /\ generations' = [generations EXCEPT ![a][agents[a].generation].owner = intent[c].owner]
          /\ Over(c)
          /\ UNCHANGED <<raced, operations>>
     ELSE Fails(c)

\* The thread is unknown or busy, or the command is interrupted.
GivesUp(c) == intent[c] # Nothing /\ Fails(c)

RegistryNext ==
  \/ \E a \in Administered, t \in Thread, o \in Binding : Register(a, t, o)
  \/ \E c \in Operator :
       \/ \E a \in Administered :
            \/ \E s \in Status : ReadStatus(c, a, s)
            \/ \E t \in Thread, o \in Binding : ReadReplaced(c, a, t, o)
            \/ \E o \in Binding : ReadAdopted(c, a, o)
       \/ WriteStatus(c) \/ Replace(c) \/ AdoptOwner(c) \/ GivesUp(c)

RegistrySpec == RegistryInit /\ [][RegistryNext]_registryVars
=============================================================================
