---------------------------- MODULE TsNegotiation ----------------------------
(***************************************************************************)
(* The negotiation of a protocol in the TypeScript SDK: two agents with a  *)
(* state machine each (src/anp/typescript/ts_sdk/src/protocol/             *)
(* meta-protocol-machine.ts), which its own program and the peer's         *)
(* messages both drive.  Messages are HTTP requests of their own, so they  *)
(* come in any order, or not at all.  A machine drops an event that its    *)
(* state does not know.  Sequence ids, which nothing reads, are left out.  *)
(***************************************************************************)
EXTENDS Naturals, FiniteSets

CONSTANTS
  Agent, Protocol, Tests, Unset,
  MaxNegotiationRounds,
  MaxTsFixes, MaxTsMessages                   \* bounds

VARIABLES
  machine,          \* the state of each agent's machine
  offered,          \* context.candidateProtocols
  agreed, tests,    \* context.agreedProtocol, context.testCases
  rounds,           \* context.negotiationRound
  fixes,            \* how often FixError was entered, for the bound
  mail,             \* messages under way
  said, saidTests   \* history: what an agent accepted by itself

negotiationVars == <<machine, offered, agreed, tests, rounds, fixes, mail, said, saidTests>>

Peer(a) == CHOOSE b \in Agent : b # a
State == {"Idle", "Negotiating", "CodeGeneration", "TestCases", "Testing", "FixError", "Ready",
          "Communicating", "Rejected", "Failed", "Completed"}
MetaMessage ==
  [to : Agent, event : {"receive_request", "accept"}, about : Protocol]
  \union [to : Agent, event : {"tests_agreed"}, about : Tests]
  \union [to : Agent, event : {"reject", "timeout", "code_ready", "code_error", "skip_tests",
                               "fix_accepted", "fix_rejected"}, about : {Unset}]

TsMetaTypeOK ==
  /\ machine \in [Agent -> State]
  /\ offered \in [Agent -> Protocol \union {Unset}]
  /\ agreed \in [Agent -> Protocol \union {Unset}] /\ said \in [Agent -> Protocol \union {Unset}]
  /\ tests \in [Agent -> Tests \union {Unset}] /\ saidTests \in [Agent -> SUBSET Tests]
  /\ rounds \in [Agent -> 0 .. MaxNegotiationRounds]
  /\ fixes \in 0 .. MaxTsFixes
  /\ mail \subseteq MetaMessage

TsMetaInit ==
  /\ machine = [a \in Agent |-> "Idle"]
  /\ offered = [a \in Agent |-> Unset]
  /\ agreed = [a \in Agent |-> Unset] /\ said = [a \in Agent |-> Unset]
  /\ tests = [a \in Agent |-> Unset] /\ saidTests = [a \in Agent |-> {}]
  /\ rounds = [a \in Agent |-> 0] /\ fixes = 0
  /\ mail = {}

-----------------------------------------------------------------------------
(* metaProtocolMachine: where an event takes each state that knows it *)

Targets ==
  [initiate            |-> [Idle |-> "Negotiating"],
   receive_request     |-> [Idle |-> "Negotiating"],
   negotiate           |-> [Negotiating |-> "Negotiating"],
   accept              |-> [Negotiating |-> "CodeGeneration"],
   reject              |-> [Negotiating |-> "Rejected"],
   timeout             |-> [Negotiating |-> "Rejected"],
   code_ready          |-> [CodeGeneration |-> "TestCases"],
   code_error          |-> [CodeGeneration |-> "Failed"],
   tests_agreed        |-> [TestCases |-> "Testing"],
   skip_tests          |-> [TestCases |-> "Ready"],
   tests_passed        |-> [Testing |-> "Ready"],
   tests_failed        |-> [Testing |-> "FixError"],
   fix_accepted        |-> [FixError |-> "CodeGeneration"],
   fix_rejected        |-> [FixError |-> "Failed"],
   start_communication |-> [Ready |-> "Communicating"],
   protocol_error      |-> [Communicating |-> "FixError"],
   end                 |-> [Communicating |-> "Completed"]]

Knows(a, event) == machine[a] \in DOMAIN Targets[event]
MaxRoundsExceeded(a) == rounds[a] >= MaxNegotiationRounds

\* Mutation: what is agreed is what was offered last.
SetAgreedProtocolOffered(a, about) == offered[a]
SetAgreedProtocol(a, about) == about

\* One transition with its actions
Transition(a, event, about) ==
  LET gaveUp == event = "negotiate" /\ MaxRoundsExceeded(a)
      target == IF gaveUp THEN "Rejected" ELSE Targets[event][machine[a]]
  IN /\ machine' = [machine EXCEPT ![a] = target]
     /\ offered' = IF event \in {"initiate", "receive_request"}
                   THEN [offered EXCEPT ![a] = about] ELSE offered
     /\ agreed' = IF event = "accept"
                  THEN [agreed EXCEPT ![a] = SetAgreedProtocol(a, about)] ELSE agreed
     /\ tests' = IF event = "tests_agreed" THEN [tests EXCEPT ![a] = about] ELSE tests
     /\ rounds' = IF event = "negotiate" /\ ~gaveUp THEN [rounds EXCEPT ![a] = @ + 1] ELSE rounds
     /\ fixes' = IF target = "FixError" THEN fixes + 1 ELSE fixes
     /\ target = "FixError" => fixes < MaxTsFixes

-----------------------------------------------------------------------------
(* The agent's program: an event of its machine, and the message that tells the peer *)

\* What processMessage makes of the message is the event the peer will see.
Tell(a, event, about) ==
  mail' = IF Cardinality(mail) >= MaxTsMessages THEN mail
          ELSE mail \union {[to |-> Peer(a), event |-> event, about |-> about]}

Propose(a, event, p) ==
  /\ event \in {"initiate", "negotiate"} /\ Knows(a, event)
  /\ Transition(a, event, p)
  /\ IF machine'[a] = "Rejected" THEN Tell(a, "reject", Unset) ELSE Tell(a, "receive_request", p)
  /\ UNCHANGED <<said, saidTests>>

Accept(a, p) ==
  /\ Knows(a, "accept") /\ Transition(a, "accept", p) /\ Tell(a, "accept", p)
  /\ said' = [said EXCEPT ![a] = p] /\ UNCHANGED saidTests

AgreeTests(a, t) ==
  /\ Knows(a, "tests_agreed") /\ Transition(a, "tests_agreed", t) /\ Tell(a, "tests_agreed", t)
  /\ saidTests' = [saidTests EXCEPT ![a] = @ \union {t}] /\ UNCHANGED said

Step(a, event) ==
  /\ event \in {"reject", "timeout", "code_ready", "code_error", "skip_tests", "fix_accepted",
                "fix_rejected"}
  /\ Knows(a, event) /\ Transition(a, event, Unset) /\ Tell(a, event, Unset)
  /\ UNCHANGED <<said, saidTests>>

\* There are no messages for these.
StepAlone(a, event) ==
  /\ event \in {"tests_passed", "tests_failed", "start_communication", "protocol_error", "end"}
  /\ Knows(a, event) /\ Transition(a, event, Unset)
  /\ UNCHANGED <<mail, said, saidTests>>

ProcessMessage(m) ==
  /\ m \in mail /\ mail' = mail \ {m}
  /\ IF Knows(m.to, m.event) THEN Transition(m.to, m.event, m.about)
     ELSE UNCHANGED <<machine, offered, agreed, tests, rounds, fixes>>
  /\ UNCHANGED <<said, saidTests>>

TsMetaNext ==
  \/ \E a \in Agent :
       \/ \E p \in Protocol : Accept(a, p) \/ \E e \in DOMAIN Targets : Propose(a, e, p)
       \/ \E t \in Tests : AgreeTests(a, t)
       \/ \E e \in DOMAIN Targets : Step(a, e) \/ StepAlone(a, e)
  \/ \E m \in mail : ProcessMessage(m)

TsMetaSpec == TsMetaInit /\ [][TsMetaNext]_negotiationVars

-----------------------------------------------------------------------------
(* Properties *)

\* Two agents that have agreed have agreed on the same protocol, unless both accepted by
\* themselves before either heard of it: whoever moves on by the peer's word moves on to
\* what the peer said, in whatever order messages come and although counter-proposals
\* are dropped; and nobody holds a protocol or test cases that nobody accepted, even if
\* they are those of an earlier round (meta-protocol-machine.ts setAgreedProtocol,
\* setTestCases, processMessage).
SameAgreement ==
  \A a, b \in Agent :
    /\ agreed[a] # Unset => agreed[a] \in {said[x] : x \in Agent}
    /\ Unset \notin {agreed[a], agreed[b]} /\ agreed[a] # agreed[b] =>
         Unset \notin {said[a], said[b]}
    /\ tests[a] # Unset => tests[a] \in UNION {saidTests[x] : x \in Agent}

\* A machine accepts once, by its own word or by the peer's, and mail says what was said.
AgreementInv ==
  /\ \A a \in Agent :
       /\ said[a] # Unset => agreed[a] = said[a]
       /\ agreed[a] # Unset => /\ agreed[a] \in {said[a], said[Peer(a)]}
                              /\ machine[a] \notin {"Idle", "Negotiating"}
       /\ tests[a] # Unset => tests[a] \in UNION {saidTests[x] : x \in Agent}
  /\ \A m \in mail :
       /\ m.event = "accept" => m.about = said[Peer(m.to)]
       /\ m.event = "tests_agreed" => m.about \in UNION {saidTests[x] : x \in Agent}

TsMetaIInv == TsMetaTypeOK /\ AgreementInv
=============================================================================
