--------------------------- MODULE DdsController ---------------------------
(***************************************************************************)
(* The command controllers that talk DDS : controllers/flux_dds.py and its *)
(* twin controllers/sonic_dds.py, seen from the simulation loop that polls *)
(* them.  The loop hands over its newest state (publish_state) and polls   *)
(* for the newest command ; a publisher thread writes the state to DDS at  *)
(* its own rate ; the deployment (the FLUX node, the SONIC deploy), whose  *)
(* code is not in this repository, writes one command topic for the body   *)
(* and one for each hand.                                                  *)
(*                                                                         *)
(* A message is its target, with the episode of the state its writer had   *)
(* seen (from) : the wire carries no episode, and "from" is a history the  *)
(* code cannot read.  A message the controller has taken also carries the  *)
(* episode in which it was taken (history too).  A state is the episode it *)
(* belongs to.  Left out : joint vectors, gains and clipping, counters and *)
(* the gap report, the sequence the controller gives its own polls.        *)
(***************************************************************************)
EXTENDS Integers

CONSTANTS
  Hands,    \* the hands with a command topic of their own
  Targets,  \* positions a command asks for ; two of them are far apart
  Ttl       \* ticks a taken command stays valid (_ttl_ticks)

ASSUME DdsAssumption ==
  /\ Ttl \in Nat \ {0}
  /\ "body" \notin Hands
  /\ "nothing" \notin Targets /\ "nan" \notin Targets

VARIABLES
  wire,        \* per topic, the newest message nobody has taken yet
  held,        \* per topic, the newest message taken (_arm_command, ...)
  ctlEpisode,  \* the controller's _episode_id
  latestTick,  \* tick of the newest state handed over
  commandTick, \* latestTick when the body command was taken, -1 before
  pending,     \* episode of the state the publisher writes next, -1 for none
  shown        \* episode of the state last written to DDS, -1 for none

ddsVars == <<wire, held, ctlEpisode, latestTick, commandTick, pending, shown>>

Groups  == {"body"} \cup Hands
Nothing == [q |-> "nothing", from |-> -1, episode |-> -1]
NoState == -1

\* A command with a joint that is not finite.
Inputs == Targets \cup {"nan"}

DdsInit ==
  /\ wire = [g \in Groups |-> Nothing] /\ held = [g \in Groups |-> Nothing]
  /\ ctlEpisode = 0 /\ latestTick = 0 /\ commandTick = -1
  /\ pending = NoState /\ shown = NoState

\* Mutant : a new episode keeps the commands of the old one.
PublishState_KeepsCommands(episode, tick) ==
  /\ ctlEpisode' = episode /\ latestTick' = tick
  /\ pending' = episode
  /\ UNCHANGED <<held, commandTick>>

\* publish_state : a new episode drops every held command.
PublishState(episode, tick) ==
  /\ ctlEpisode' = episode /\ latestTick' = tick
  /\ pending' = episode
  /\ IF episode # ctlEpisode
     THEN held' = [g \in Groups |-> Nothing] /\ commandTick' = -1
     ELSE UNCHANGED <<held, commandTick>>

\* One period of _publish_loop, on its own thread.
PublishLoop ==
  /\ pending # NoState
  /\ shown' = pending
  /\ UNCHANGED <<wire, held, ctlEpisode, latestTick, commandTick, pending>>

\* _receive_commands : only a body command moves the tick validity counts from.
ReceiveCommands ==
  /\ held' = [g \in Groups |-> IF wire[g] = Nothing THEN held[g]
                              ELSE [wire[g] EXCEPT !.episode = ctlEpisode]]
  /\ commandTick' = IF wire["body"] = Nothing THEN commandTick ELSE latestTick
  /\ wire' = [g \in Groups |-> Nothing]

\* poll returns a command : there is a body command with a tick, and building the
\* joint commands of its groups has raised nothing.
Polled(messages, since) ==
  /\ messages["body"] # Nothing /\ since >= 0
  /\ \A g \in Groups : messages[g].q # "nan"

\* The deployment writes a command computed from the last state it was shown.  One
\* write between two polls is enough : a message replaced unread leaves no trace.
Deploy(g, q) ==
  /\ shown # NoState /\ wire[g] = Nothing
  /\ wire' = [wire EXCEPT ![g] = [Nothing EXCEPT !.q = q, !.from = shown]]
  /\ UNCHANGED <<held, ctlEpisode, latestTick, commandTick, pending, shown>>

Messages == [q : Inputs, from : Nat, episode : Nat \cup {-1}] \cup {Nothing}

DdsTypeOK ==
  /\ wire \in [Groups -> Messages] /\ held \in [Groups -> Messages]
  /\ ctlEpisode \in Nat /\ latestTick \in Nat /\ commandTick \in Nat \cup {-1}
  /\ pending \in Nat \cup {NoState} /\ shown \in Nat \cup {NoState}
=============================================================================
