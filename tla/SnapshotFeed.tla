--------------------------- MODULE SnapshotFeed ---------------------------
(***************************************************************************)
(* What the WebSocket endpoint promises one kind of observer: a client     *)
(* looks at a set of independently changing stores through a feed.  The    *)
(* feed shows nothing until it can show every store at once; afterwards it *)
(* shows changes of one store at a time, never an older value after a      *)
(* newer one and never a value the store has not had.  How the values      *)
(* travel (sessions, frames, readiness) is not mentioned here.             *)
(***************************************************************************)
EXTENDS Naturals

CONSTANTS
  Stores,    (* the stores the service was built with                    *)
  Clients    (* the observers                                            *)

VARIABLES
  current,   (* current[s]: number of the latest value of store s        *)
  shown      (* shown[c][s]: number of the value c sees, 0 for none yet   *)

feedVars == <<current, shown>>

Nothing == [s \in Stores |-> 0]

FeedInit ==
  /\ current = Nothing
  /\ shown = [c \in Clients |-> Nothing]

(* A store takes a new value. *)
Publish(s) ==
  /\ current' = [current EXCEPT ![s] = @ + 1]
  /\ UNCHANGED shown

(* What client c sees changes, what the others see does not. *)
Shows(c) ==
  /\ shown' = [shown EXCEPT ![c] = shown'[c]]
  /\ UNCHANGED current

(* The first thing a client sees is one value of every store. *)
ShowAll(c) ==
  /\ shown[c] = Nothing
  /\ Shows(c)
  /\ shown'[c] = [s \in Stores |-> shown'[c][s]]
  /\ \A s \in Stores : shown'[c][s] \in 1 .. current[s]

(* Later it sees one store advance to a newer value. *)
ShowChange(c, s) ==
  /\ \A t \in Stores : shown[c][t] # 0
  /\ Shows(c)
  /\ shown'[c] = [shown[c] EXCEPT ![s] = shown'[c][s]]
  /\ shown'[c][s] \in (shown[c][s] + 1) .. current[s]

FeedNext ==
  \/ \E s \in Stores : Publish(s)
  \/ \E c \in Clients : ShowAll(c)
  \/ \E c \in Clients, s \in Stores : ShowChange(c, s)

FeedSpec == FeedInit /\ [][FeedNext]_feedVars
=============================================================================
