------------------------------ MODULE AcOracle ------------------------------
(***************************************************************************)
(* The anti-cheat oracle (observer/src/AcDriverOracle.cpp): whether the     *)
(* foreground game may be probed, from its title and, when the title is not *)
(* known, from the drivers and services that run.  Services are listed page *)
(* by page while they start and stop.  A name is one of a few, each with    *)
(* what the oracle's tables say of it.                                      *)
(***************************************************************************)
EXTENDS Naturals, Sequences, FiniteSets, SequencesExt

CONSTANTS Services,  \* names of services, in the order the system lists them
          Drivers,   \* names of drivers
          Known,     \* name -> its row of kKnownAc: [class, always], for those with one
          Marked,    \* names with one of kAcMarkers in them
          Titles,    \* game -> its row of kKnownTitles, for those with one
          Games,     \* games that may be asked about
          MaxMoves   \* bound: services that start or stop while they are listed

OracleAssumption ==
  /\ Services \in Seq(ToSet(Services)) /\ IsInjective(Services) /\ MaxMoves \in Nat
  /\ DOMAIN Titles \subseteq Games
  /\ \A g \in DOMAIN Titles : Titles[g] \notin {"None", "none yet"}

VARIABLES running,   \* the services and drivers that run
          list,      \* the listing: [step, at, room, got], or Off
          game,      \* the game asked about
          answer,    \* the last decision, or "none yet"
          always, ever,  \* history: what ran throughout the listing, at some time in it
          moves      \* bound: counts to MaxMoves

vars == <<running, list, game, answer, always, ever, moves>>

Names == ToSet(Services) \cup Drivers
Off == [step |-> "off", at |-> 0, room |-> 0, got |-> {}]
NoAnswer == "none yet"

Init == /\ running \in SUBSET Names /\ game \in Games
        /\ list = Off /\ answer = NoAnswer
        /\ always = {} /\ ever = {} /\ moves = 0

----------------------------------------------------------------------------
(* The tables. *)

\* match_known and classify_name: a name of a known anti-cheat, or one that looks like one.
classify_name(n) ==
  IF n \in DOMAIN Known THEN Known[n].class ELSE IF n \in Marked THEN "UnknownAc" ELSE "None"

Resident(n) == n \in DOMAIN Known /\ Known[n].always

IndicatesAnything(n) == classify_name(n) # "None"      \* mutant: resident ones count too

\* name_indicates_active_ac: an anti-cheat that runs only with its games.
name_indicates_active_ac(n) ==
  n \in DOMAIN Known \cup Marked /\ ~Resident(n)

\* classify_title.
classify_title(g) == IF g \in DOMAIN Titles THEN Titles[g] ELSE "None"

\* decide: the title when it is known, otherwise what runs.
decide(g, names) ==
  IF classify_title(g) # "None" THEN classify_title(g)
  ELSE IF \E n \in names : name_indicates_active_ac(n) THEN "UnknownAc" ELSE "None"

\* probe_allowed.
probe_allowed(class) == class \in {"None", "CleanBlock_A", "Allow_B"}

----------------------------------------------------------------------------
(* The listing of one decision. *)

\* The services that run, by their place in the system's list, from one place on.
From(at) == {i \in DOMAIN Services : i >= at /\ Services[i] \in running}

First(S, n) == {i \in S : Cardinality({j \in S : j < i}) < n}

\* classify_foreground_game begins; the drivers come in one piece.
EnumerateDrivers ==
  /\ list = Off /\ answer = NoAnswer
  /\ list' = [step |-> "services", at |-> 1, room |-> 0, got |-> running \cap Drivers]
  /\ always' = running /\ ever' = running
  /\ UNCHANGED <<running, game, answer, moves>>

\* A call that cannot return all there is fails with what is missing and has moved the
\* resume point past what it did return; the buffer grows, and what it held is not looked at.
MoreData(todo) ==
  list' = [list EXCEPT !.room = @ + Cardinality(todo) - Cardinality(First(todo, list.room)),
                       !.at = IF list.room = 0 THEN @
                              ELSE 1 + CHOOSE i \in First(todo, list.room) :
                                         \A j \in First(todo, list.room) : j <= i]

\* A call that returns the rest: its names are taken over and the listing is complete.
Drained(todo) == list' = [list EXCEPT !.step = "done", !.got = @ \cup {Services[i] : i \in todo}]

\* enumerate_services, one call.
EnumerateServices ==
  /\ list.step = "services"
  /\ LET todo == From(list.at)
     IN  IF Cardinality(todo) > list.room THEN MoreData(todo) ELSE Drained(todo)
  /\ UNCHANGED <<running, game, answer, always, ever, moves>>

\* Without access to the service manager there are no services.
NoManager == /\ list.step = "services" /\ list.room = 0
             /\ list' = [list EXCEPT !.step = "refused"]
             /\ UNCHANGED <<running, game, answer, always, ever, moves>>

Answer == /\ list.step \in {"done", "refused"} /\ answer = NoAnswer
          /\ answer' = decide(game, list.got)
          /\ UNCHANGED <<running, list, game, always, ever, moves>>

\* A service starts or stops, or a driver is loaded or unloaded.
Moves(n) == /\ moves < MaxMoves /\ answer = NoAnswer
            /\ running' = IF n \in running THEN running \ {n} ELSE running \cup {n}
            /\ always' = always \ {n} /\ ever' = ever \cup {n} /\ moves' = moves + 1
            /\ UNCHANGED <<list, game, answer>>

Next == \/ EnumerateDrivers \/ EnumerateServices \/ NoManager \/ Answer
        \/ \E n \in Names : Moves(n)

Spec == Init /\ [][Next]_vars

----------------------------------------------------------------------------
(* Correctness. *)

Active(names) == \E n \in names : name_indicates_active_ac(n)

\* The gate is about the game asked for and about now: a title that is known decides alone;
\* otherwise an anti-cheat that is only resident, or did not run at any time while the system
\* was asked, keeps no game from being probed, and one that runs does: a driver always, a
\* service if the manager could be asked and nothing started or stopped meanwhile.
GateIsRight ==
  answer # NoAnswer =>
    IF game \in DOMAIN Titles THEN answer = Titles[game]
    ELSE /\ ~probe_allowed(answer) => \E n \in ever : (n \in Marked \/ n \in DOMAIN Known) /\ ~Resident(n)
         /\ Active(always \cap Drivers) => ~probe_allowed(answer)
         /\ Active(always) /\ always = ever /\ list.step = "done" => ~probe_allowed(answer)

\* The listing has every service that ran from its beginning to its end
\* (AcDriverOracle.hpp: "the service names of every ACTIVELY RUNNING service+driver").
EveryRunningIsListed == list.step = "done" => always \cap ToSet(Services) \subseteq list.got
=============================================================================
