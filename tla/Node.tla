-------------------------------- MODULE Node --------------------------------
(***************************************************************************)
(* One ATDE process with the services it starts: the lifecycle of module   *)
(* Process, and the deception engine, the certificate streamer and the     *)
(* honeypot of modules Deception, Streamer and Decoy, which run side by    *)
(* side, share the bus and the end of the process, and stop when main      *)
(* does.                                                                   *)
(***************************************************************************)
EXTENDS Deception, Streamer, Decoy

serviceVars == <<deceptionVars, streamerVars, decoyVars>>
vars == <<procVars, work, faults, serviceVars>>

Init == ProcessInit /\ DeceptionInit /\ StreamerInit /\ DecoyInit

\* What a service does by itself leaves the others and main alone.
Deceives == DeceptionStep /\ UNCHANGED <<procVars, streamerVars, decoyVars>>
Streams  == StreamerStep /\ UNCHANGED <<procVars, deceptionVars, decoyVars>>
Decoys   == DecoyStep /\ UNCHANGED <<procVars, deceptionVars, streamerVars>>

\* main, signals, and the errgroup.
Lives ==
    /\ \/ \E b \in BOOLEAN : Boot(b)
       \/ BootFails \/ Signal \/ Restart
       \/ \E s \in Services : ServiceFails(s)
       \/ \E s \in Servers : Winding(s)
    /\ UNCHANGED serviceVars

StreamerStops == StreamerReturns /\ UNCHANGED <<deceptionVars, decoyVars>>

\* With the process, everything that runs in it ends.
Gone == DeceptionEnds /\ StreamerEnds /\ DecoyEnds
Ends == (Exit \/ Crash) /\ Gone

Next == Lives \/ Deceives \/ Streams \/ StreamerStops \/ Decoys \/ Ends

Spec == Init /\ [][Next]_vars

\* What the process does by itself, except for the session of the streamer:
\* handlers, bans, workers, and what stands between the end of the context and
\* the exit.  Of all this there is only so much to do.
Runs ==
    \/ /\ UNCHANGED <<procVars, streamerVars, decoyVars>>
       /\ \E r \in Requests : Handle(r) \/ \E p \in Providers : BanSome(r, p)
    \/ /\ UNCHANGED <<procVars, deceptionVars, streamerVars>>
       /\ \E v \in Visits : Serve(v)
    \/ /\ UNCHANGED <<procVars, deceptionVars, decoyVars>>
       /\ \E d \in Domains : (Take(d) /\ ~done) \/ Assess(d)
    \/ /\ UNCHANGED serviceVars
       /\ \E s \in Servers : Winding(s)
    \/ StreamerStops
    \/ Exit /\ Gone

Reads ==
    /\ UNCHANGED <<procVars, deceptionVars, decoyVars>>
    /\ Read \/ LeaveLoop \/ \E d \in Domains : Offer(d)

\* Runnable goroutines run.  Requests, dials, what the peer of a session sends,
\* signals and failures are up to the world.
Fairness == WF_vars(Runs) /\ WF_vars(Reads)

FairSpec == Spec /\ Fairness

TypeOK == ProcessTypeOK /\ DeceptionTypeOK /\ StreamerTypeOK /\ DecoyTypeOK

-----------------------------------------------------------------------------
\* When nothing more comes in, everything that was begun ends: requests, bans and
\* visits in any case, and suspicious domains are published, whatever becomes of
\* the session they came from, unless the context ends first.
Open == RequestsOpen \/ DomainsOpen \/ VisitsOpen

EverythingSettles == Open ~> ~Open

\* Once the context has ended the process stops, unless the peer of the
\* streamer's session never sends or closes again: ReadMessage has no deadline
\* and does not look at the context.
NodeStops == (done ~> phase # "running") \/ <>[](link = "reading")
=============================================================================
