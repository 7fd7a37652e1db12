------------------------------ MODULE MCDeploy ------------------------------
(* An instance of LayeredDeploy for TLC.                                    *)
EXTENDS LayeredDeploy

\* Two services in one layer and one above it, between empty layers.
TwoThenOne == <<2, 2, 4>>

\* Either the images are on the host and containers of an earlier release may
\* be there, or the host is fresh and the images come from all tars or none.
FreshOrUsedHost ==
    /\ Init
    /\ IF opts.imagesDir
       THEN /\ images = {}
            /\ opts.tars \in {{}, Service}
            /\ \A s \in Service : container[s] = "none"
       ELSE /\ opts.tars = {}
            /\ images \in {Service, Service \ {1}}

HostSpec == FreshOrUsedHost /\ [][Next]_deployVars /\ Fairness
=============================================================================
