----------------------------- MODULE MCDelivery -----------------------------
(* Sites and patches for Delivery.                                          *)
EXTENDS Delivery

\* Two patches in a row, the first with a jar for one of its two services, the
\* second with jars for both, one of which has its version in its name.  And one
\* made for the first version as well, which brings no jar but the frontend.
Chain1 == [base |-> "v1", version |-> "v2", services |-> Services, jars |-> {"web"}, named |-> {},
           nacos |-> TRUE, frontend |-> FALSE]
Chain2 == [base |-> "v2", version |-> "v3", services |-> Services, jars |-> Services, named |-> {"api"},
           nacos |-> FALSE, frontend |-> FALSE]
Other == [base |-> "v1", version |-> "v4", services |-> {"api"}, jars |-> {}, named |-> {},
          nacos |-> FALSE, frontend |-> TRUE]
PatchBoth == {Chain1, Chain2, Other}

\* In the directory of a service is the jar of the release, under one of the names
\* that are known, or nothing.
Only(n) == [f \in JarName |-> IF f = n THEN "v1" ELSE None]
FirstJars == {[s \in Services |-> Only(IF s = "web" THEN "name.jar" ELSE None)],
              [s \in Services |-> Only(IF s = "web" THEN "app.jar" ELSE "name.jar")]}
=============================================================================
