---- MODULE MCModuleDeploy ----
(***************************************************************************)
(* A package of two archives: a zip that holds a project and a zip, which  *)
(* holds the image of both projects and the other project; and java8.      *)
(***************************************************************************)
EXTENDS ModuleDeploy

MCZips == {"pack", "inner"}
MCTarZips == {"app.tar.zip", "java8.tar.zip"}
MCInside == [pack |-> <<"inner", "center">>, inner |-> <<"app.tar.zip", "device">>]
MCTarOf == [t \in MCTarZips |-> IF t = "app.tar.zip" THEN "app.tar" ELSE "java8.tar"]
MCOrder == <<"java8.tar.zip", "app.tar.zip", "inner", "pack">>
MCProjects == <<"center", "device">>
MCImageIn == [t \in MCTarZips |-> IF t = "app.tar.zip" THEN "app:2" ELSE "openjdk:8"]
MCNames == [p \in {"center", "device"} |-> "app:2"]
MCNeeds == [p \in {"center", "device"} |-> IF p = "center" THEN {"java:8"} ELSE {"tomcat:9"}]
MCTags == {"app:1", "app:2", "java:8", "openjdk:8", "tomcat:9"}
MCRepoOf == [t \in MCTags |-> CASE t \in {"app:1", "app:2"} -> "app" [] t = "java:8" -> "java" [] t = "openjdk:8" -> "openjdk" [] OTHER -> "tomcat"]
MCMaxHarm == [c \in {1, 2} |-> IF c = 1 THEN 1 ELSE 0]
====
