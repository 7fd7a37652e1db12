---------------------------- MODULE MCWizardJobs ----------------------------
(* The steps with one or two modules each. *)
EXTENDS WizardJobs

Modules == [database |-> <<"pgsql">>, middleware |-> <<"kafka", "nacos">>,
            business |-> <<"public">>, standalone |-> <<"intelligent-model">>]
=============================================================================
