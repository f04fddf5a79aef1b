-------------------------- MODULE MCIngestionJobs --------------------------
(* Values for model checking IngestionJobs. *)
EXTENDS IngestionJobs

\* All jobs belong to one organization.
OneOrg == [j \in Jobs |-> CHOOSE o \in Orgs : TRUE]

=============================================================================
