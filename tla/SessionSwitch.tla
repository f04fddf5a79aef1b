--------------------------- MODULE SessionSwitch ---------------------------
(***************************************************************************)
(* Sessions with a history of its switches of organization: what the       *)
(* documentation says of how stale the cache may get is about the time     *)
(* since the last one.                                                     *)
(***************************************************************************)
EXTENDS Sessions

CONSTANT StaleWindow    \* how long after a switch the old organization may be answered

VARIABLES
    settled,    \* how long ago the organization last changed, up to StaleWindow + 1
    after       \* requests that began when it was longer ago than StaleWindow

SwitchInit == Init /\ settled = StaleWindow + 1 /\ after = {}

SwitchNext ==
    /\ Next
    /\ settled' = IF row'.org # row.org THEN 0 ELSE Least(settled + now' - now, StaleWindow + 1)
    /\ after' = {r \in Requests :
                   IF At(r, "idle") THEN req'[r].pc = "lookup" /\ StaleWindow < settled
                                    ELSE r \in after /\ req'[r].pc # "idle"}

SwitchSpec == SwitchInit /\ [][SwitchNext]_<<vars, settled, after>>

\* A request that begins when the last switch of organization is older than the
\* longest life of a cache entry is answered in the organization of the row, unless
\* a switch happens while it runs: the stale window the documentation gives the cache.
SwitchIsSeen ==
    \A r \in after : At(r, "handle") /\ StaleWindow < settled => req[r].org = row.org

=============================================================================
