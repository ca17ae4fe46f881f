------------------------------ MODULE MCTransfer ------------------------------
(***************************************************************************)
(* Three alerts, one of HUMINT, and two partners, one of which may have    *)
(* what is marked TLP:RED.                                                 *)
(***************************************************************************)
EXTENDS Transfer

Hash == [type |-> "file:hashes", value |-> "hash"]

MCRawAlerts ==
  {[DefaultAlert EXCEPT !.id = "edr", !.sourceType = "EDR", !.source = "sensor",
                        !.observables = {Hash}, !.ips = <<"10.0.0.1">>],
   [DefaultAlert EXCEPT !.id = "humint", !.sourceType = "HUMINT", !.source = "agent",
                        !.observables = {Hash}, !.actor = "actor"],
   [DefaultAlert EXCEPT !.id = "feed", !.sourceType = "STIX_TAXII", !.source = "feed",
                        !.tlp = "TLP:WHITE"]}

MCPartners ==
  {[name |-> "ally", nations |-> {"GBR"}, level |-> "SECRET", sanitise |-> TRUE,
    tlp |-> {"TLP:GREEN", "TLP:AMBER", "TLP:RED"}],
   [name |-> "coalition", nations |-> {"USA"}, level |-> "OFFICIAL", sanitise |-> FALSE,
    tlp |-> {"TLP:CLEAR", "TLP:GREEN", "TLP:AMBER"}]}

MCNone == <<>>
Symmetry == Permutations(Keys) \cup Permutations(Flushers)
=============================================================================
