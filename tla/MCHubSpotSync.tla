------------------------------ MODULE MCHubSpotSync ------------------------------
(* Small instances of HubSpotSync for TLC.                                 *)
EXTENDS HubSpotSync

(* The second deal names every contact.                                    *)
MCAssociated == <<{1}, 1..Contacts>>

=============================================================================
