------------------------------- MODULE MCSession -------------------------------
(* An instance of Session: an entry-only policy, an ordinary one, the      *)
(* optimization level and the VM switch, each set by some block.           *)
EXTENDS Session

KeysMC    == {"vm", "opt_level", "domain"}
ValsMC    == {"default", "other"}
DefaultMC == [k \in KeysMC |-> "default"]
BlocksMC  == {[opt_level |-> "other"], [domain |-> "other"], [opt_level |-> "default"]}
=============================================================================
