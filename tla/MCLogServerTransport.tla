------------------------ MODULE MCLogServerTransport ------------------------
(* LogServerTransport for TLC, with maps and arrays that are soon full. *)
EXTENDS LogServerTransport

TwoTenants == {[tenant |-> "nil", name |-> "login"], [tenant |-> "t", name |-> "none"]}

SomeSettings ==
  {[update |-> FALSE, sendRawData |-> FALSE, countersInterval |-> 0, messageInterval |-> 0],
   [update |-> TRUE, sendRawData |-> FALSE, countersInterval |-> 2, messageInterval |-> 0]}
=============================================================================
