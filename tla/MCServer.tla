------------------------------ MODULE MCServer ------------------------------
EXTENDS Server

CONSTANTS browser, reader

MCClients == {browser, reader}
MCRequests ==
  browser :> <<"GET", " ", "/a", "b", " ", "H", "\n">> @@ reader :> <<"1">>
MCRoots == << <<"/a">> >>
MCReads ==
  {[kind |-> "value", size |-> 1], [kind |-> "value", size |-> 2], [kind |-> "upto", size |-> 2]}

=============================================================================
