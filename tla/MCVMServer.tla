----------------------------- MODULE MCVMServer -----------------------------
\* The server with the parser, for three clients.  One of the files is sound, in the
\* other a bracket is not closed.  One name begins with the other.
EXTENDS VMServer, Toml

CONSTANTS c1, c2, c3

v1 == <<"v1">>
v10 == <<"v1", "0">>
MCName == {v1, v10}

Quoted(s) == <<"\"">> \o s \o <<"\"">>
Sound ==
  <<"#", " ", "a", "\n", "[", "vm", "]", "t", "=", "[", "1", ",", "{", "x", "=", "true", "}",
    "]", "image", "=", "'", "a", " ", "b", "'", "name", "=">> \o Quoted(v1) \o
  <<"disk", "=", "2", ".", "1">>
Wrong == <<"[", "vm", "=">>

Defaults ==
  [user |-> <<"phil">>, image |-> <<"img">>, disk |-> <<"10000">>, vcpus |-> <<"1">>,
   memory |-> <<"2048">>, frequency |-> <<"1000">>, memorySLA |-> <<"0", ".", "5">>,
   ssh_key |-> <<>>]
Provision(file, settings) ==
  [op |-> "PROVISION", name |-> v1, text |-> file, settings |-> settings]
About(op, n) == [op |-> op, name |-> n, text |-> n]
Forward(n, p) == [op |-> "NAT", name |-> n, text |-> n, ports |-> p]
Bare(op) == [op |-> op, name |-> none, text |-> <<>>]

MCRequests(c) ==
  CASE c = c1 -> {Provision(Sound, [Defaults EXCEPT !.image = <<"a", " ", "b">>,
                                                    !.disk = <<"2">>]),
                  Provision(Wrong, none), Bare("RESET_COUNTERS"), Bare("UNKNOWN")}
    [] c = c2 -> {Forward(v1, <<80, 22>>)}
    [] c = c3 -> {About("IP", v1), About("KILL", v10), Forward(v10, <<80, 23>>)}

\* Each text that a handler may receive is parsed once.
Texts ==
  UNION {{Part(r.text, n) : n \in 0..Len(r.text)} : r \in UNION {MCRequests(c) : c \in Client}}
Files == [s \in Texts |-> LibvirtVM(s)] @@ <<>>
MCConfiguration(s) == Files[s]
=============================================================================
