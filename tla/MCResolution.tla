--------------------------- MODULE MCResolution ---------------------------
(* Values for the constants of Resolution: project A brings a resolver of its *)
(* own, project B one for a scheme that is installed as well, and the plugin  *)
(* file of C raises; the source "odd" registers a stream nobody declares, and *)
(* "twice" one stream twice.                                                  *)
EXTENDS Resolution

Url(s, optional) == [form |-> "url", name |-> s, optional |-> optional]
MCPlugins == [A |-> <<"own">>, B |-> <<"vault">>, C |-> <<"late">>]
MCProjectOf == [shop |-> "A", mail |-> "A", odd |-> "A", ads |-> "B", twice |-> "B", bad |-> "C"]
MCManifest == [shop |-> {"orders"}, mail |-> {"events"}, odd |-> {"events"},
               ads |-> {"events"}, twice |-> {"orders"}, bad |-> {}]
MCCode == [shop |-> <<"orders">>, mail |-> <<"events">>, odd |-> <<"events", "orders">>,
           ads |-> <<"events">>, twice |-> <<"orders", "orders">>, bad |-> <<>>]
MCRefs == [shop |-> <<Url("vault", FALSE), Url("own", FALSE)>>,
           mail |-> <<[form |-> "env", name |-> "KEY", optional |-> TRUE], Url("gcp", TRUE)>>,
           odd |-> <<>>, ads |-> <<Url("vault", TRUE)>>, twice |-> <<>>, bad |-> <<>>]
=============================================================================
