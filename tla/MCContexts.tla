----------------------------- MODULE MCContexts -----------------------------
(* Eight designs for Contexts that the code handles, and one that it does  *)
(* not.                                                                    *)
EXTENDS Contexts

S(code, chain, within) == [code |-> code, chain |-> chain, body |-> NULL, block |-> NULL,
                           arms |-> <<>>, event |-> NULL, within |-> within]

Then(code, body, within)     == [S(code, NULL, within) EXCEPT !.body = body]
On(code, event, body, within) == [Then(code, body, within) EXCEPT !.event = event]
Into(code, block, body, chain, within) == [S(code, chain, within) EXCEPT !.body = body, !.block = block]
ForkOf(code, block, arms, join, within) == [S(code, join, within) EXCEPT !.block = block, !.arms = arms]
Kill(block, chain, within)   == [S("disable", chain, within) EXCEPT !.block = block]
Trigger(event, chain, within) == [S("arrow", chain, within) EXCEPT !.event = event]

(* #d disable block; #d in an initial block of its own.                    *)
Killer(block, k1, k2, k3, k4) ==
  k1 :> Then("delay", k2, TOP) @@ k2 :> Kill(block, k3, TOP) @@
  k3 :> Then("delay", k4, TOP) @@ k4 :> S("dump", NULL, TOP)

(* begin : outer begin : inner #d @e wait (x); end end                     *)
Nested ==
  [text |-> "a1" :> Into("begin", "outer", "a2", "a7", TOP) @@
            "a2" :> Into("begin", "inner", "a3", "a6", "a1") @@
            "a3" :> Then("delay", "a4", "a2") @@ "a4" :> On("event", "e", "a5", "a2") @@
            "a5" :> On("wait", "x", "a5e", "a2") @@ "a5e" :> S("end", "a6", "a2") @@
            "a6" :> S("end", "a7", "a1") @@ "a7" :> S("dump", NULL, TOP) @@
            Killer("inner", "k1", "k2", "k3", "k4") @@ Killer("outer", "l1", "l2", "l3", "l4") @@
            "b1" :> Then("delay", "b2", TOP) @@ "b2" :> Trigger("e", "b3", TOP) @@
            "b3" :> S("plain", "b4", TOP) @@ "b4" :> Trigger("x", "b5", TOP) @@
            "b5" :> S("dump", NULL, TOP),
   initial |-> <<"a1", "k1", "l1", "b1">>, events |-> {"e", "x"}]

(* fork : f  #d disable f;  #d @e;  begin : w #d wait (e); end  join       *)
(* disabled from outside too                                               *)
NamedFork ==
  [text |-> "f1" :> ForkOf("fork_named", "f", <<"g1", "h1", "i1">>, "j", TOP) @@
            "i1" :> Into("begin", "w", "i2", "j", "f1") @@ "i2" :> Then("delay", "i3", "i1") @@
            "i3" :> On("wait", "e", "i4", "i1") @@ "i4" :> S("end", "j", "i1") @@
            "g1" :> Then("delay", "g2", "f1") @@ "g2" :> Kill("f", "j", "f1") @@
            "h1" :> Then("delay", "h2", "f1") @@ "h2" :> On("event", "e", "j", "f1") @@
            "j"  :> S("join", "f2", "f1") @@ "f2" :> S("dump", NULL, TOP) @@
            Killer("f", "k1", "k2", "k3", "k4") @@
            "b1" :> Then("delay", "b2", TOP) @@ "b2" :> Trigger("e", "b3", TOP) @@
            "b3" :> S("dump", NULL, TOP),
   initial |-> <<"f1", "k1", "b1">>, events |-> {"e"}]

(* fork  begin : w #d #d end  #d disable w;  join fork #d join             *)
ArmsBlock ==
  [text |-> "f1" :> ForkOf("fork", TOP, <<"g1", "h1">>, "j", TOP) @@
            "g1" :> Into("begin", "w", "g2", "j", "f1") @@
            "g2" :> Then("delay", "g3", "g1") @@ "g3" :> Then("delay", "g4", "g1") @@
            "g4" :> S("end", "j", "g1") @@
            "h1" :> Then("delay", "h2", "f1") @@ "h2" :> Kill("w", "j", "f1") @@
            "j"  :> S("join", "f2", "f1") @@
            "f2" :> ForkOf("fork", TOP, <<"i1">>, "i2", TOP) @@
            "i1" :> Then("delay", "i2", "f2") @@ "i2" :> S("join", "f3", "f2") @@
            "f3" :> S("dump", NULL, TOP),
   initial |-> <<"f1">>, events |-> {}]

(* task t; #d disable t; endtask  called twice, and disabled from outside  *)
OneCaller ==
  [text |-> "m1" :> Into("task", "t", "t1", "m2", TOP) @@ "m2" :> Into("task", "t", "t1", "m3", TOP) @@
            "m3" :> S("dump", NULL, TOP) @@
            "t1" :> Then("delay", "t2", "t") @@ "t2" :> S("plain", "t3", "t") @@
            "t3" :> Then("delay", "t4", "t") @@ "t4" :> Kill("t", "t5", "t") @@
            "t5" :> S("task_block", NULL, "t") @@
            Killer("t", "k1", "k2", "k3", "k4"),
   initial |-> <<"m1", "k1">>, events |-> {}]

(* task t; @e endtask  with three callers, one in a fork                   *)
Callers ==
  [text |-> "m1" :> Into("task", "t", "t1", "m2", TOP) @@ "m2" :> S("dump", NULL, TOP) @@
            "n1" :> Then("delay", "n2", TOP) @@
            "n2" :> Into("task", "t", "t1", "n3", TOP) @@ "n3" :> S("dump", NULL, TOP) @@
            "f1" :> ForkOf("fork", TOP, <<"g1", "h1">>, "j", TOP) @@
            "g1" :> Into("task", "t", "t1", "g2", "f1") @@ "g2" :> Then("delay", "j", "f1") @@
            "h1" :> Then("delay", "h2", "f1") @@ "h2" :> Trigger("e", "h3", "f1") @@
            "h3" :> Then("delay", "h4", "f1") @@ "h4" :> Trigger("e", "j", "f1") @@
            "j"  :> S("join", "f2", "f1") @@ "f2" :> S("dump", NULL, TOP) @@
            "t1" :> On("event", "e", "t2", "t") @@ "t2" :> S("task_block", NULL, "t"),
   initial |-> <<"m1", "n1", "f1">>, events |-> {"e"}]

(* begin : outer  fork #d #d join  end  disabled from outside              *)
RunningFork ==
  [text |-> "a1" :> Into("begin", "outer", "f1", "a3", TOP) @@
            "f1" :> ForkOf("fork", "outer", <<"g1", "h1">>, "j", "a1") @@
            "g1" :> Then("delay", "j", "f1") @@ "h1" :> Then("delay", "j", "f1") @@
            "j"  :> S("join", "a2", "f1") @@ "a2" :> S("end", "a3", "a1") @@
            "a3" :> S("dump", NULL, TOP) @@ Killer("outer", "k1", "k2", "k3", "k4"),
   initial |-> <<"a1", "k1">>, events |-> {}]

(* t;  and a disable of t by a process that ends with it                   *)
CallDisabled ==
  [text |-> "m1" :> Into("task", "t", "t1", "m2", TOP) @@ "m2" :> S("dump", NULL, TOP) @@
            "t1" :> Then("delay", "t2", "t") @@ "t2" :> S("task_block", NULL, "t") @@
            "k1" :> Then("delay", "k2", TOP) @@ "k2" :> Kill("t", "k3", TOP) @@
            "k3" :> S("dump", NULL, TOP),
   initial |-> <<"m1", "k1">>, events |-> {}]

(* fork : f #d #d join  and  #d disable f; -> e;  and  @e                  *)
ArmsFreed ==
  [text |-> "f1" :> ForkOf("fork_named", "f", <<"g1", "h1">>, "j", TOP) @@
            "g1" :> Then("delay", "j", "f1") @@ "h1" :> Then("delay", "j", "f1") @@
            "j"  :> S("join", "f2", "f1") @@ "f2" :> S("dump", NULL, TOP) @@
            "k1" :> Then("delay", "k2", TOP) @@ "k2" :> Kill("f", "k3", TOP) @@
            "k3" :> Trigger("e", "k4", TOP) @@ "k4" :> S("dump", NULL, TOP) @@
            "b1" :> On("event", "e", "b2", TOP) @@ "b2" :> S("dump", NULL, TOP),
   initial |-> <<"f1", "k1", "b1">>, events |-> {"e"}]

(* begin : outer <= #d begin : inner #d end <= #d end, disabled inside,    *)
(* and task t; <= #d endtask                                               *)
Pipelined ==
  [text |-> "a1" :> Into("begin", "outer", "a2", "a7", TOP) @@ "a2" :> S("nonblocking", "a3", "a1") @@
            "a3" :> Into("begin", "inner", "a4", "a5", "a1") @@ "a4" :> Then("delay", "a4e", "a3") @@
            "a4e" :> S("end", "a5", "a3") @@ "a5" :> S("nonblocking", "a6", "a1") @@
            "a6" :> S("end", "a7", "a1") @@ "a7" :> S("dump", NULL, TOP) @@
            Killer("inner", "k1", "k2", "k3", "k4") @@
            "m1" :> Into("task", "t", "t1", "m2", TOP) @@ "m2" :> S("dump", NULL, TOP) @@
            "t1" :> S("nonblocking", "t2", "t") @@ "t2" :> S("task_block", NULL, "t"),
   initial |-> <<"a1", "k1", "m1">>, events |-> {}]

Handled == {Nested, NamedFork, ArmsBlock, OneCaller, Callers, CallDisabled, ArmsFreed, Pipelined}
Broken  == {RunningFork}

=============================================================================
