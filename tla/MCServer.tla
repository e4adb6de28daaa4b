------------------------------ MODULE MCServer ------------------------------
(* A small instance of Server. *)
EXTENDS Server

CONSTANTS i1, i2, u1, u2, Ns, Op, Res

Read == <<Ns, Op>>
ReadRes == <<Ns, Op, Res>>
MCHeldSets == {{ReadRes, <<Ns, One>>, <<Ns, Op, Res, Many>>}, {<<Ns, Op, One>>, <<Ns, Op, Many>>}}
MCRequiredSeqs == {<<>>, <<Read, ReadRes>>, <<ReadRes, <<Ns, Op, One>>>>, <<<<Ns, Op, Res, Res>>>>}
MCHosts == {[of |-> i1, port |-> "443", bare |-> TRUE], [of |-> i2, port |-> "", bare |-> TRUE],
            [of |-> i1, port |-> "443", bare |-> FALSE], None}

MCAs == {[issuer |-> i1, uri |-> u1], [issuer |-> i1, uri |-> u2], [issuer |-> i2, uri |-> u1]}

Anyone == [of: {i1, i2}, port: {"any"}]

Plain == [form |-> "none", home |-> [issuer |-> i1, uri |-> u1], bypass |-> FALSE,
          allowInProduction |-> FALSE, production |-> TRUE, signed |-> FALSE, static |-> TRUE,
          pat |-> TRUE, adapter |-> "express", hosts |-> Anyone]

MCOffered == {
    [Plain EXCEPT !.form = "function"],
    [Plain EXCEPT !.form = "static", !.adapter = "hono", !.hosts = {}],
    [Plain EXCEPT !.static = FALSE, !.pat = FALSE, !.adapter = "hono",
                  !.hosts = {[of |-> i1, port |-> "443"]}],
    [Plain EXCEPT !.bypass = TRUE],
    [Plain EXCEPT !.form = "static", !.bypass = TRUE, !.allowInProduction = TRUE],
    [Plain EXCEPT !.bypass = TRUE, !.production = FALSE, !.signed = TRUE],
    [Plain EXCEPT !.hosts = None]}
=============================================================================
