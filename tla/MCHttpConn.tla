----------------------------- MODULE MCHttpConn -----------------------------
(* One client that pipelines, oversteps limits or sends broken framing, and  *)
(* one plain client, whose connections may reuse each other's buffer.        *)
EXTENDS HttpConn

CONSTANTS c1, c2
R(line, pad, crlf, headers, body) ==
    [line |-> line, pad |-> pad, crlf |-> crlf, headers |-> headers, body |-> body]
CL(n) == Cell("cl", n)
Plain == Cell("plain", 0)
Get == R("get", 0, FALSE, <<>>, 0)
Post(n) == R("post", 0, FALSE, <<CL(n)>>, n)
Long(n, crlf) == R("get", n, crlf, <<>>, 0)
With(headers) == R("get", 0, FALSE, headers, 0)

Rich == {<<Post(2), Get>>, <<Post(4), Post(4)>>, <<R("post", 0, TRUE, <<CL(1)>>, 1), Get>>,
         <<R("post", 1, TRUE, <<CL(4)>>, 4), Get>>, <<Post(5)>>,
         <<Long(2, TRUE), Get>>, <<Long(3, FALSE)>>, <<R("bad", 0, FALSE, <<>>, 0), Get>>,
         <<R("stream", 0, FALSE, <<>>, 0), Get>>, <<R("hijack", 0, FALSE, <<>>, 0), Get>>,
         <<R("head", 0, FALSE, <<>>, 0), R("stream", 0, FALSE, <<>>, 0)>>,
         <<R("get10", 0, FALSE, <<>>, 0), Get>>, <<With(<<Cell("connection", 0)>>), Get>>,
         <<R("get10", 0, FALSE, <<Cell("connection", 1)>>, 0), Get>>,
         <<With(<<Plain, Plain, Plain>>), Get>>, <<R("post", 0, FALSE, <<CL(0), CL(1)>>, 1)>>,
         <<R("post", 0, FALSE, <<CL(1), Cell("te", 0)>>, 1)>>, <<With(<<Cell("te", 0)>>)>>,
         <<With(<<Cell("te", -1)>>)>>, <<With(<<CL(-1)>>)>>, <<With(<<Cell("fold", 0)>>)>>,
         <<With(<<Cell("bad", 0)>>)>>, <<With(<<Plain>>), Get>>,
         <<R("get", 0, TRUE, <<Plain, Plain>>, 0)>>}
MCSends == c1 :> Rich @@ c2 :> {<<Post(4)>>, <<R("post", 0, TRUE, <<CL(3)>>, 3)>>}
=============================================================================
