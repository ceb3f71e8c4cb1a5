-------------------------- MODULE MCHttpConnection --------------------------
\* Small instances of HttpConnection for TLC.
EXTENDS HttpConnection, TLC

CONSTANTS MaxMessages \* bound: messages of one connection, one more of the few

MCText ==
    {"get", "get10", "gone", "post", "chat", "options", "junk",
     "len0", "len1", "len05", "len5", "len26", "lenX", "len", "coded", "close", "keep", "nocolon"}

Line(method, path, version) == [method |-> method, path |-> path, version |-> version]

MCLineOf ==
    [t \in MCText |->
       CASE t = "get" -> Line("GET", "/menu", "HTTP/1.1")
         [] t = "get10" -> Line("GET", "/menu", "HTTP/1.0")
         [] t = "gone" -> Line("GET", "/gone", "HTTP/1.1")
         [] t = "post" -> Line("POST", "/login", "HTTP/1.1")
         [] t = "chat" -> Line("POST", "/chat/send", "HTTP/1.1")
         [] t = "options" -> Line("OPTIONS", "/login", "HTTP/1.1")
         [] OTHER -> Malformed]

FieldLine(name, value) == [name |-> name, value |-> value]

MCFieldOf ==
    [t \in MCText |->
       CASE t = "len0" -> FieldLine("content-length", <<0>>)
         [] t = "len1" -> FieldLine("content-length", <<1>>)
         [] t = "len05" -> FieldLine("content-length", <<0, 5>>)
         [] t = "len5" -> FieldLine("content-length", <<5>>)
         [] t = "len26" -> FieldLine("content-length", <<2, 6>>)
         [] t = "lenX" -> FieldLine("content-length", <<1, 10>>)
         [] t = "len" -> FieldLine("content-length", <<>>)
         [] t = "coded" -> FieldLine("transfer-encoding", <<"chunked">>)
         [] t = "close" -> FieldLine("connection", <<"close">>)
         [] t = "keep" -> FieldLine("connection", <<"keep-alive">>)
         [] OTHER -> Malformed]

MCHandlers == (<<"GET", "/menu">> :> "plain") @@ (<<"POST", "/login">> :> "plain")
              @@ (<<"POST", "/chat/send">> :> "stream")

Message(line, fields, body) == [line |-> line, fields |-> fields, body |-> body]

\* A body that looks like a request.
Disguise == <<"get", CR, LF, CR, LF>>

GoodMessages ==
    {Message("get", <<>>, <<>>), Message("get", <<"close">>, <<>>), Message("get", <<"len5">>, Disguise),
     Message("get10", <<"keep">>, <<>>), Message("get10", <<"len0">>, <<>>),
     Message("get10", <<"keep", "close">>, <<>>), Message("gone", <<>>, <<>>),
     Message("post", <<"len5">>, Disguise), Message("post", <<"len05", "keep", "len05">>, Disguise),
     Message("post", <<"len0">>, <<>>), Message("chat", <<"len1">>, <<CR>>),
     Message("options", <<>>, <<>>)}

BadMessages ==
    {Message("junk", <<>>, <<>>), Message("get", <<"nocolon">>, <<>>), Message("post", <<>>, <<>>),
     Message("post", <<"coded", "len1">>, <<LF>>), Message("post", <<"len5", "len1">>, Disguise),
     Message("post", <<"len26">>, Disguise), Message("get", <<"lenX">>, <<CR>>),
     Message("get", <<"len">>, <<>>)}

\* Of longer connections only some: what a stream or a refusal leaves behind it.
FewMessages ==
    {Message("get", <<>>, <<>>), Message("post", <<"len5">>, Disguise),
     Message("post", <<"len5", "len1">>, Disguise), Message("chat", <<"len1">>, <<CR>>)}

MCPlans ==
    UNION {[1..k -> GoodMessages \cup BadMessages] : k \in 1..MaxMessages}
      \cup [1..(MaxMessages + 1) -> FewMessages]
=============================================================================
