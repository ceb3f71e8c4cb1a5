--------------------------- MODULE MCModelStream ---------------------------
EXTENDS ModelStream

MCText == {"other", "done", "invalid", "error", "empty", "a", "b", "stop", "length"}

Said(text, finish) == [kind |-> "event", text |-> text, finish |-> finish]

MCEventOf ==
    [t \in MCText |->
       CASE t \in {"other", "invalid", "error"} -> [kind |-> t]
         [] t = "done" -> [kind |-> "DONE"]
         [] t = "empty" -> Said(None, "open")
         [] t \in {"a", "b"} -> Said(t, "open")
         [] t = "stop" -> Said("b", "stop")
         [] t = "length" -> Said("b", "abnormal")]

\* Two lines of any kind, and a third without its newline or with it: a cut-off stream,
\* and what follows an end, an error or a text.
MCBodies ==
    {<<s, NL, t, NL, u>> : s, t \in MCText, u \in {"done", "a", NL}}
      \cup {<<s, NL, t, NL, u, NL>> : s, t, u \in MCText}
============================================================================
