--------------------------- MODULE MCImageUpload ---------------------------
EXTENDS ImageUpload, TLC

CONSTANTS r1, r2, r3

Image(size, header, width, height, decodes) ==
    [size |-> size, header |-> header, width |-> width, height |-> height, decodes |-> decodes]

\* Each limit on both sides: 8 bytes, 20 pixels, 48 bytes of BGR (16 pixels), 4:1 sides.
MCImages ==
    {Image(n, "png", 2, 3, "same") : n \in {0, 8, 9, 10}}
      \cup {Image(8, "jpeg", 4, 4, d) : d \in {"same", "other", "empty"}}
      \cup {Image(8, h, 8, 2, "turned") : h \in {"png", "jpeg"}}
      \cup {Image(8, "png", w, 1, "same") : w \in {0, 17, 31}}
      \cup {Image(8, "png", 6, 3, "same")}
      \cup {Image(8, h, 9, 1, "same") : h \in {"jpeg", "cut", "none"}}

Symmetry == Permutations({r1, r2, r3})
============================================================================
