----------------------------- MODULE MCConversion -----------------------------
(***************************************************************************)
(* Inputs of Conversion for TLC: sides and sizes on both sides of every    *)
(* limit of the code, odd sides, and the scales that the limits meet.      *)
(***************************************************************************)
EXTENDS Conversion, FiniteSets

Picture(w, h, kind, colour) ==
  LET img == [w |-> w, h |-> h, kind |-> kind, colour |-> colour,
              cols |-> 0, rows |-> 0]
  IN [img EXCEPT !.cols = ChromaColumns(img), !.rows = ChromaRows(img)]

Layouts == {"420", "422", "444", "440", "411", "410", "mono"}

Sizes == {<<15, 16>>, <<16, 16>>, <<17, 99>>, <<201, 335>>, <<600, 403>>,
          <<1600, 1000>>, <<1731, 1733>>, <<4032, 3024>>, <<16, 20001>>,
          <<20000, 1000>>, <<20000, 12500>>, <<12501, 20000>>}

Grey == [y |-> 128, cb |-> 128, cr |-> 128]

Levels == {0, 1, 127, 254, 255}

Pictures ==
  {Picture(s[1], s[2], kind, Grey) : s \in Sizes, kind \in Layouts}
  \cup {Picture(600, 403, "rgb", [r |-> r, g |-> g, b |-> b]) : r, g, b \in Levels}

File(size, magic, img) == [size |-> size, magic |-> magic, image |-> img]

Files ==
  {File(1000000, TRUE, img) : img \in Pictures}
  \cup {File(size, magic, NoImage) :
          size \in {-1, 0, 11, 12, MaxFileSize, MaxFileSize + 1}, magic \in BOOLEAN}

Ratio100(n) == [num |-> n, den |-> 100]

Asked(entry, file, scale, q, t) ==
  [entry |-> entry, file |-> file, scale |-> scale, quality |-> q,
   target |-> t]

(* Requests to the handler, whose parameters are in range. *)
Requested ==
  {Asked("handler", f, Ratio100(s), q, t) :
     f \in {f \in Files : f.size # -1}, s \in {1, 10, 29, 50, 99, 100, 200},
     q \in {-1, 1, 100}, t \in {500}}

(* Calls of the methods, as the tests make them, with any parameters. *)
Called ==
  {Asked(m, File(1000000, TRUE, img), Ratio100(50), q, t) :
     m \in Methods, q \in {-1, 0, 1, 100, 101},
     t \in {1, 50, 500, 5000, 32767, 32768},
     img \in {p \in Pictures : p.kind = "420"}}
  \cup {Asked(m, f, Ratio100(100), 85, 500) :
          m \in Methods, f \in {f \in Files : f.image = NoImage}}
  \cup {Asked("ConvertBytesFast", f, Ratio100(s), 85, 500) :
          f \in Files, s \in {-50, 0, 100, 200}}

AllJobs == Requested \cup Called

OddJobs == {Asked("handler", File(1000000, TRUE, Picture(603, 400, "420", Grey)),
                  Ratio100(50), -1, 500)}
=============================================================================
