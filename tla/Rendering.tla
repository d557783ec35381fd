------------------------------ MODULE Rendering ------------------------------
(***************************************************************************)
(* How the server shows a file on its page: as an image, as the beginning  *)
(* of a text, or not at all.  A file is a sequence of byte values.         *)
(***************************************************************************)
EXTENDS Naturals, Sequences, FiniteSets, SequencesExt

CONSTANT PREVIEW_SIZE   (* the bytes of a text that are shown; 100 *)

ASSUME RenderingAssumption == PREVIEW_SIZE \in Nat

PNG  == <<137, 80, 78, 71>>
JPEG == <<255, 216, 255>>
GIF  == <<71, 73, 70>>
GIFVersions == {GIF \o <<56, 55, 97>>, GIF \o <<56, 57, 97>>}   \* 87a, 89a
RIFF == <<82, 73, 70, 70>>
WEBP == <<87, 69, 66, 80>>

IsImage(data) ==
  /\ Len(data) >= 4
  /\ \/ \E magic \in {PNG, JPEG} \cup GIFVersions : IsPrefix(magic, data)
     \/ Len(data) > 12 /\ IsPrefix(RIFF, data) /\ SubSeq(data, 9, 12) = WEBP

DetectImageMime(data) ==
  CASE IsPrefix(PNG, data) -> "png"
    [] IsPrefix(JPEG, data) -> "jpeg"
    [] IsPrefix(GIF, data) -> "gif"
    [] Len(data) > 12 /\ SubSeq(data, 9, 12) = WEBP -> "webp"
    [] OTHER -> "octet-stream"

Printable(b) == b \in 32 .. 126 \cup {9, 10, 13}

(* More than 0.8 of the bytes are printable. *)
IsText(data) ==
  data # <<>> /\ 10 * Cardinality({i \in DOMAIN data : Printable(data[i])}) > 8 * Len(data)

(* UTF-8: how many bytes the character has that begins with byte b; 0: no  *)
(* character does.  The few second bytes that are not allowed after 224,   *)
(* 237, 240 and 244 are not told apart.                                    *)
CharBytes(b) ==
  CASE b < 128 -> 1
    [] b \in 194 .. 223 -> 2
    [] b \in 224 .. 239 -> 3
    [] b \in 240 .. 244 -> 4
    [] OTHER -> 0

Continuation(b) == b \in 128 .. 191

(* std::str::from_utf8 is Ok. *)
IsUtf8(data) ==
  LET valid[i \in 1 .. Len(data) + 1] ==
        \/ i = Len(data) + 1
        \/ LET n == CharBytes(data[i])
           IN /\ n > 0 /\ i + n - 1 <= Len(data)
              /\ \A k \in i + 1 .. i + n - 1 : Continuation(data[k])
              /\ valid[i + n]
  IN valid[1]

(* The slice text[..100] would end inside a character. *)
CutInside(text) == Len(text) > PREVIEW_SIZE /\ Continuation(text[PREVIEW_SIZE + 1])

Preview(text) ==
  IF Len(text) > PREVIEW_SIZE THEN SubSeq(text, 1, PREVIEW_SIZE) \o <<46, 46, 46>> ELSE text

(* The characters with an entity of their own: & < > " and '.  The name of *)
(* the entity of character c, with its semicolon, is the single value      *)
(* 1000 + c.                                                               *)
AMP == 38
LT == 60
GT == 62
QUOT == 34
APOS == 39

Replace(text, c) ==
  FlattenSeq([i \in DOMAIN text |-> IF text[i] = c THEN <<AMP, 1000 + c>> ELSE <<text[i]>>])

(* Mutant of HtmlEscape: the ampersands are replaced last. *)
HtmlEscapeAmpLast(text) ==
  Replace(Replace(Replace(Replace(Replace(text, LT), GT), QUOT), APOS), AMP)

(* One replacement after another, the ampersands first. *)
HtmlEscape(text) ==
  Replace(Replace(Replace(Replace(Replace(text, AMP), LT), GT), QUOT), APOS)

Content(kind, mime, shown) == [kind |-> kind, mime |-> mime, shown |-> shown]
Binary == Content("binary", "", <<>>)
Undecoded == Content("error", "", <<>>)

(* render_content, when it returns. *)
RenderContent(data) ==
  CASE IsImage(data) -> Content("image", DetectImageMime(data), data)
    [] ~IsImage(data) /\ IsText(data) /\ IsUtf8(data) ->
         Content("text", "", HtmlEscape(Preview(data)))
    [] OTHER -> Binary

(* Mutant of RenderPanics: the result of from_utf8 is unwrapped. *)
RenderPanicsOnUtf8(data) ==
  ~IsImage(data) /\ IsText(data) /\ (~IsUtf8(data) \/ CutInside(data))

(* render_content panics. *)
RenderPanics(data) == ~IsImage(data) /\ IsText(data) /\ IsUtf8(data) /\ CutInside(data)

-----------------------------------------------------------------------------

(* What a browser makes of an escaped text. *)
Displayed(shown) ==
  LET entity(i) == shown[i] = AMP /\ i < Len(shown) /\ shown[i + 1] > 1000
  IN FlattenSeq([i \in DOMAIN shown |->
       IF entity(i) THEN <<shown[i + 1] - 1000>>
       ELSE IF i > 1 /\ entity(i - 1) THEN <<>> ELSE <<shown[i]>>])

(* A card shows the file: an image under its type, the beginning of a text *)
(* exactly as it is in the file, none of its characters taken for markup.  *)
Shows(content, data) ==
  /\ content.kind = "image" =>
       content.shown = data /\ content.mime # "octet-stream"
  /\ content.kind = "text" =>
       /\ \A c \in {LT, GT, QUOT, APOS} : c \notin ToSet(content.shown)
       /\ LET text == Displayed(content.shown)
          IN \/ text = data
             \/ Len(data) > PREVIEW_SIZE
                /\ text = SubSeq(data, 1, PREVIEW_SIZE) \o <<46, 46, 46>>
=============================================================================
