----------------------------- MODULE Screening -----------------------------
(***************************************************************************)
(* What the ingestion pipeline decides about one document: its format      *)
(* (ingestion/formats.py), whether there is text to read (parsing.py), the *)
(* tripwire (sentinel.py), the route (classifier.py) and the two layers of *)
(* armor (src/armor).                                                      *)
(*                                                                         *)
(* A content is what these decisions tell apart: the signature and the     *)
(* inside of its bytes, whether OCR reads them, whether the text holds an  *)
(* injection marker, matches a project rule, is longer than the prompt of  *)
(* the sentinel, and the workstream its keywords speak for.  With Live     *)
(* clients the answer of a model is free on every call; without them every *)
(* decision is a function of the content.                                  *)
(***************************************************************************)
CONSTANTS Contents,
          Traits,        \* Contents -> Trait
          Workstreams,
          Live,          \* the guarded clients are enabled: Gemma, Flash, Document AI
          None

\* The magic bytes of a blob, and what its container or its text looks like.
Magics  == {"pdf", "zip", "image", "none"}
Insides == {"text", "blank", "workbook", "document", "headers", "broken"}

Trait == [magic : Magics, inside : Insides, legible : BOOLEAN, marked : BOOLEAN,
          ruled : BOOLEAN, long : BOOLEAN, topic : Workstreams \cup {None}]

ASSUME ScreeningAssumption ==
  /\ Traits \in [Contents -> Trait]
  /\ Live \in BOOLEAN
  /\ None \notin Contents \cup Workstreams

-----------------------------------------------------------------------------
(* FORMAT AND TEXT *)

SniffPdf(inside) == CASE inside = "text"  -> "native_pdf"
                      [] inside = "blank" -> "scanned_pdf"
                      [] OTHER            -> "unknown"

SniffZip(inside) == CASE inside = "workbook" -> "xlsx"
                      [] inside = "document" -> "docx"
                      [] OTHER               -> "unknown"

SniffEml(inside) == IF inside = "headers" THEN "eml" ELSE "unknown"

(* detect_format: the magic bytes first, then the inside; the name of the  *)
(* file never counts.                                                      *)
Format(c) ==
  LET t == Traits[c] IN
  CASE t.magic = "pdf"   -> SniffPdf(t.inside)
    [] t.magic = "zip"   -> SniffZip(t.inside)
    [] t.magic = "image" -> "image"
    [] t.magic = "none"  -> SniffEml(t.inside)

\* The branches of LocalParser.parse that return text.
LocalText(c) == Format(c) \in {"native_pdf", "xlsx", "docx", "eml"}

\* DocumentAIParser.parse: whatever OCR finds, which may be nothing.
RemoteText(c) == Traits[c].legible

(* The parsed document has text, or text = None: it needs OCR.             *)
HasText(c) == IF Live THEN RemoteText(c) ELSE LocalText(c)

\* Both parsers raise UnsupportedFormatError.
Unsupported(c) == Format(c) = "unknown"

-----------------------------------------------------------------------------
(* SENTINEL AND CLASSIFIER *)

\* What _parse_tripwire_response makes of Gemma's JSON.
SentinelAnswers == {"clear", "tripped", "unparseable"}

\* injection_markers finds a pattern anywhere in the text.
Marked(c) == Traits[c].marked

\* Mutant: the length check is dropped, the model has read the first part.
TripwireTruncating(c, answer) == Marked(c) \/ (Live /\ answer # "clear")

(* injection_tripwire: markers in the whole text; the live client then     *)
(* fails closed on a text longer than its prompt and on every answer that  *)
(* does not clear.                                                         *)
Tripwire(c, answer) ==
  Marked(c) \/ (Live /\ (Traits[c].long \/ answer # "clear"))

\* The workstream of the document type whose keywords score highest; that of
\* the evidence it mentions for a correspondence; None without any keyword.
Topic(c) == Traits[c].topic

\* FakeClassifier: no route for a text with markers.
KeywordRoute(c) == IF Marked(c) THEN None ELSE Topic(c)

(* FlashClassifier: the model's workstream when it is one, else None.      *)
ModelRoute(answer) == IF answer \in Workstreams THEN answer ELSE None

Route(c, answer) == IF Live THEN ModelRoute(answer) ELSE KeywordRoute(c)

-----------------------------------------------------------------------------
(* ARMOR *)

\* The managed response: none at all, or the states of the filters and the
\* overall state, any of which may be missing.
MatchStates   == {"match", "no_match"}
ArmorResponse == [filters : SUBSET MatchStates, overall : MatchStates \cup {None}]

(* LiveModelArmor._map_response and the except around it: one match is     *)
(* enough to block, and so is the lack of any sign of a clean pass.        *)
ManagedBlocks(response) ==
  IF response = None THEN TRUE
  ELSE LET signs == response.filters \cup {response.overall}
       IN  "match" \in signs \/ "no_match" \notin signs

\* screen_project_rules hits on one of the rules.
Ruled(c) == Traits[c].ruled

\* Mutant: the managed verdict, when there is one, replaces the rules.
RunArmorManagedFirst(c, managed, response) ==
  IF managed THEN ManagedBlocks(response) ELSE Ruled(c)

(* run_armor: the rules always, the managed verdict on top when there is a *)
(* client.                                                                 *)
RunArmor(c, managed, response) ==
  Ruled(c) \/ (managed /\ ManagedBlocks(response))

\* With a managed client or without one, whatever it responds.
Verdicts(c) ==
  {RunArmor(c, managed, response) : managed \in BOOLEAN, response \in ArmorResponse \cup {None}}
=============================================================================
