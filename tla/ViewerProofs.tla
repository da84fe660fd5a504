----------------------------- MODULE ViewerProofs -----------------------------
(***************************************************************************)
(* Proofs about the document viewer, for any images, any number of clicks   *)
(* and any order of the events.                                             *)
(***************************************************************************)
EXTENDS MCViewer, FiniteSetTheorems, SequenceTheorems, TLAPS

-----------------------------------------------------------------------------
(* The scene.                                                               *)

Kind == {"image", "text", "picture", "region", "line"}

SceneType(sc) ==
    sc \in [items : SUBSET Kind, held : SUBSET {"image", "text", "picture"},
            dangling : SUBSET Kind, selected : Region \cup {Null},
            text : BOOLEAN, use_image : BOOLEAN, extended : BOOLEAN, base64 : BOOLEAN,
            cursor : Nat, layout : SUBSET Kind, failed : BOOLEAN]

\* What load() and load_xml() rely on.
SceneSafe(sc) == SceneType(sc) /\ sc.dangling = {} /\ (sc.cursor > 0 => sc.failed)

\* What they leave behind: the vectors point to what was read.
SceneSound(sc) ==
    /\ SceneSafe(sc)
    /\ "text" \in sc.held <=> "text" \in sc.layout
    /\ "picture" \in sc.held <=> sc.base64 /\ "picture" \in sc.layout
    /\ "text" \in sc.items <=> sc.text /\ "text" \in sc.layout
    /\ "line" \in sc.items <=> sc.extended /\ "line" \in sc.layout
    /\ "picture" \in sc.items <=> sc.use_image /\ sc.base64 /\ "picture" \in sc.layout
    /\ "image" \in sc.items => sc.use_image
    /\ "image" \in sc.held /\ sc.use_image /\ ~sc.base64 => "image" \in sc.items
    /\ sc.selected # Null => sc.selected \in sc.items

LEMMA EmptySceneSound == SceneSound(EmptyScene)
BY DEF EmptyScene, SceneSound, SceneSafe, SceneType, Kind, Null, Region

LEMMA ChangeBaseSafe ==
    ASSUME NEW sc, SceneSafe(sc), NEW b \in BOOLEAN
    PROVE  /\ SceneSafe(ChangeBase(sc, b))
           /\ ChangeBase(sc, b).held = sc.held
BY DEF SceneSafe, SceneType, ChangeBase

\* r is a scene with the options of sc and these fields.
SceneWith(r, sc, items, held, dangling, selected, cursor, layout, failed) ==
    /\ SceneType(r)
    /\ r.text = sc.text /\ r.use_image = sc.use_image
    /\ r.extended = sc.extended /\ r.base64 = sc.base64
    /\ r.items = items /\ r.held = held /\ r.dangling = dangling /\ r.selected = selected
    /\ r.cursor = cursor /\ r.layout = layout /\ r.failed = failed

LEMMA LoadImageSound ==
    ASSUME NEW sc, SceneSafe(sc)
    PROVE  /\ SceneSound(LoadImage(sc)) /\ LoadImage(sc).layout = {}
           /\ LoadImage(sc).held = {"image"}
<1>1. SceneType(sc) /\ sc.dangling = {} /\ (sc.cursor > 0 => sc.failed)
  BY DEF SceneSafe
<1> DEFINE a == PushCursor(sc)
           b == ClearScene(a)
           c == Forget(b, {"text", "picture", "image"})
           e == [c EXCEPT !.held = {"image"}, !.layout = {},
                          !.items = IF sc.use_image THEN {"image"} ELSE {}]
           items == IF sc.use_image THEN {"image"} ELSE {}
           cursor == IF sc.cursor = 0 THEN 0 ELSE sc.cursor - 1
<1>2. SceneWith(a, sc, sc.items, sc.held, {}, sc.selected, sc.cursor + 1, sc.layout, sc.failed)
  BY <1>1 DEF PushCursor, SceneWith, SceneType
<1>3. SceneWith(b, sc, {}, sc.held, sc.held \cap sc.items, Null, sc.cursor + 1, sc.layout, sc.failed)
  <2>1. {} \cup (sc.held \cap sc.items) = sc.held \cap sc.items
    OBVIOUS
  <2> HIDE DEF a
  <2> QED BY <1>2, <2>1 DEF ClearScene, SceneWith, SceneType, Kind, Region, Null
<1>4. SceneWith(c, sc, {}, {}, {}, Null, sc.cursor + 1, sc.layout, sc.failed)
  <2>1. /\ sc.held \ {"text", "picture", "image"} = {}
        /\ (sc.held \cap sc.items) \ {"text", "picture", "image"} = {}
    BY <1>1 DEF SceneType
  <2> HIDE DEF b
  <2> QED BY <1>3, <2>1 DEF Forget, SceneWith, SceneType, Kind, Region, Null
<1>5. SceneWith(e, sc, items, {"image"}, {}, Null, sc.cursor + 1, {}, sc.failed)
  <2> HIDE DEF c
  <2> QED BY <1>4 DEF SceneWith, SceneType, Kind
<1>6. SceneWith(LoadImage(sc), sc, items, {"image"}, {}, Null, cursor, {}, sc.failed)
  <2>1. LoadImage(sc) = RestoreCursor(RestoreCursor(e))
    BY DEF LoadImage
  <2>2. sc.cursor \in Nat
    BY <1>1 DEF SceneType
  <2> HIDE DEF e, items
  <2>3. SceneWith(RestoreCursor(e), sc, items, {"image"}, {}, Null, sc.cursor, {}, sc.failed)
    BY <1>5, <2>2 DEF RestoreCursor, SceneWith, SceneType, Kind, Region, Null
  <2>4. PICK r : r = RestoreCursor(e)
    OBVIOUS
  <2>5. SceneWith(RestoreCursor(r), sc, items, {"image"}, {}, Null, cursor, {}, sc.failed)
    <3>1. SceneWith(r, sc, items, {"image"}, {}, Null, sc.cursor, {}, sc.failed)
      BY <2>3, <2>4
    <3> QED BY <2>2, <3>1 DEF RestoreCursor, SceneWith, SceneType, Kind, Region, Null
  <2> QED BY <2>1, <2>4, <2>5
<1>7. sc.cursor \in Nat /\ cursor \in Nat /\ (cursor > 0 => sc.failed)
  BY <1>1 DEF SceneType
<1> HIDE DEF cursor
<1> QED BY <1>1, <1>6, <1>7 DEF SceneSound, SceneSafe, SceneType, Kind, Null, Region, SceneWith

LEMMA LoadXmlSound ==
    ASSUME NEW sc, SceneSafe(sc), NEW layout \in SUBSET Kind, "image" \notin layout
    PROVE  /\ SceneSound(LoadXml(sc, layout))
           /\ "image" \in LoadXml(sc, layout).held <=> "image" \in sc.held
<1>1. SceneType(sc) /\ sc.dangling = {} /\ (sc.cursor > 0 => sc.failed) /\ sc.cursor \in Nat
  BY DEF SceneSafe, SceneType
<1> DEFINE image == sc.held \cap {"image"}
           b == TakeImageOut(PushCursor(sc))
           c == Forget(b, {"text", "picture"})
           cleared == ClearScene(c)
           shown == IF ~cleared.base64 /\ cleared.use_image
                    THEN [cleared EXCEPT !.items = @ \cup (cleared.held \cap {"image"})]
                    ELSE cleared
           noted == [shown EXCEPT !.layout = layout, !.failed = @ \/ layout = {}]
           items == IF ~sc.base64 /\ sc.use_image THEN image ELSE {}
           failed == sc.failed \/ layout = {}
<1>2. SceneWith(b, sc, sc.items \ {"image"}, sc.held, {}, sc.selected, sc.cursor + 1,
                    sc.layout, sc.failed)
  <2>1. PICK a : a = PushCursor(sc)
    OBVIOUS
  <2>2. SceneWith(a, sc, sc.items, sc.held, {}, sc.selected, sc.cursor + 1, sc.layout, sc.failed)
    BY <1>1, <2>1 DEF PushCursor, SceneWith, SceneType
  <2> QED BY <2>1, <2>2 DEF TakeImageOut, SceneWith, SceneType
<1>3. SceneWith(c, sc, sc.items \ {"image"}, image, {}, sc.selected, sc.cursor + 1,
                    sc.layout, sc.failed)
  <2>1. sc.held \ {"text", "picture"} = image /\ {} \ {"text", "picture"} = {}
    BY <1>1 DEF SceneType
  <2> HIDE DEF b, image
  <2> QED BY <1>2, <2>1 DEF Forget, SceneWith, SceneType, Kind, Region, Null
<1>4. SceneWith(cleared, sc, {}, image, {}, Null, sc.cursor + 1, sc.layout, sc.failed)
  <2>1. {} \cup (image \cap (sc.items \ {"image"})) = {}
    OBVIOUS
  <2> HIDE DEF c, image
  <2> QED BY <1>3, <2>1 DEF ClearScene, SceneWith, SceneType, Kind, Region, Null
<1>5. SceneWith(shown, sc, items, image, {}, Null, sc.cursor + 1, sc.layout, sc.failed)
  <2>1. {} \cup (image \cap {"image"}) = image
    OBVIOUS
  <2> HIDE DEF cleared, image
  <2> QED BY <1>4, <2>1 DEF SceneWith, SceneType, Kind
<1>6. SceneWith(noted, sc, items, image, {}, Null, sc.cursor + 1, layout, failed)
  <2> HIDE DEF shown, image, items
  <2> QED BY <1>5 DEF SceneWith, SceneType, Kind
<1>7. LoadXml(sc, layout) = IF layout = {} THEN noted ELSE ReadPage(noted, layout)
  BY DEF LoadXml
<1> HIDE DEF noted
<1>8. /\ image \subseteq {"image"} /\ image \in SUBSET sc.held
      /\ "image" \in image <=> "image" \in sc.held
      /\ items \subseteq image
      /\ "image" \in items => sc.use_image
      /\ "image" \in image /\ sc.use_image /\ ~sc.base64 => "image" \in items
      /\ failed \in BOOLEAN
  BY <1>1 DEF SceneType
<1>9. CASE layout = {}
  <2>1. LoadXml(sc, layout) = noted /\ failed
    BY <1>7, <1>9
  <2> HIDE DEF image, items, failed
  <2> QED BY ZenonT(60), <1>1, <1>6, <1>8, <1>9, <2>1
          DEF SceneSound, SceneSafe, SceneType, Kind, Null, Region, SceneWith
<1>10. CASE layout # {}
  <2> DEFINE pictures == IF sc.base64 THEN layout \cap {"picture"} ELSE {}
             held == (image \cup pictures) \cup (layout \cap {"text"})
             items1 == items \cup (layout \cap {"region"})
             items2 == items1 \cup (IF sc.use_image THEN pictures ELSE {})
             items3 == items2 \cup (IF sc.extended THEN layout \cap {"line"} ELSE {})
             items4 == items3 \cup (IF sc.text THEN layout \cap {"text"} ELSE {})
             r == AddRegion(noted, layout)
             p == AddPicture(r, layout)
             l == AddLine(p, layout)
             t == AddText(l, layout)
  <2> HIDE DEF items, image, failed
  <2>1. SceneWith(r, sc, items1, image, {}, Null, sc.cursor + 1, layout, failed)
    BY <1>6 DEF AddRegion, SceneWith, SceneType, Kind, Region, Null
  <2>2. SceneWith(p, sc, items2, image \cup pictures, {}, Null, sc.cursor + 1, layout, failed)
    <3> HIDE DEF r, items1
    <3> QED BY <2>1 DEF AddPicture, SceneWith, SceneType, Kind, Region, Null
  <2>3. SceneWith(l, sc, items3, image \cup pictures, {}, Null, sc.cursor + 1, layout, failed)
    <3> HIDE DEF p, items2, pictures
    <3> QED BY <2>2 DEF AddLine, SceneWith, SceneType, Kind, Region, Null
  <2>4. SceneWith(t, sc, items4, held, {}, Null, sc.cursor + 1, layout, failed)
    <3> HIDE DEF l, items3, pictures
    <3> QED BY <2>3 DEF AddText, SceneWith, SceneType, Kind, Region, Null
  <2>5. LoadXml(sc, layout) = RestoreCursor(t)
    BY <1>7, <1>10 DEF ReadPage, AddLayout
  <2>6. SceneWith(LoadXml(sc, layout), sc, items4, held, {}, Null, sc.cursor, layout, failed)
    <3> HIDE DEF t, items4, held
    <3> QED BY <1>1, <2>4, <2>5 DEF RestoreCursor, SceneWith, SceneType, Kind, Region, Null
  <2>7. /\ held \in SUBSET {"image", "text", "picture"}
        /\ "text" \in held <=> "text" \in layout
        /\ "picture" \in held <=> sc.base64 /\ "picture" \in layout
        /\ "image" \in held <=> "image" \in sc.held
    BY <1>1, <1>8 DEF SceneType
  <2>8. /\ items4 \in SUBSET Kind
        /\ "text" \in items4 <=> sc.text /\ "text" \in layout
        /\ "line" \in items4 <=> sc.extended /\ "line" \in layout
        /\ "picture" \in items4 <=> sc.use_image /\ sc.base64 /\ "picture" \in layout
        /\ "image" \in items4 <=> "image" \in items
    BY <1>1, <1>8 DEF SceneType, Kind
  <2>9. sc.cursor > 0 => failed
    BY <1>1 DEF failed
  <2> HIDE DEF items4, held
  <2> QED BY <1>1, <1>8, <2>6, <2>7, <2>8, <2>9
          DEF SceneSound, SceneSafe, SceneType, Kind, Null, Region, SceneWith
<1> QED BY <1>9, <1>10

LEMMA UseTextSound ==
    ASSUME NEW sc, SceneSound(sc), NEW b \in BOOLEAN
    PROVE  SceneSound(UseText(sc, b)) /\ UseText(sc, b).layout = sc.layout
           /\ UseText(sc, b).held = sc.held
BY ZenonT(60), SMTT(30) DEF SceneSound, SceneSafe, SceneType, Kind, Null, Region, UseText

LEMMA UseImageSound ==
    ASSUME NEW sc, SceneSound(sc), NEW b \in BOOLEAN
    PROVE  SceneSound(UseImage(sc, b)) /\ UseImage(sc, b).layout = sc.layout
           /\ UseImage(sc, b).held = sc.held
BY ZenonT(60), SMTT(30) DEF SceneSound, SceneSafe, SceneType, Kind, Null, Region, UseImage

LEMMA SelectSound ==
    ASSUME NEW sc, SceneSound(sc), NEW r \in (sc.items \cap Region) \cup {Null}
    PROVE  SceneSound(Select(sc, r)) /\ Select(sc, r).layout = sc.layout
           /\ Select(sc, r).held = sc.held
BY DEF SceneSound, SceneSafe, SceneType, Kind, Null, Region, Select

-----------------------------------------------------------------------------
(* Invariants.                                                              *)

\* The parameters of the runner, or none.
IsRequest(r) ==
    \/ r = <<>>
    \/ \E image \in Image : r = <<image>>
    \/ \E image \in Image, f \in File \cup {NoFile} : r = <<image, f, "output">>

XmlSaved(f) == [type |-> "xml_saved", file |-> f]
Finished == [type |-> "finished"]
Signal == {XmlSaved(f) : f \in File} \cup {Finished}

\* The parameters are cleared before they are given, so never too many.
RunnerType ==
    /\ pc \in {"stopped", "enter", "load", "process", "save", "export", "finish", "leave"}
    /\ mode \in {"Demat", "Export"}
    /\ IsRequest(args) /\ IsRequest(request) /\ (request # <<>> => args = <<>>)
    /\ source \in Image \cup {NoFile} /\ output \in File \cup {NoFile}
    /\ ~ crashed /\ pc \in {"process", "save"} => source \in Image
    /\ ~ crashed /\ pc = "save" => output \in File
    /\ signals \in Seq(Signal)
    /\ disk \in [File -> Image \cup {Absent, Broken}]
    /\ saving \in {"no", "own", "temp"}
    /\ temporary \subseteq File

WindowType ==
    /\ current_image \in Image \cup {NoFile} /\ file_with_no_ext = current_image
    /\ map = [k \in DOMAIN map |-> map[k]] /\ \A k \in DOMAIN map : map[k] \in File
    /\ xml_file \in File \cup {NoFile, Container}
    /\ tmp_files_to_remove \subseteq File
    /\ {crashed, dialog, exportable, quit, escaped} \subseteq BOOLEAN

\* Nothing runs, and nothing can be asked, before an image is opened.
SceneInv ==
    /\ SceneSound(scene)
    /\ xml_file = NoFile => scene.layout = {}
    /\ "image" \notin scene.held =>
          /\ current_image = NoFile /\ DOMAIN map = {} /\ ~ exportable
          /\ request = <<>> /\ pc = "stopped" /\ signals = <<>>

Idle == pc \in {"stopped", "leave"}

\* While the user waits for the dialog to close by itself, the run, its
\* parameters and its signals are those of the image opened; the signals are
\* handled in order, the last one closes the dialog.
Serving ==
    /\ ~ crashed
    /\ \A f \in File : disk[f] \in {Absent, Broken, f.base}
    /\ ~ dialog => Idle /\ signals = <<>> /\ request = <<>>
    /\ request # <<>> => Idle /\ signals = <<>>
    /\ quit => ~ dialog
    /\ Len(request) = 1 => request[1] = current_image
    /\ pc = "enter" => \/ mode = "Demat" /\ args = <<current_image>>
                       \/ mode = "Export" /\ Len(args) = 3
    /\ pc \in {"load", "process", "save"} => args = <<current_image>>
    /\ pc \in {"process", "save"} => source = current_image
    /\ pc = "save" => output.base = current_image
    /\ pc = "export" => Len(args) = 3
    /\ pc \in {"enter", "load", "process", "save", "export"} => signals = <<>>
    /\ pc = "finish" =>
          \/ signals = <<>>
          \/ \E f \in File : f.base = current_image /\ signals = <<XmlSaved(f)>>
    /\ Idle =>
          \/ signals \in {<<>>, <<Finished>>}
          \/ \E f \in File : f.base = current_image /\ signals = <<XmlSaved(f), Finished>>

ServeInv == ~ escaped => Serving

\* A file written while saving was off is recorded, or about to be.
Recorded(f) ==
    \/ f \in tmp_files_to_remove
    \/ /\ saving = "no"
       /\ \/ pc = "save" /\ f = output
          \/ signals # <<>> /\ Head(signals) = XmlSaved(f)

Kept(f) == IF quit THEN disk[f] = Absent ELSE Recorded(f)
TemporaryInv == ~ escaped => \A f \in temporary : Kept(f)

TypeInv == RunnerType /\ WindowType

LEMMA RequestFacts ==
    ASSUME NEW r, IsRequest(r)
    PROVE  /\ Len(r) \in {0, 1, 3} /\ (r = <<>> <=> Len(r) = 0) /\ <<>> \o r = r
           /\ r # <<>> => r[1] \in Image
           /\ Len(r) = 1 => r = <<r[1]>>
BY DEF IsRequest

LEMMA SignalFacts ==
    ASSUME NEW q \in Seq(Signal)
    PROVE  /\ q # <<>> => Head(q) \in Signal /\ Tail(q) \in Seq(Signal)
           /\ \A m \in Signal : Append(q, m) \in Seq(Signal)
<1> HIDE DEF Signal
<1> QED OBVIOUS

LEMMA XmlSavedFacts ==
    /\ \A f \in File : XmlSaved(f) \in Signal /\ XmlSaved(f).file = f
                       /\ XmlSaved(f).type = "xml_saved"
    /\ Finished \in Signal /\ Finished.type = "finished"
    /\ \A m \in Signal : m.type = "xml_saved" => m.file \in File /\ m = XmlSaved(m.file)
    /\ \A m \in Signal : m.type = "finished" => m = Finished
BY DEF Signal, XmlSaved, Finished

\* What the slots of the window leave as it is.
RunnerAlone == UNCHANGED <<runner, signals, disk, saving, temporary, crashed, request>>

LEMMA RunnerStep ==
    ASSUME TypeInv, [Next]_vars
    PROVE  RunnerType'
<1> USE DEF runner, window, session, vars, TypeInv
<1>1. ASSUME Enter, ~ crashed, UNCHANGED <<window, dialog, session>> PROVE RunnerType'
  BY <1>1 DEF Enter, RunnerType, IsRequest
<1>2. ASSUME Load, ~ crashed, UNCHANGED <<window, dialog, session>> PROVE RunnerType'
  <2>0. IsRequest(args) /\ source \in Image \cup {NoFile}
    BY DEF RunnerType
  <2>1. source' \in Image \cup {NoFile} /\ (~ crashed' => source' \in Image)
    <3>1. CASE args = <<>>
      <4>1. source' = source /\ crashed' = (Len(args) < 1) /\ Len(args) = 0
        BY <1>2, <2>0, <3>1, RequestFacts DEF Load, NeedsArgs
      <4>2. crashed'
        <5>1. Len(args) < 1
          BY <4>1
        <5> QED BY <4>1, <5>1, Zenon
      <4> QED BY <2>0, <4>1, <4>2
    <3>2. CASE args # <<>>
      BY <1>2, <2>0, <3>2, RequestFacts DEF Load
    <3> QED BY <3>1, <3>2
  <2> QED BY <1>2, <2>1 DEF Load, RunnerType, IsRequest
<1>3. ASSUME Process, ~ crashed, UNCHANGED <<window, dialog, session>> PROVE RunnerType'
  <2>1. output' \in File
    <3>1. (IF args = <<>> THEN source ELSE args[1]) \in Image
      BY <1>3, RequestFacts DEF Process, RunnerType
    <3>2. OutputDir \in {"own", "temp"}
      BY DEF OutputDir, RunnerType
    <3> QED BY <1>3, <3>1, <3>2 DEF Process, File
  <2>2. temporary' \subseteq File
    BY <1>3, <2>1 DEF Process, RunnerType
  <2> QED BY <1>3, <2>1, <2>2 DEF Process, RunnerType, IsRequest
<1>4. ASSUME Save, ~ crashed, UNCHANGED <<window, dialog, session>> PROVE RunnerType'
  <2>1. output \in File /\ source \in Image
    BY <1>4 DEF Save, RunnerType
  <2>2. disk' \in [File -> Image \cup {Absent, Broken}]
    BY <1>4, <2>1 DEF Save, RunnerType
  <2>3. signals' \in Seq(Signal)
    BY <1>4, <2>1, SignalFacts, XmlSavedFacts DEF Save, RunnerType, XmlSaved
  <2> QED BY <1>4, <2>2, <2>3 DEF Save, RunnerType, IsRequest
<1>5. ASSUME Export, ~ crashed, UNCHANGED <<window, dialog, session>> PROVE RunnerType'
  BY <1>5 DEF Export, RunnerType, IsRequest
<1>6. ASSUME Finish, ~ crashed, UNCHANGED <<window, dialog, session>> PROVE RunnerType'
  <2>1. signals' \in Seq(Signal)
    BY <1>6, SignalFacts, XmlSavedFacts DEF Finish, RunnerType, Finished
  <2> QED BY <1>6, <2>1 DEF Finish, RunnerType, IsRequest
<1>7. ASSUME Leave, ~ crashed, UNCHANGED <<window, dialog, session>> PROVE RunnerType'
  BY <1>7 DEF Leave, RunnerType, IsRequest
<1>8. CASE StartThread
  <2>1. args' = request
    BY <1>8, RequestFacts DEF StartThread, StartWith, RunnerType
  <2>2. IsRequest(args') /\ IsRequest(request')
    BY <1>8, <2>1 DEF StartThread, RunnerType, IsRequest
  <2> QED BY <1>8, <2>2 DEF StartThread, StartWith, RunnerType
<1>9. ASSUME NEW type, Receive(type), crashed' \in {crashed, TRUE} PROVE RunnerType'
  <2>1. signals' \in Seq(Signal)
    BY <1>9, SignalFacts DEF Receive, RunnerType
  <2> QED BY <1>9, <2>1 DEF Receive, RunnerType, IsRequest
<1>10. CASE OnXmlSaved
  <2>1. crashed' \in {crashed, TRUE} /\ Receive("xml_saved")
    BY <1>10 DEF OnXmlSaved
  <2> QED BY <1>9, <2>1
<1>11. CASE OnFinished
  BY <1>9, <1>11 DEF OnFinished
<1>12. ASSUME RunnerAlone PROVE RunnerType'
  BY <1>12 DEF RunnerAlone, RunnerType, IsRequest
<1>13. CASE Open \/ ActivateStep \/ Toggle
  BY <1>12, <1>13 DEF Open, OpenImage, OpenContainer, ActivateStep, Toggle, WindowOnly, RunnerAlone
<1>14. CASE Preferences
  BY <1>14 DEF Preferences, RunnerType, IsRequest
<1>15. ASSUME NEW r, Ask(r), IsRequest(r) PROVE RunnerType'
  <2>1. IsRequest(args') /\ IsRequest(request') /\ args' = <<>>
    BY <1>15 DEF Ask, ClearArgs, IsRequest
  <2> QED BY <1>15, <2>1 DEF Ask, RunnerType
<1>16. CASE RunProcess
  <2>1. IsRequest(<<current_image>>)
    BY <1>16 DEF RunProcess, WindowType, IsRequest
  <2> QED BY <1>15, <1>16, <2>1 DEF RunProcess
<1>17. CASE ExportAs
  <2>1. PICK image \in Image :
           Ask(<<image, IF step \in DOMAIN map THEN map[step] ELSE NoFile, "output">>)
    BY <1>17 DEF ExportAs
  <2>2. (IF step \in DOMAIN map THEN map[step] ELSE NoFile) \in File \cup {NoFile}
    BY DEF WindowType
  <2>3. IsRequest(<<image, IF step \in DOMAIN map THEN map[step] ELSE NoFile, "output">>)
    BY <2>2 DEF IsRequest
  <2> QED BY <1>15, <2>1, <2>3
<1>18. CASE CloseDialog
  BY <1>12, <1>18 DEF CloseDialog, RunnerAlone
<1>19. CASE Quit
  <2>1. disk' \in [File -> Image \cup {Absent, Broken}]
    BY <1>19 DEF Quit, RunnerType
  <2> QED BY <1>19, <2>1 DEF Quit, RunnerType, IsRequest
<1>20. CASE UNCHANGED vars
  BY <1>12, <1>20 DEF RunnerAlone
<1> QED BY <1>1, <1>2, <1>3, <1>4, <1>5, <1>6, <1>7, <1>8, <1>10, <1>11, <1>13, <1>14,
           <1>16, <1>17, <1>18, <1>19, <1>20
        DEF Next, Worker, Run, EventLoop, View, Work

IsSteps(steps) ==
    steps = [k \in DOMAIN steps |-> steps[k]] /\ \A k \in DOMAIN steps : steps[k] \in File

\* Two files may be the same step of an image: those of the two directories.
LEMMA StepsAreFiles ==
    ASSUME NEW image \in Image
    PROVE  IsSteps(StepsOf(image))
<1> DEFINE listed == {f \in File : disk[f] # Absent /\ StartsWith(f.base, image)}
           Keys == {Key(f, image) : f \in listed}
           Same(k) == {f \in listed : Key(f, image) = k}
           Preferred(f, k) == f.dir = "temp" \/ Cardinality(Same(k)) = 1
           Chosen(k) == CHOOSE f \in Same(k) : Preferred(f, k)
<1>1. StepsOf(image) = [k \in Keys |-> Chosen(k)]
  BY DEF StepsOf
<1>2. ASSUME NEW k \in Keys PROVE Chosen(k) \in File
  <2>1. PICK f \in listed : Key(f, image) = k
    OBVIOUS
  <2>2. \E g \in Same(k) : Preferred(g, k)
    <3>1. CASE \E g \in Same(k) : g.dir = "temp"
      BY <3>1
    <3>2. CASE \A g \in Same(k) : g.dir # "temp"
      <4>1. ASSUME NEW g \in Same(k) PROVE g = f
        <5>1. g \in File /\ f \in File /\ Key(g, image) = Key(f, image)
          BY <2>1
        <5>2. g.dir = "own" /\ f.dir = "own"
          BY <2>1, <3>2, <5>1 DEF File
        <5>3. g.base = f.base
          BY <5>1, NamesAssumption DEF Key, File
        <5> QED BY <5>1, <5>2, <5>3 DEF File
      <4>2. Same(k) = {f}
        BY <2>1, <4>1
      <4>3. Cardinality(Same(k)) = 1
        <5> HIDE DEF Same
        <5> QED BY <4>2, FS_Singleton
      <4> QED BY <4>2, <4>3
    <3> QED BY <3>1, <3>2
  <2>3. Chosen(k) \in Same(k)
    <3> HIDE DEF Same, Preferred
    <3> QED BY <2>2
  <2> QED BY <2>3
<1> HIDE DEF Chosen, Keys
<1> QED BY <1>1, <1>2 DEF IsSteps

LEMMA InsertedAreFiles ==
    ASSUME NEW steps, IsSteps(steps), NEW f \in File, NEW prefix
    PROVE  IsSteps(Insert(steps, f, prefix)) /\ Key(f, prefix) \in DOMAIN Insert(steps, f, prefix)
BY DEF IsSteps, Insert

\* The slots that leave the window as it is.
WindowAlone == UNCHANGED <<window, tmp_files_to_remove>>

LEMMA WindowStep ==
    ASSUME TypeInv, [Next]_vars
    PROVE  WindowType'
<1> USE DEF runner, window, session, vars, TypeInv
<1>0. IsSteps(map)
  BY DEF WindowType, IsSteps
<1>1. ASSUME WindowAlone,
             {crashed', dialog', exportable', quit', escaped'} \subseteq BOOLEAN
      PROVE  WindowType'
  BY <1>1 DEF WindowAlone, WindowType
<1>2. CASE Worker
  <2>1. crashed' \in BOOLEAN
    <3>1. \/ crashed' = crashed
          \/ \E n \in {1, 3} : crashed' = (Len(args) < n)
      BY <1>2 DEF Worker, Run, Enter, Load, Process, Save, Export, Finish, Leave, NeedsArgs
    <3>2. crashed \in BOOLEAN
      BY DEF WindowType
    <3>3. ASSUME NEW n \in {1, 3}, crashed' = (Len(args) < n) PROVE crashed' \in BOOLEAN
      <4>1. CASE Len(args) < n
        <5>1. crashed' = TRUE
          BY <3>3, <4>1, Zenon
        <5> QED BY <5>1
      <4>2. CASE ~ (Len(args) < n)
        <5>1. (Len(args) < n) = FALSE
          BY <4>2, SMT
        <5>2. crashed' = FALSE
          BY <3>3, <5>1, Zenon
        <5> QED BY <5>2
      <4> QED BY <4>1, <4>2
    <3> QED BY <3>1, <3>2, <3>3
  <2>2. UNCHANGED <<window, dialog, session>>
    BY <1>2 DEF Worker
  <2> QED BY <1>1, <2>1, <2>2 DEF WindowAlone, WindowType
<1>3. CASE StartThread
  BY <1>1, <1>3 DEF StartThread, WindowAlone, WindowType
<1>4. ASSUME NEW k, NEW steps, IsSteps(steps), k \in DOMAIN steps, NEW sc,
             Activate(k, steps, sc)
      PROVE  xml_file' \in File /\ exportable' = TRUE
  BY <1>4 DEF Activate, IsSteps
<1>5. CASE OnXmlSaved
  <2>1. Receive("xml_saved")
    BY <1>5 DEF OnXmlSaved
  <2> DEFINE f == Head(signals).file
  <2>2. f \in File
    BY <2>1, SignalFacts, XmlSavedFacts DEF Receive, RunnerType
  <2>3. tmp_files_to_remove' \subseteq File /\ dialog' = dialog
    BY <1>5, <2>2 DEF OnXmlSaved, Record, WindowType
  <2>4. UNCHANGED <<quit, escaped>>
    BY <2>1 DEF Receive
  <2>5. CASE crashed' = TRUE /\ UNCHANGED window
    BY <2>3, <2>4, <2>5 DEF WindowType
  <2>6. CASE /\ map' = Insert(map, f, file_with_no_ext)
             /\ Activate(Key(f, file_with_no_ext), Insert(map, f, file_with_no_ext), scene)
             /\ UNCHANGED <<current_image, file_with_no_ext, crashed>>
    <3>1. /\ IsSteps(Insert(map, f, file_with_no_ext))
          /\ Key(f, file_with_no_ext) \in DOMAIN Insert(map, f, file_with_no_ext)
      BY <1>0, <2>2, InsertedAreFiles
    <3>2. IsSteps(map')
      BY <2>6, <3>1
    <3>3. xml_file' \in File /\ exportable' = TRUE
      BY <1>4, <2>6, <3>1
    <3> HIDE DEF f
    <3> QED BY <2>3, <2>4, <2>6, <3>2, <3>3 DEF WindowType, IsSteps
  <2> QED BY <1>5, <2>5, <2>6 DEF OnXmlSaved
<1>6. CASE OnFinished
  BY <1>1, <1>6 DEF OnFinished, Receive, WindowAlone, WindowType
<1>7. ASSUME NEW image \in Image, NEW browsing \in BOOLEAN, OpenImage(image, browsing)
      PROVE  WindowType'
  <2> DEFINE steps == StepsOf(image)
  <2>1. IsSteps(steps)
    BY StepsAreFiles
  <2>2. current_image' = image /\ file_with_no_ext' = image /\ map' = steps
    BY <1>7 DEF OpenImage
  <2>3. UNCHANGED <<crashed, dialog, quit, escaped, tmp_files_to_remove>>
    BY <1>7 DEF OpenImage, WindowOnly, User
  <2>4. xml_file' \in File \cup {NoFile} /\ exportable' \in {TRUE, exportable}
    <3>1. ASSUME NEW k \in DOMAIN steps, NEW sc, Activate(k, steps, sc)
          PROVE  xml_file' \in File \cup {NoFile} /\ exportable' \in {TRUE, exportable}
      BY <1>4, <2>1, <3>1
    <3>2. ASSUME NEW step0 PROVE Matching(step0, DOMAIN steps) \subseteq DOMAIN steps
      BY DEF Matching
    <3> HIDE DEF steps
    <3>3. CASE xml_file' = NoFile /\ UNCHANGED exportable
      BY <3>3
    <3> QED BY <1>7, <3>1, <3>2, <3>3 DEF OpenImage, steps
  <2> HIDE DEF steps
  <2> QED BY <2>1, <2>2, <2>3, <2>4 DEF WindowType, IsSteps
<1>8. CASE OpenContainer
  <2>1. UNCHANGED <<crashed, dialog, quit, escaped, tmp_files_to_remove, current_image,
                    file_with_no_ext, exportable>>
    BY <1>8 DEF OpenContainer, WindowOnly, User
  <2>2. xml_file' = Container /\ map' = <<>>
    BY <1>8 DEF OpenContainer
  <2> QED BY <2>1, <2>2 DEF WindowType
<1>9. CASE ActivateStep
  <2>1. UNCHANGED <<crashed, dialog, quit, escaped, tmp_files_to_remove, current_image,
                    file_with_no_ext, map>>
    BY <1>9 DEF ActivateStep, WindowOnly, User
  <2>2. xml_file' \in File /\ exportable' = TRUE
    BY <1>0, <1>4, <1>9 DEF ActivateStep
  <2> QED BY <2>1, <2>2 DEF WindowType
<1>10. CASE Toggle
  BY <1>10 DEF Toggle, WindowOnly, User, WindowType
<1>11. CASE Preferences
  BY <1>1, <1>11 DEF Preferences, User, WindowAlone, WindowType
<1>12. ASSUME NEW r, Ask(r) PROVE WindowType'
  BY <1>1, <1>12 DEF Ask, User, WindowAlone, WindowType
<1>13. CASE CloseDialog
  <2>1. escaped' \in BOOLEAN /\ dialog' = FALSE
    BY <1>13 DEF CloseDialog, WindowType
  <2> QED BY <1>1, <1>13, <2>1 DEF CloseDialog, WindowAlone, WindowType
<1>14. CASE Quit
  BY <1>1, <1>14 DEF Quit, User, WindowAlone, WindowType
<1>15. CASE UNCHANGED vars
  BY <1>1, <1>15 DEF WindowAlone, WindowType
<1> QED BY <1>2, <1>3, <1>5, <1>6, <1>7, <1>8, <1>9, <1>10, <1>11, <1>12, <1>13, <1>14, <1>15
        DEF Next, EventLoop, View, Work, Open, RunProcess, ExportAs

LEMMA LayoutKinds ==
    ASSUME NEW f, NEW files
    PROVE  Layout(f, files) \in SUBSET Kind /\ "image" \notin Layout(f, files)
BY DEF Layout, Kind

LEMMA ActivatedScene ==
    ASSUME NEW k, NEW steps, IsSteps(steps), k \in DOMAIN steps, NEW sc, SceneSafe(sc),
           Activate(k, steps, sc)
    PROVE  /\ SceneSound(scene') /\ xml_file' # NoFile
           /\ "image" \in scene'.held <=> "image" \in sc.held
<1>1. scene' = LoadXml(sc, Layout(steps[k], disk)) /\ xml_file' \in File
  BY DEF Activate, IsSteps
<1> QED BY <1>1, LayoutKinds, LoadXmlSound, NamesAssumption

LEMMA SceneStep ==
    ASSUME TypeInv, SceneInv, [Next]_vars
    PROVE  SceneInv'
<1> USE DEF runner, window, session, vars, TypeInv
<1>0. IsSteps(map) /\ SceneSound(scene) /\ SceneSafe(scene)
  BY DEF WindowType, IsSteps, SceneInv, SceneSound
<1>1. ASSUME UNCHANGED <<scene, xml_file>>, "image" \in scene.held PROVE SceneInv'
  BY <1>1 DEF SceneInv
<1>2. ASSUME UNCHANGED <<window, request, pc, signals>> PROVE SceneInv'
  BY <1>2 DEF SceneInv
<1>3. CASE Worker
  <2>1. pc # "stopped" /\ UNCHANGED window
    BY <1>3 DEF Worker, Run, Enter, Load, Process, Save, Export, Finish, Leave
  <2> QED BY <1>1, <2>1 DEF SceneInv
<1>4. CASE StartThread
  BY <1>1, <1>4 DEF StartThread, SceneInv
<1>5. CASE OnXmlSaved
  <2>1. "image" \in scene.held
    BY <1>5 DEF OnXmlSaved, Receive, SceneInv
  <2> DEFINE f == Head(signals).file
             steps == Insert(map, f, file_with_no_ext)
  <2>2. f \in File
    BY <1>5, SignalFacts, XmlSavedFacts DEF OnXmlSaved, Receive, RunnerType
  <2>3. CASE Activate(Key(f, file_with_no_ext), steps, scene)
    <3>1. IsSteps(steps) /\ Key(f, file_with_no_ext) \in DOMAIN steps
      BY <1>0, <2>2, InsertedAreFiles
    <3> HIDE DEF f, steps
    <3>2. SceneSound(scene') /\ xml_file' # NoFile /\ "image" \in scene'.held
      BY <1>0, <2>1, <2>3, <3>1, ActivatedScene
    <3> QED BY <3>2 DEF SceneInv
  <2>4. CASE UNCHANGED window
    BY <1>1, <2>1, <2>4
  <2> QED BY <1>5, <2>3, <2>4 DEF OnXmlSaved
<1>6. CASE OnFinished
  BY <1>1, <1>6 DEF OnFinished, Receive, SceneInv
<1>7. ASSUME NEW image \in Image, NEW browsing \in BOOLEAN, OpenImage(image, browsing)
      PROVE  SceneInv'
  <2> DEFINE loaded == LoadImage(ChangeBase(scene, FALSE))
             steps == StepsOf(image)
  <2>1. /\ SceneSound(loaded) /\ SceneSafe(loaded) /\ loaded.layout = {}
        /\ loaded.held = {"image"}
    BY <1>0, ChangeBaseSafe, LoadImageSound DEF SceneSound
  <2>2. IsSteps(steps)
    BY StepsAreFiles
  <2>3. ASSUME NEW k \in DOMAIN steps, Activate(k, steps, loaded) PROVE SceneInv'
    <3> HIDE DEF loaded, steps
    <3>1. SceneSound(scene') /\ xml_file' # NoFile /\ "image" \in scene'.held
      BY <2>1, <2>2, <2>3, ActivatedScene
    <3> QED BY <3>1 DEF SceneInv
  <2>4. CASE scene' = loaded /\ xml_file' = NoFile
    <3> HIDE DEF loaded
    <3> QED BY <2>1, <2>4 DEF SceneInv
  <2>5. ASSUME NEW step0 PROVE Matching(step0, DOMAIN steps) \subseteq DOMAIN steps
    BY DEF Matching
  <2> HIDE DEF loaded, steps
  <2> QED BY <1>7, <2>3, <2>4, <2>5 DEF OpenImage, loaded, steps
<1>8. CASE OpenContainer
  <2> DEFINE l == Layout(Container, disk)
             b == ChangeBase(scene, TRUE)
  <2>1. SceneSafe(b) /\ b.held = scene.held
    BY <1>0, ChangeBaseSafe
  <2>2. /\ SceneSound(LoadXml(b, l))
        /\ "image" \in LoadXml(b, l).held <=> "image" \in scene.held
    <3> HIDE DEF b
    <3> QED BY <2>1, LayoutKinds, LoadXmlSound
  <2>3. scene' = LoadXml(b, l)
    BY <1>8 DEF OpenContainer
  <2> HIDE DEF b, l
  <2>4. xml_file' # NoFile /\ DOMAIN map' = {}
    BY <1>8, NamesAssumption DEF OpenContainer
  <2>5. UNCHANGED <<current_image, exportable, request, pc, signals>>
    BY <1>8 DEF OpenContainer, WindowOnly
  <2> QED BY <2>2, <2>3, <2>4, <2>5 DEF SceneInv
<1>9. CASE ActivateStep
  <2>1. PICK k \in DOMAIN map : Activate(k, map, scene)
    BY <1>9 DEF ActivateStep
  <2>2. SceneSound(scene') /\ xml_file' # NoFile /\ "image" \in scene'.held
    BY <1>0, <2>1, ActivatedScene DEF SceneInv
  <2> QED BY <2>2 DEF SceneInv
<1>10. CASE Toggle
  <2>1. UNCHANGED <<current_image, xml_file, map, exportable, request, pc, signals>>
    BY <1>10 DEF Toggle, WindowOnly
  <2>2. /\ SceneSound(scene') /\ (xml_file = NoFile => scene'.layout = {})
        /\ "image" \in scene'.held <=> "image" \in scene.held
    <3>0. SceneType(scene) /\ (xml_file = NoFile => scene.layout = {})
      BY <1>0 DEF SceneSafe, SceneInv
    <3>1. CASE scene' = UseText(scene, ~ scene.text)
      BY <1>0, <3>0, <3>1, UseTextSound
    <3>2. CASE scene' = UseImage(scene, ~ scene.use_image)
      BY <1>0, <3>0, <3>2, UseImageSound
    <3>3. CASE scene' = UseExtended(scene, ~ scene.extended, xml_file # NoFile,
                                    IF xml_file = NoFile THEN {} ELSE Layout(xml_file, disk))
      <4> DEFINE e == [scene EXCEPT !.extended = ~ scene.extended]
      <4>1. SceneSafe(e) /\ e.held = scene.held
        BY <1>0, <3>0 DEF SceneSafe, SceneType
      <4>2. CASE xml_file = NoFile
        <5>1. scene' = e /\ scene.layout = {}
          BY <3>0, <3>3, <4>2 DEF UseExtended
        <5>2. SceneSound(e) /\ e.layout = {}
          BY <1>0, <3>0, <4>2 DEF SceneSound, SceneSafe, SceneType, Kind, Region, Null
        <5> HIDE DEF e
        <5> QED BY <4>1, <5>1, <5>2
      <4>3. CASE xml_file # NoFile
        <5>1. scene' = LoadXml(e, Layout(xml_file, disk))
          BY <3>3, <4>3 DEF UseExtended
        <5> HIDE DEF e
        <5> QED BY <4>1, <4>3, <5>1, LayoutKinds, LoadXmlSound
      <4> QED BY <4>2, <4>3
    <3>4. ASSUME NEW r \in (scene.items \cap Region) \cup {Null}, scene' = Select(scene, r)
          PROVE  /\ SceneSound(scene') /\ (xml_file = NoFile => scene'.layout = {})
                 /\ "image" \in scene'.held <=> "image" \in scene.held
      BY <1>0, <3>0, <3>4, SelectSound
    <3> QED BY <1>10, <3>1, <3>2, <3>3, <3>4 DEF Toggle
  <2> QED BY <2>1, <2>2 DEF SceneInv
<1>11. CASE Preferences
  BY <1>2, <1>11 DEF Preferences
<1>12. CASE RunProcess
  BY <1>1, <1>12 DEF RunProcess, Ask, SceneInv
<1>13. CASE ExportAs
  BY <1>1, <1>13 DEF ExportAs, Ask, SceneInv
<1>14. CASE CloseDialog
  BY <1>2, <1>14 DEF CloseDialog
<1>15. CASE Quit
  BY <1>2, <1>15 DEF Quit
<1>16. CASE UNCHANGED vars
  BY <1>2, <1>16
<1> QED BY <1>3, <1>4, <1>5, <1>6, <1>7, <1>8, <1>9, <1>10, <1>11, <1>12, <1>13, <1>14,
           <1>15, <1>16
        DEF Next, EventLoop, View, Work, Open

LEMMA ShortSequences ==
    ASSUME NEW m, NEW n
    PROVE  /\ Append(<<>>, n) = <<n>> /\ Append(<<m>>, n) = <<m, n>>
           /\ Tail(<<m>>) = <<>> /\ Tail(<<m, n>>) = <<n>>
<1> DEFINE S == {m, n}
<1>1. <<>> \in Seq(S) /\ <<m>> \in Seq(S) /\ <<n>> \in Seq(S) /\ <<m, n>> \in Seq(S)
  OBVIOUS
<1>2. Append(<<>>, n) = <<n>>
  OBVIOUS
<1>3. Append(<<m>>, n) = <<m, n>>
  <2>1. n \in S /\ Len(<<m>>) = 1 /\ Len(<<m, n>>) = 2
    OBVIOUS
  <2> HIDE DEF S
  <2>2. /\ Append(<<m>>, n) \in Seq(S) /\ Len(Append(<<m>>, n)) = 2
        /\ Append(<<m>>, n)[1] = m /\ Append(<<m>>, n)[2] = n
    BY <1>1, <2>1, AppendProperties
  <2>3. \A i \in 1..2 : Append(<<m>>, n)[i] = <<m, n>>[i]
    BY <2>2
  <2> QED BY <1>1, <2>1, <2>2, <2>3, SeqEqual
<1>4. Tail(<<m>>) = <<>>
  OBVIOUS
<1>5. Tail(<<m, n>>) = <<n>>
  OBVIOUS
<1> QED BY <1>2, <1>3, <1>4, <1>5

LEMMA EscapedStays ==
    ASSUME TypeInv, [Next]_vars
    PROVE  escaped \in BOOLEAN /\ escaped' \in BOOLEAN /\ (escaped => escaped')
<1> USE DEF runner, window, session, vars
<1>1. escaped \in BOOLEAN /\ escaped' \in BOOLEAN
  BY WindowStep DEF TypeInv, WindowType
<1>2. escaped' = escaped \/ CloseDialog
  BY DEF Next, Worker, EventLoop, View, Work, Open, StartThread, OnXmlSaved, OnFinished,
         Receive, OpenImage, OpenContainer, ActivateStep, Toggle, WindowOnly, User,
         Preferences, RunProcess, ExportAs, Ask, Quit
<1>3. CASE CloseDialog
  <2>1. escaped' = (escaped \/ pc # "stopped" \/ signals # <<>>)
    BY <1>3 DEF CloseDialog
  <2> QED BY <1>1, <2>1, Zenon
<1> QED BY <1>1, <1>2, <1>3

LEMMA ServeStep ==
    ASSUME TypeInv, ServeInv, [Next]_vars
    PROVE  ServeInv'
<1> USE DEF runner, window, session, vars
<1>0. escaped \in BOOLEAN /\ escaped' \in BOOLEAN /\ (escaped => escaped')
  BY EscapedStays
<1> SUFFICES ASSUME ~ escaped, ~ escaped', Serving PROVE Serving'
  BY <1>0 DEF ServeInv
<1>1. ASSUME Enter, UNCHANGED <<window, dialog, session>> PROVE Serving'
  BY <1>1 DEF Enter, Serving, Idle
<1>2. ASSUME Load, UNCHANGED <<window, dialog, session>> PROVE Serving'
  <2>1. args = <<current_image>> /\ pc = "load"
    BY <1>2 DEF Load, Serving
  <2>2. Len(args) = 1 /\ args[1] = current_image /\ args # <<>>
    BY <2>1
  <2>3. ~ crashed'
    <3>1. ~ (Len(args) < 1)
      BY <2>2
    <3> QED BY <1>2, <3>1, Zenon DEF Load, NeedsArgs
  <2> QED BY <1>2, <2>1, <2>2, <2>3 DEF Load, Serving, Idle
<1>3. ASSUME Process, UNCHANGED <<window, dialog, session>> PROVE Serving'
  <2>1. args = <<current_image>> /\ pc = "process"
    BY <1>3 DEF Process, Serving
  <2>2. Len(args) = 1 /\ args[1] = current_image /\ args # <<>>
    BY <2>1
  <2>3. ~ crashed'
    <3>1. ~ (Len(args) < 1)
      BY <2>2
    <3> QED BY <1>3, <3>1, Zenon DEF Process, NeedsArgs
  <2>4. output'.base = current_image
    BY <1>3, <2>2 DEF Process
  <2> QED BY <1>3, <2>1, <2>3, <2>4 DEF Process, Serving, Idle
<1>4. ASSUME Save, UNCHANGED <<window, dialog, session>> PROVE Serving'
  <2>1. /\ pc = "save" /\ pc' = "finish" /\ signals = <<>> /\ source = current_image
        /\ output.base = current_image /\ ~ crashed /\ dialog /\ request = <<>> /\ ~ quit
    BY <1>4 DEF Save, Serving, Idle
  <2>2. output \in File /\ disk \in [File -> Image \cup {Absent, Broken}]
    BY <2>1 DEF TypeInv, RunnerType
  <2>3. signals' = <<XmlSaved(output)>>
    BY <1>4, <2>1 DEF Save, XmlSaved
  <2>4. \A f \in File : disk'[f] \in {Absent, Broken, f.base}
    BY <1>4, <2>1, <2>2 DEF Save, Serving
  <2>5. ~ Idle' /\ UNCHANGED <<request, dialog, quit, crashed, current_image>>
    BY <1>4, <2>1 DEF Save, Idle
  <2> QED BY <2>1, <2>2, <2>3, <2>4, <2>5 DEF Serving, Idle
<1>5. ASSUME Export, UNCHANGED <<window, dialog, session>> PROVE Serving'
  <2>1. Len(args) = 3 /\ pc = "export"
    BY <1>5 DEF Export, Serving
  <2>2. ~ crashed'
    <3>1. ~ (Len(args) < 3)
      BY <2>1
    <3> QED BY <1>5, <3>1, Zenon DEF Export, NeedsArgs
  <2> QED BY <1>5, <2>1, <2>2 DEF Export, Serving, Idle
<1>6. ASSUME Finish, UNCHANGED <<window, dialog, session>> PROVE Serving'
  <2>1. /\ pc = "finish" /\ pc' = "leave" /\ ~ crashed /\ dialog /\ request = <<>> /\ ~ quit
        /\ \/ signals = <<>>
           \/ \E f \in File : f.base = current_image /\ signals = <<XmlSaved(f)>>
    BY <1>6 DEF Finish, Serving, Idle
  <2>2. signals' = Append(signals, Finished)
    BY <1>6 DEF Finish, Finished
  <2>3. \/ signals' = <<Finished>>
        \/ \E f \in File : f.base = current_image /\ signals' = <<XmlSaved(f), Finished>>
    <3>1. CASE signals = <<>>
      BY <2>2, <3>1, ShortSequences
    <3>2. ASSUME NEW f \in File, f.base = current_image, signals = <<XmlSaved(f)>>
          PROVE  signals' = <<XmlSaved(f), Finished>>
      BY <2>2, <3>2, ShortSequences
    <3> QED BY <2>1, <3>1, <3>2
  <2>4. UNCHANGED <<request, dialog, quit, crashed, current_image, disk>>
    BY <1>6 DEF Finish
  <2> QED BY <2>1, <2>3, <2>4 DEF Serving, Idle
<1>7. ASSUME Leave, UNCHANGED <<window, dialog, session>> PROVE Serving'
  BY <1>7 DEF Leave, Serving, Idle
<1>8. CASE StartThread
  <2>1. /\ request # <<>> /\ IsRequest(request) /\ args = <<>>
        /\ Idle /\ signals = <<>> /\ dialog /\ ~ quit
        /\ Len(request) = 1 => request[1] = current_image
    BY <1>8 DEF StartThread, Serving, TypeInv, RunnerType
  <2>2. args' = request /\ mode' = IF Len(request) = 1 THEN "Demat" ELSE "Export"
    BY <1>8, <2>1, RequestFacts DEF StartThread, StartWith
  <2>3. /\ Len(request) = 1 => mode' = "Demat" /\ args' = <<current_image>>
        /\ Len(request) # 1 => mode' = "Export" /\ Len(args') = 3
    BY <2>1, <2>2, RequestFacts
  <2>4. /\ pc' \in {"enter", "leave"} /\ request' = <<>> /\ Len(request') = 0
        /\ UNCHANGED <<signals, disk, crashed, dialog, quit, current_image>>
    BY <1>8, <2>1 DEF StartThread, StartWith, Idle
  <2> QED BY <2>1, <2>3, <2>4 DEF Serving, Idle
<1>9. CASE OnXmlSaved
  <2>1. Receive("xml_saved")
    BY <1>9 DEF OnXmlSaved
  <2>2. signals # <<>> /\ Head(signals).type = "xml_saved"
    BY <2>1 DEF Receive
  <2>3. PICK f \in File : /\ f.base = current_image
                          /\ \/ pc = "finish" /\ signals = <<XmlSaved(f)>>
                             \/ Idle /\ signals = <<XmlSaved(f), Finished>>
    <3>1. pc = "finish" \/ Idle
      BY <2>2 DEF Serving, Idle, TypeInv, RunnerType
    <3>2. signals # <<Finished>>
      BY <2>2 DEF Finished
    <3> QED BY <2>2, <3>1, <3>2 DEF Serving, Idle
  <2>4. Head(signals) = XmlSaved(f) /\ Head(signals).file = f
    BY <2>3, XmlSavedFacts
  <2>5. \/ pc = "finish" /\ signals' = <<>>
        \/ Idle /\ signals' = <<Finished>>
    BY <2>1, <2>3, ShortSequences DEF Receive
  <2>6. StartsWith(Head(signals).file.base, file_with_no_ext)
    BY <2>3, <2>4 DEF StartsWith, TypeInv, WindowType
  <2>7. UNCHANGED <<current_image, crashed, dialog>>
    BY <1>9, <2>6 DEF OnXmlSaved
  <2>8. UNCHANGED <<runner, disk, request, quit>>
    BY <2>1 DEF Receive
  <2> QED BY <2>2, <2>5, <2>7, <2>8 DEF Serving, Idle
<1>10. CASE OnFinished
  <2>1. Receive("finished") /\ dialog' = FALSE /\ UNCHANGED <<window, crashed>>
    BY <1>10 DEF OnFinished
  <2>2. signals # <<>> /\ Head(signals).type = "finished" /\ request = <<>>
    BY <2>1 DEF Receive
  <2>3. Idle /\ signals = <<Finished>>
    <3>1. \A f \in File : signals # <<XmlSaved(f)>> /\ signals # <<XmlSaved(f), Finished>>
      BY <2>2 DEF XmlSaved
    <3>2. Idle
      BY <2>2, <3>1 DEF Serving, Idle, TypeInv, RunnerType
    <3> QED BY <2>2, <3>1, <3>2 DEF Serving
  <2>4. signals' = <<>>
    BY <2>1, <2>3 DEF Receive
  <2>5. UNCHANGED <<runner, disk, request, quit>>
    BY <2>1 DEF Receive
  <2> QED BY <2>1, <2>2, <2>3, <2>4, <2>5 DEF Serving, Idle
<1>11. ASSUME ~ dialog, UNCHANGED <<pc, signals, disk, crashed, request, dialog, quit>>
       PROVE  Serving'
  <2>1. Idle /\ signals = <<>> /\ request = <<>> /\ Len(request) = 0
    BY <1>11 DEF Serving
  <2> QED BY <1>11, <2>1 DEF Serving, Idle
<1>12. CASE Open \/ ActivateStep \/ Toggle
  BY <1>11, <1>12 DEF Open, OpenImage, OpenContainer, ActivateStep, Toggle, WindowOnly, User
<1>13. CASE Preferences
  BY <1>11, <1>13 DEF Preferences, User
<1>14. ASSUME NEW r, Ask(r), Len(r) = 1 => r[1] = current_image PROVE Serving'
  <2>1. Idle /\ signals = <<>> /\ ~ quit
    BY <1>14 DEF Ask, User, Serving
  <2>2. /\ dialog' = TRUE /\ request' = r
        /\ UNCHANGED <<pc, signals, disk, crashed, quit, current_image>>
    BY <1>14 DEF Ask
  <2> QED BY <1>14, <2>1, <2>2 DEF Serving, Idle
<1>15. CASE RunProcess
  BY <1>14, <1>15 DEF RunProcess
<1>16. CASE ExportAs
  <2>1. PICK r : Ask(r) /\ Len(r) = 3
    BY <1>16 DEF ExportAs
  <2> QED BY <1>14, <2>1
<1>17. CASE CloseDialog
  <2>1. pc = "stopped" /\ signals = <<>> /\ request = <<>> /\ ~ quit
    <3>1. escaped' = (escaped \/ pc # "stopped" \/ signals # <<>>)
      BY <1>17 DEF CloseDialog
    <3>2. pc = "stopped" /\ signals = <<>>
      BY <3>1, Zenon
    <3> QED BY <1>17, <3>2 DEF CloseDialog
  <2>2. UNCHANGED <<pc, signals, disk, crashed, request, quit, current_image>> /\ ~ dialog'
    BY <1>17 DEF CloseDialog
  <2>3. Len(request) = 0
    BY <2>1
  <2> QED BY <2>1, <2>2, <2>3 DEF Serving, Idle
<1>18. CASE Quit
  <2>1. Idle /\ signals = <<>> /\ request = <<>> /\ Len(request) = 0 /\ ~ dialog
    BY <1>18 DEF Quit, User, Serving
  <2>2. \A f \in File : disk'[f] \in {Absent, Broken, f.base}
    BY <1>18 DEF Quit, Serving
  <2>3. UNCHANGED <<pc, signals, crashed, request, dialog, current_image>>
    BY <1>18 DEF Quit
  <2> QED BY <2>1, <2>2, <2>3 DEF Serving, Idle
<1>19. CASE UNCHANGED vars
  BY <1>19 DEF Serving, Idle
<1> QED BY <1>1, <1>2, <1>3, <1>4, <1>5, <1>6, <1>7, <1>8, <1>9, <1>10, <1>12, <1>13, <1>15,
           <1>16, <1>17, <1>18, <1>19
        DEF Next, Worker, Run, EventLoop, View, Work

LEMMA TemporaryStep ==
    ASSUME TypeInv, ServeInv, TemporaryInv, [Next]_vars
    PROVE  TemporaryInv'
<1> USE DEF runner, window, session, vars
<1> DEFINE Goal == \A f \in temporary' : Kept(f)'
<1> SUFFICES ASSUME ~ escaped, ~ escaped', Serving, \A f \in temporary : Kept(f)
             PROVE  Goal
  BY EscapedStays DEF ServeInv, TemporaryInv
<1>1. ASSUME UNCHANGED <<temporary, quit, disk, saving, tmp_files_to_remove, signals>>,
             pc # "save", pc' # "save"
      PROVE  Goal
  BY <1>1 DEF Kept, Recorded
<1>2. ASSUME UNCHANGED <<temporary, quit, disk, saving, tmp_files_to_remove, signals, pc, output>>
      PROVE  Goal
  BY <1>2 DEF Kept, Recorded
<1>3. ASSUME Enter \/ Load \/ Export \/ Leave, UNCHANGED <<window, dialog, session>>
      PROVE  Goal
  BY <1>1, <1>3 DEF Enter, Load, Export, Leave
<1>4. ASSUME Process, UNCHANGED <<window, dialog, session>> PROVE Goal
  <2>1. pc = "process" /\ pc' = "save" /\ signals = <<>> /\ ~ quit /\ ~ quit'
    BY <1>4 DEF Process, Serving, Idle
  <2>2. \A f \in temporary : f \in tmp_files_to_remove
    BY <2>1 DEF Kept, Recorded
  <2>3. \A f \in temporary' : f \in temporary \/ (f = output' /\ saving = "no")
    BY <1>4 DEF Process
  <2>4. UNCHANGED <<tmp_files_to_remove, saving>>
    BY <1>4 DEF Process
  <2> QED BY <2>1, <2>2, <2>3, <2>4 DEF Kept, Recorded
<1>5. ASSUME Save, UNCHANGED <<window, dialog, session>> PROVE Goal
  <2>1. pc = "save" /\ signals = <<>> /\ ~ quit /\ ~ quit'
    BY <1>5 DEF Save, Serving, Idle
  <2>2. signals' = <<XmlSaved(output)>>
    BY <1>5, <2>1, ShortSequences DEF Save, XmlSaved
  <2>3. signals' # <<>> /\ Head(signals') = XmlSaved(output)
    BY <2>2
  <2>4. UNCHANGED <<tmp_files_to_remove, saving, temporary>>
    BY <1>5 DEF Save
  <2> QED BY <2>1, <2>3, <2>4 DEF Kept, Recorded
<1>6. ASSUME Finish, UNCHANGED <<window, dialog, session>> PROVE Goal
  <2>1. pc = "finish" /\ ~ quit /\ ~ quit' /\ signals \in Seq(Signal)
    BY <1>6 DEF Finish, Serving, Idle, TypeInv, RunnerType
  <2>2. signals' = Append(signals, Finished)
    BY <1>6 DEF Finish, Finished
  <2>3. signals # <<>> => signals' # <<>> /\ Head(signals') = Head(signals)
    <3> HIDE DEF Signal
    <3> QED BY <2>1, <2>2, XmlSavedFacts, AppendProperties, HeadTailAppend
  <2>4. UNCHANGED <<tmp_files_to_remove, saving, temporary>>
    BY <1>6 DEF Finish
  <2> QED BY <2>1, <2>3, <2>4 DEF Kept, Recorded
<1>7. CASE StartThread
  <2>1. pc # "save" /\ pc' # "save"
    BY <1>7 DEF StartThread, StartWith, Serving, Idle
  <2> QED BY <1>1, <1>7, <2>1 DEF StartThread
<1>8. CASE OnXmlSaved
  <2>1. Receive("xml_saved") /\ ~ quit /\ ~ quit'
    BY <1>8 DEF OnXmlSaved, Receive
  <2> DEFINE f0 == Head(signals).file
  <2>2. Head(signals) = XmlSaved(f0) /\ pc # "save"
    BY <2>1, SignalFacts, XmlSavedFacts DEF Receive, Serving, TypeInv, RunnerType
  <2>3. ASSUME NEW f \in temporary PROVE Kept(f)'
    <3>1. Recorded(f)
      BY <2>1 DEF Kept
    <3>2. tmp_files_to_remove' = Record(f0)
      BY <1>8 DEF OnXmlSaved
    <3>3. CASE f \in tmp_files_to_remove
      BY <2>1, <3>2, <3>3 DEF Record, Recorded, Kept
    <3>4. CASE f \notin tmp_files_to_remove
      <4>1. saving = "no" /\ XmlSaved(f) = XmlSaved(f0)
        BY <2>2, <3>1, <3>4 DEF Recorded
      <4>2. f = f0
        BY <4>1 DEF XmlSaved
      <4> QED BY <2>1, <3>2, <4>1, <4>2 DEF Record, Recorded, Kept
    <3> QED BY <3>3, <3>4
  <2>4. temporary' = temporary
    BY <2>1 DEF Receive
  <2> QED BY <2>3, <2>4
<1>9. CASE OnFinished
  <2>1. /\ Receive("finished") /\ ~ quit /\ ~ quit'
        /\ UNCHANGED <<temporary, tmp_files_to_remove>>
    BY <1>9 DEF OnFinished, Receive
  <2>2. pc # "save" /\ Head(signals).type = "finished"
    BY <2>1 DEF Receive, Serving
  <2>3. ASSUME NEW f \in temporary PROVE f \in tmp_files_to_remove
    BY <2>1, <2>2 DEF Kept, Recorded, XmlSaved
  <2> QED BY <2>1, <2>3 DEF Kept, Recorded
<1>10. CASE Open \/ ActivateStep \/ Toggle
  BY <1>2, <1>10 DEF Open, OpenImage, OpenContainer, ActivateStep, Toggle, WindowOnly, User
<1>11. ASSUME ~ dialog, ~ quit PROVE \A f \in temporary : f \in tmp_files_to_remove
  BY <1>11 DEF Serving, Idle, Kept, Recorded
<1>12. CASE Preferences
  BY <1>11, <1>12 DEF Preferences, User, Kept, Recorded
<1>13. CASE RunProcess \/ ExportAs
  BY <1>2, <1>13 DEF RunProcess, ExportAs, Ask, User
<1>14. CASE CloseDialog
  BY <1>2, <1>14 DEF CloseDialog
<1>15. CASE Quit
  <2>1. \A f \in temporary : f \in tmp_files_to_remove /\ f \in File
    BY <1>11, <1>15 DEF Quit, User, TypeInv, RunnerType
  <2> QED BY <1>15, <2>1 DEF Quit, Kept
<1>16. CASE UNCHANGED vars
  BY <1>2, <1>16
<1> QED BY <1>3, <1>4, <1>5, <1>6, <1>7, <1>8, <1>9, <1>10, <1>12, <1>13, <1>14, <1>15, <1>16
        DEF Next, Worker, Run, EventLoop, View, Work

-----------------------------------------------------------------------------
(* Theorems.                                                                *)

Inv == TypeInv /\ SceneInv /\ ServeInv /\ TemporaryInv

LEMMA InvInit == Init => Inv
<1> SUFFICES ASSUME Init PROVE Inv
  OBVIOUS
<1> USE DEF Init, RunnerInit
<1>1. RunnerType
  BY DEF RunnerType, IsRequest
<1>2. WindowType
  <2>1. map = [k \in DOMAIN map |-> map[k]] /\ DOMAIN map = {}
    OBVIOUS
  <2>2. {crashed, dialog, exportable, quit, escaped} \subseteq BOOLEAN
    OBVIOUS
  <2> QED BY <2>1, <2>2 DEF WindowType
<1>3. SceneInv
  BY EmptySceneSound DEF SceneInv, EmptyScene
<1>4. ServeInv
  BY DEF ServeInv, Serving, Idle
<1>5. TemporaryInv
  BY DEF TemporaryInv
<1> QED BY <1>1, <1>2, <1>3, <1>4, <1>5 DEF Inv, TypeInv

LEMMA InvStep ==
    ASSUME Inv, [Next]_vars
    PROVE  Inv'
BY RunnerStep, WindowStep, SceneStep, ServeStep, TemporaryStep DEF Inv, TypeInv

\* The sessions that TLC explores are sessions of the viewer.
THEOREM SessionsAreViewers == MCSpec => Spec
<1>1. MCInit => Init
  BY DEF MCInit
<1>2. [MCNext]_mcvars => [Next]_vars
  BY DEF MCNext, Viewing, Working, Computing, Next, mcvars
<1> QED BY <1>1, <1>2, PTL DEF MCSpec, Spec

\* The variables keep their types; the runner is given one parameter, three,
\* or none.
THEOREM ViewerTypes == Spec => []TypeOK
<1>1. Inv => TypeOK
  <2> SUFFICES ASSUME Inv PROVE TypeOK
    OBVIOUS
  <2>1. Len(args) \in {0, 1, 3}
    BY RequestFacts DEF Inv, TypeInv, RunnerType
  <2>2. Range(map) \subseteq File
    BY DEF Inv, TypeInv, WindowType, Range
  <2>3. scene.items \cup scene.held \cup scene.dangling
          \subseteq {"image", "text", "picture", "region", "line"}
    BY DEF Inv, SceneInv, SceneSound, SceneSafe, SceneType, Kind
  <2> QED BY <2>1, <2>2, <2>3 DEF TypeOK, Inv, TypeInv, RunnerType, WindowType
<1> QED BY <1>1, InvInit, InvStep, PTL DEF Spec

\* Unless the user closes the dialog during a run, each run serves its request.
THEOREM RunsServe == Spec => []RunServesRequest
<1>1. Inv => RunServesRequest
  BY DEF Inv, ServeInv, Serving, RunServesRequest
<1> QED BY <1>1, InvInit, InvStep, PTL DEF Spec

\* Nor does a layout that was not to be saved survive the session.
THEOREM TemporaryFilesGo == Spec => []TemporaryFilesRemoved
<1>1. Inv => TemporaryFilesRemoved
  BY DEF Inv, TemporaryInv, Kept, TemporaryFilesRemoved
<1> QED BY <1>1, InvInit, InvStep, PTL DEF Spec

\* The scene shows what was read as the options say.
THEOREM SceneShowsOptions == Spec => []SceneFollowsOptions
<1>1. Inv => SceneFollowsOptions
  BY DEF Inv, SceneInv, SceneSound, SceneFollowsOptions
<1> QED BY <1>1, InvInit, InvStep, PTL DEF Spec

\* No pointer of the window outlives the item it points to.
THEOREM NoPointerDangles == Spec => []NoDanglingItem
<1>1. Inv => NoDanglingItem
  BY DEF Inv, SceneInv, SceneSound, SceneSafe, SceneType, NoDanglingItem
<1> QED BY <1>1, InvInit, InvStep, PTL DEF Spec

\* Only a file without a page leaves the wait cursor on.
THEOREM CursorComesBack == Spec => []CursorRestored
<1>1. Inv => CursorRestored
  BY DEF Inv, SceneInv, SceneSound, SceneSafe, CursorRestored
<1> QED BY <1>1, InvInit, InvStep, PTL DEF Spec
=============================================================================
