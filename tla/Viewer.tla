------------------------------- MODULE Viewer -------------------------------
(***************************************************************************)
(* The document viewer of Scribo (scribo/demo/viewer): the slots of the     *)
(* main window (viewer.cc) and of its list of steps (step_widget.cc), with  *)
(* the runner thread.  A slot runs to its end before the next one begins;   *)
(* the worker runs at any moment.  The progress dialog is modal: the user   *)
(* reaches the window only when it is hidden, but may close it during a     *)
(* run, which escaped records.                                             *)
(*                                                                         *)
(* The steps listed for an image are the XML files whose name begins with   *)
(* the base name of the image; Longer tells which base names begin with     *)
(* another one (page10 and page1).  A step is what is left of the file's    *)
(* name without the base name: Gui, or the base name of the other image.    *)
(***************************************************************************)
EXTENDS ViewerRunner, ViewerScene, FiniteSets, Functions

CONSTANTS
    Container,  \* a file .xmlc, with its pictures in it
    Longer,     \* pairs <<long, short>> of base names
    Gui,
    MaxClicks   \* bound on the actions of the user

ASSUME LongerAssumption == Longer \subseteq Image \X Image

\* What stands for no file, or for the step of the image itself, is no name.
ASSUME NamesAssumption == NoFile \notin File \cup {Container} /\ Gui \notin Image

VARIABLES
    scene,
    current_image, file_with_no_ext, xml_file,   \* fields of the same names
    map,         \* map_: the file of each step listed in view_
    step,        \* step_
    exportable,  \* export_action_, and the printing actions, are enabled
    dialog,      \* pdialog_ is shown
    tmp_files_to_remove,
    request,     \* parameters that start_...() is about to give to the runner
    quit, escaped, clicks

window == <<scene, current_image, file_with_no_ext, xml_file, map, step, exportable>>
session == <<tmp_files_to_remove, request, quit, escaped, clicks>>
vars == <<runner, signals, disk, saving, temporary, crashed, window, dialog, session>>

\* Images may come with a layout of their own, readable or not.
Init ==
    /\ RunnerInit
    /\ disk \in [File -> Image \cup {Absent, Broken}]
    /\ \A f \in File : disk[f] \in {Absent, Broken, f.base} /\ (f.dir = "temp" => disk[f] = Absent)
    /\ saving \in {"no", "own", "temp"}
    /\ scene = EmptyScene
    /\ current_image = NoFile /\ file_with_no_ext = NoFile /\ xml_file = NoFile
    /\ map = <<>> /\ step = NoFile /\ exportable = FALSE
    /\ dialog = FALSE /\ tmp_files_to_remove = {} /\ request = <<>>
    /\ quit = FALSE /\ escaped = FALSE /\ clicks = 0

-----------------------------------------------------------------------------
\* StepWidget

\* fileName().startsWith(file_with_no_ext_), true of an empty name.
StartsWith(base, prefix) == prefix \in {base, NoFile} \/ <<base, prefix>> \in Longer

Key(f, prefix) == IF f.base = prefix THEN Gui ELSE f.base

\* insert_new_entry() of a file of that name: find() gives the last one inserted.
Insert(steps, f, prefix) ==
    [k \in DOMAIN steps \cup {Key(f, prefix)} |-> IF k = Key(f, prefix) THEN f ELSE steps[k]]

\* The files of an image, from its directory, then from the temporary one.
StepsOf(image) ==
    LET listed == {f \in File : disk[f] # Absent /\ StartsWith(f.base, image)} IN
    [k \in {Key(f, image) : f \in listed} |->
       LET same == {f \in listed : Key(f, image) = k} IN
       CHOOSE f \in same : f.dir = "temp" \/ Cardinality(same) = 1]

\* What a file describes; a container holds its pictures.
Layout(f, files) ==
    IF f = Container THEN {"region", "line", "text", "picture"}
    ELSE IF files[f] \in Image THEN {"region", "line", "text"} ELSE {}

\* activate() of a listed step: its file is loaded.
Activate(k, steps, sc) ==
    /\ step' = k
    /\ xml_file' = steps[k]
    /\ scene' = LoadXml(sc, Layout(steps[k], disk))
    /\ exportable' = TRUE

-----------------------------------------------------------------------------
\* What the user does.

\* Mutant: the dialog is not modal.
UserAnyTime ==
    /\ request = <<>> /\ ~quit /\ ~crashed
    /\ clicks < MaxClicks /\ clicks' = clicks + 1
    /\ UNCHANGED <<tmp_files_to_remove, escaped>>

\* The window answers the user when the dialog is hidden.
User ==
    /\ ~dialog /\ request = <<>> /\ ~quit /\ ~crashed
    /\ clicks < MaxClicks /\ clicks' = clicks + 1
    /\ UNCHANGED <<tmp_files_to_remove, escaped>>

\* Slots of the window that leave the runner and the files alone.
WindowOnly ==
    /\ User
    /\ UNCHANGED <<runner, signals, disk, saving, temporary, crashed, dialog, request, quit>>

\* findItems(step_, MatchContains) among the steps: every step contains Gui.
Matching(k, keys) == IF k = Gui THEN keys ELSE keys \cap {k}

\* fill_steps() on an image: the previous step is kept when browsing, if the
\* new image has one like it.
OpenImage(image, browsing) ==
    /\ WindowOnly
    /\ LET loaded == LoadImage(ChangeBase(scene, FALSE))
           steps == StepsOf(image)
           keeps == browsing /\ step # NoFile
           first == IF keeps THEN Matching(step, DOMAIN steps) ELSE DOMAIN steps
       IN /\ current_image' = image /\ file_with_no_ext' = image
          /\ map' = steps
          /\ \/ \E k \in first : Activate(k, steps, loaded)
             \/ /\ first = {}
                /\ step' = IF keeps THEN step ELSE NoFile
                /\ xml_file' = NoFile
                /\ scene' = loaded
                /\ UNCHANGED exportable

\* fill_steps() on a container: no step is listed, and the fields of the image
\* opened before are left as they are.
OpenContainer ==
    /\ WindowOnly
    /\ map' = <<>>
    /\ xml_file' = Container
    /\ scene' = LoadXml(ChangeBase(scene, TRUE), Layout(Container, disk))
    /\ UNCHANGED <<current_image, file_with_no_ext, step, exportable>>

ActivateStep ==
    /\ WindowOnly
    /\ \E k \in DOMAIN map : Activate(k, map, scene)
    /\ UNCHANGED <<current_image, file_with_no_ext, map>>

\* The entries of the View menu, and a click on the scene.
Toggle ==
    /\ WindowOnly
    /\ \/ scene' = UseText(scene, ~scene.text)
       \/ scene' = UseImage(scene, ~scene.use_image)
       \/ scene' = UseExtended(scene, ~scene.extended, xml_file # NoFile,
                               IF xml_file = NoFile THEN {} ELSE Layout(xml_file, disk))
       \/ \E r \in (scene.items \cap Region) \cup {Null} : scene' = Select(scene, r)
    /\ UNCHANGED <<current_image, file_with_no_ext, xml_file, map, step, exportable>>

\* The general options of the preferences.
Preferences ==
    /\ User
    /\ saving' \in {"no", "own", "temp"} \ {saving}
    /\ UNCHANGED <<runner, signals, disk, temporary, crashed, window, dialog, request, quit>>

\* run_process() and export_as(): the dialog is shown, and the parameters of
\* the runner are cleared.
Ask(parameters) ==
    /\ User
    /\ dialog' = TRUE
    /\ ClearArgs
    /\ request' = parameters
    /\ UNCHANGED <<pc, mode, source, output, signals, disk, saving, temporary, crashed, window, quit>>

RunProcess == current_image # NoFile /\ Ask(<<current_image>>)

\* browser_wgt_->current() is any file selected, opened or not.
ExportAs ==
    /\ exportable
    /\ \E image \in Image :
         Ask(<<image, IF step \in DOMAIN map THEN map[step] ELSE NoFile, "output">>)

\* The second half of start_demat() and start_export().
StartThread ==
    /\ request # <<>> /\ ~crashed
    /\ StartWith(request)
    /\ request' = <<>>
    /\ UNCHANGED <<signals, disk, saving, temporary, crashed, window, dialog,
                   tmp_files_to_remove, quit, escaped, clicks>>

\* The dialog has no Cancel button, but it can be closed.
CloseDialog ==
    /\ dialog /\ request = <<>> /\ ~quit /\ ~crashed
    /\ dialog' = FALSE
    /\ escaped' = (escaped \/ pc # "stopped" \/ signals # <<>>)
    /\ UNCHANGED <<runner, signals, disk, saving, temporary, crashed, window,
                   tmp_files_to_remove, request, quit, clicks>>

\* ~Viewer(): the files recorded are removed.
Quit ==
    /\ User
    /\ quit' = TRUE
    /\ disk' = [f \in File |-> IF f \in tmp_files_to_remove THEN Absent ELSE disk[f]]
    /\ UNCHANGED <<runner, signals, saving, temporary, crashed, window, dialog, request>>

-----------------------------------------------------------------------------
\* The signals of the runner.

Receive(type) ==
    /\ signals # <<>> /\ Head(signals).type = type
    /\ request = <<>> /\ ~quit /\ ~crashed
    /\ signals' = Tail(signals)
    /\ UNCHANGED <<runner, disk, saving, temporary, request, quit, escaped, clicks>>

\* Mutant: the file is recorded when it is to be kept.
RecordKept(f) ==
    IF saving = "no" THEN tmp_files_to_remove ELSE tmp_files_to_remove \cup {f}

\* The option is read again to tell whether the file is temporary.
Record(f) ==
    IF saving = "no" THEN tmp_files_to_remove \cup {f} ELSE tmp_files_to_remove

\* on_xml_saved(): a file of another name has no item to be activated.
OnXmlSaved ==
    /\ Receive("xml_saved")
    /\ LET f == Head(signals).file IN
       /\ tmp_files_to_remove' = Record(f)
       /\ \/ /\ StartsWith(f.base, file_with_no_ext)
             /\ LET steps == Insert(map, f, file_with_no_ext) IN
                map' = steps /\ Activate(Key(f, file_with_no_ext), steps, scene)
             /\ UNCHANGED <<current_image, file_with_no_ext, crashed>>
          \/ /\ ~StartsWith(f.base, file_with_no_ext)
             /\ crashed' = TRUE
             /\ UNCHANGED window
    /\ UNCHANGED dialog

OnFinished ==
    /\ Receive("finished")
    /\ dialog' = FALSE
    /\ UNCHANGED <<window, tmp_files_to_remove, crashed>>

-----------------------------------------------------------------------------

Worker == Run /\ UNCHANGED <<window, dialog, session>>
EventLoop == StartThread \/ OnXmlSaved \/ OnFinished

Open == (\E image \in Image, browsing \in BOOLEAN : OpenImage(image, browsing)) \/ OpenContainer
View == Open \/ ActivateStep \/ Toggle
Work == Open \/ ActivateStep \/ Preferences \/ RunProcess \/ ExportAs \/ CloseDialog \/ Quit

Next == Worker \/ EventLoop \/ View \/ Work

\* The scheduler runs the thread, and the window its event loop.
Fairness == WF_vars(Worker) /\ WF_vars(EventLoop)

Spec == Init /\ [][Next]_vars /\ Fairness

-----------------------------------------------------------------------------

\* The types of the variables.
TypeOK ==
    /\ pc \in {"stopped", "enter", "load", "process", "save", "export", "finish", "leave"}
    /\ Len(args) \in {0, 1, 3} /\ mode \in {"Demat", "Export"}
    /\ disk \in [File -> Image \cup {Absent, Broken}]
    /\ output \in File \cup {NoFile} /\ temporary \cup tmp_files_to_remove \subseteq File
    /\ Range(map) \subseteq File /\ xml_file \in File \cup {NoFile, Container}
    /\ scene.items \cup scene.held \cup scene.dangling \subseteq {"image", "text", "picture", "region", "line"}

\* As long as the user waits for the dialog to close by itself, a run serves
\* the request it was started for: each layout saved was computed from the
\* image whose name it bears, and no thread finds its parameters or its step
\* missing (runner.cc: args_ is read by run() after start_...() wrote it;
\* step_widget.cc: activate() dereferences the item of the result).
RunServesRequest ==
    ~escaped => /\ ~crashed
                /\ \A f \in File : disk[f] \in {Absent, Broken, f.base}

\* As long as the user waits for the dialog, no layout saved while saving was
\* off survives the session (~Viewer; the option is read by the runner and by
\* the window, and each result is recorded before finished() lets the user quit).
TemporaryFilesRemoved ==
    quit /\ ~escaped => \A f \in temporary : disk[f] = Absent

\* The scene shows what was read as the options say: texts, lines and pictures
\* according to their flags, and the image of the page unless a container is
\* shown (load, load_xml and the use...() slots of viewer.cc keep scene_,
\* image_ and the two vectors in step).
SceneFollowsOptions ==
    /\ "text" \in scene.items <=> scene.text /\ "text" \in scene.layout
    /\ "line" \in scene.items <=> scene.extended /\ "line" \in scene.layout
    /\ "picture" \in scene.items <=> scene.use_image /\ scene.base64 /\ "picture" \in scene.layout
    /\ "image" \in scene.items => scene.use_image
    /\ "image" \in scene.held /\ scene.use_image /\ ~scene.base64 => "image" \in scene.items

\* No pointer outlives its item: image_, the two vectors and the selection all
\* point to items that exist, and printing, which dereferences image_, is
\* enabled only once there is one (ClearScene deletes whatever scene_ holds).
NoDanglingItem ==
    /\ scene.dangling = {}
    /\ scene.held \ scene.items \subseteq {"image", "text", "picture"}
    /\ scene.selected # Null => scene.selected \in scene.items
    /\ exportable => "image" \in scene.held

\* The wait cursor is left on only by a file without a page: load_xml() returns
\* before restoring it, and load() restores it twice.
CursorRestored == scene.cursor > 0 => scene.failed

\* A dialog shown during a run is closed when the run ends (finished() is
\* emitted whatever run() did), unless a thread crashed or the user quit.
DialogCloses ==
    dialog /\ pc \notin {"stopped", "leave"} ~> ~dialog \/ crashed \/ quit
=============================================================================
