---------------------------- MODULE ViewerRunner ----------------------------
(***************************************************************************)
(* The thread that computes for the document viewer                        *)
(* (scribo/demo/viewer/runner.cc).  Its parameters, args and mode, are      *)
(* fields that the window's thread rewrites at each request; the slots of   *)
(* the window are called through a queue of signals.                       *)
(*                                                                         *)
(* A file is a directory, that of the image or the temporary one, and the   *)
(* base name of an image: <base>_gui.xml.  Its content is the image that    *)
(* was segmented to make it, Absent, or Broken (no page in it).            *)
(* The progress of the bar is left out, as are the images themselves.       *)
(***************************************************************************)
EXTENDS Naturals, Sequences

CONSTANTS Image, Absent, Broken, NoFile

File == [dir : {"own", "temp"}, base : Image]

VARIABLES
    pc,        \* where run() is; "stopped" when the thread does not run
    args,      \* args_
    mode,      \* mode_
    source,    \* the image loaded by run()
    output,    \* output_file of the process functor
    signals,   \* the signals posted to the window, oldest first
    disk,      \* the XML files
    saving,    \* the saving option: "no", or the directory to save in
    temporary, \* the files written while saving was off (history)
    crashed    \* a thread used a list or a pointer out of its range

runner == <<pc, args, mode, source, output>>

RunnerInit ==
    /\ pc = "stopped" /\ args = <<>> /\ mode = "Demat"
    /\ source = NoFile /\ output = NoFile   \* not read before they are set
    /\ signals = <<>> /\ temporary = {} /\ crashed = FALSE

-----------------------------------------------------------------------------
\* Called by the window.

\* Mutant: the parameters of the last request stay.
ClearArgsNot == args' = args

\* start_demat(), start_export(): args_.clear() ...
ClearArgs == args' = <<>>

\* ... then the parameters are appended, the mode is set and QThread::start()
\* is called, which does nothing
\* while the thread runs.
StartWith(parameters) ==
    /\ args' = args \o parameters
    /\ mode' = IF Len(parameters) = 1 THEN "Demat" ELSE "Export"
    /\ pc' = IF pc = "stopped" THEN "enter" ELSE pc
    /\ UNCHANGED <<source, output>>

-----------------------------------------------------------------------------
\* The steps of run().

\* args_.at() asserts that the list is long enough.
NeedsArgs(n) == crashed' = (Len(args) < n)

Enter ==
    /\ pc = "enter"
    /\ pc' = IF mode = "Demat" THEN "load" ELSE "export"
    /\ UNCHANGED <<args, mode, source, output, signals, disk, saving, temporary, crashed>>

\* The image is read and preprocessed.
Load ==
    /\ pc = "load"
    /\ NeedsArgs(1)
    /\ source' = IF args = <<>> THEN source ELSE args[1]
    /\ pc' = "process"
    /\ UNCHANGED <<args, mode, output, signals, disk, saving, temporary>>

\* The option is read once, when the segmentation begins.
OutputDir == IF saving = "no" THEN "temp" ELSE saving

\* process(): args_ is read again for the name of the output.
Process ==
    /\ pc = "process"
    /\ NeedsArgs(1)
    /\ output' = [dir |-> OutputDir, base |-> IF args = <<>> THEN source ELSE args[1]]
    /\ temporary' = IF saving = "no" THEN temporary \cup {output'} ELSE temporary \ {output'}
    /\ pc' = "save"
    /\ UNCHANGED <<args, mode, source, signals, disk, saving>>

\* The document is saved, then the signal is posted.
Save ==
    /\ pc = "save"
    /\ disk' = [disk EXCEPT ![output] = source]
    /\ signals' = Append(signals, [type |-> "xml_saved", file |-> output])
    /\ pc' = "finish"
    /\ UNCHANGED <<args, mode, source, output, saving, temporary, crashed>>

\* export_as(): the three parameters are given to scribo-xml2doc.
Export ==
    /\ pc = "export"
    /\ NeedsArgs(3)
    /\ pc' = "finish"
    /\ UNCHANGED <<args, mode, source, output, signals, disk, saving, temporary>>

\* Mutant: finished() is only emitted after a segmentation.
FinishDemat ==
    /\ pc = "finish"
    /\ signals' = IF mode = "Demat" THEN Append(signals, [type |-> "finished"]) ELSE signals
    /\ pc' = "leave"
    /\ UNCHANGED <<args, mode, source, output, disk, saving, temporary, crashed>>

\* run() emits the finished() of the class itself ...
Finish ==
    /\ pc = "finish"
    /\ signals' = Append(signals, [type |-> "finished"])
    /\ pc' = "leave"
    /\ UNCHANGED <<args, mode, source, output, disk, saving, temporary, crashed>>

\* ... before the thread is over.
Leave ==
    /\ pc = "leave"
    /\ pc' = "stopped"
    /\ UNCHANGED <<args, mode, source, output, signals, disk, saving, temporary, crashed>>

Run == ~crashed /\ (Enter \/ Load \/ Process \/ Save \/ Export \/ Finish \/ Leave)
=============================================================================
