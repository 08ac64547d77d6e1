------------------------------ MODULE Settings ------------------------------
(***************************************************************************)
(* The configuration file: generated at the first start, read with         *)
(* defaults for what it lacks (config::get_config), edited in the settings *)
(* dialog (fltk::config::property_t, control_t), written by the dialog and *)
(* at shutdown (app_supervisor_t).  One field of each kind the code treats *)
(* differently stands for its kind: an integer, a 16-bit port, two         *)
(* booleans of the relay section, an url, a text that may be absent, the   *)
(* path of the key files, the log sinks; level and shown belong to the     *)
(* window and are not in the dialog.                                       *)
(***************************************************************************)
EXTENDS Integers, FiniteSets

CONSTANTS Dirs,                 \* "home": the default directory; "custom": --config_dir
          MaxEdits              \* bound on what the user does

VARIABLES dir, file,            \* the directory; the file, NoFile at first
          app, orig,            \* the running app's configuration; the one last loaded or written
          props,                \* the dialog, NoDialog if it is closed
          ran,                  \* how the last start went
          edits,
          odd                   \* see open_dialog, Stale (history)

vars == <<dir, file, app, orig, props, ran, edits, odd>>

Dialog == {"threads", "port", "renabled", "rdebug", "url", "store", "cert", "logs"}
Window == {"level", "shown"}
Fields == Dialog \cup Window
Native == {"threads", "port", "renabled", "rdebug"}
PortRange == 65536

NoConfig == [f \in {} |-> 0]
NoFile == [f \in {} |-> FALSE]
NoDialog == [f \in {} |-> {}]
Running == app # NoConfig

----------------------------------------------------------------------------
\* Where the key files are: "tilde" in ~, "standard" that path with the home
\* directory, "own" in the directory of the configuration, "inside" below the file.

expand_home(path) == IF path # "tilde" THEN path ELSE IF dir = "home" THEN "own" ELSE "standard"

make_default_config(config_path, is_home) ==
    [threads |-> 3, port |-> 22001, renabled |-> TRUE, rdebug |-> FALSE, url |-> "default", store |-> "",
     cert |-> IF is_home THEN "tilde" ELSE IF config_path = "file" THEN "inside" ELSE "own",
     logs |-> {}, level |-> "info", shown |-> FALSE]
\* The path is that of the file.
generate_config == make_default_config("file", dir = "home")
\* The path is that of the directory; its parent is never the default directory.
get_config_default == make_default_config("directory", FALSE)

----------------------------------------------------------------------------
\* The file: an entry holds a value of its type, or there is none.

Entry(v) == [has |-> TRUE, v |-> v]
Absent(f) == [has |-> FALSE, v |-> get_config_default[f]]

get_level(l) == l
get_log_level(l) == IF l = "crit" THEN "critical" ELSE IF l = "critical" THEN "" ELSE l
serialize(c) == [f \in Fields |-> Entry(IF f = "level" THEN get_level(c.level) ELSE c[f])]

safe_get_value(t, f) == IF t[f].has THEN t[f].v ELSE get_config_default[f]
\* upnp.external_port: 32 bits in the file, 16 in the program.
safe_get_port(t) == safe_get_value(t, "port") % PortRange
safe_get_value_optional(t, f) == IF t[f].has THEN t[f].v ELSE ""
safe_get_path_expanded(t, f) == IF t[f].has THEN expand_home(t[f].v) ELSE get_config_default[f]
safe_get_url(t, f) == IF t[f].has /\ t[f].v # "bad" THEN t[f].v ELSE get_config_default[f]
safe_get_level(t, f) ==
    IF ~t[f].has THEN get_config_default[f]
    ELSE IF get_log_level(t[f].v) = "" THEN "debug" ELSE get_log_level(t[f].v)

\* The log sinks are written and described, and not read.
get_config(t) ==
    [f \in Fields |-> CASE f = "port" -> safe_get_port(t)
                        [] f = "store" -> safe_get_value_optional(t, f)
                        [] f = "cert" -> safe_get_path_expanded(t, f)
                        [] f = "url" -> safe_get_url(t, f)
                        [] f = "level" -> safe_get_level(t, f)
                        [] f = "logs" -> {}
                        [] OTHER -> safe_get_value(t, f)]

----------------------------------------------------------------------------
\* main(): the file is generated if there is none, and read; the keys are made
\* unless they exist, which takes a directory to put them in.

Storable(path) == path # "inside"
Load(t, ui) ==
    /\ file' = t
    /\ IF Storable(get_config(t).cert)
       THEN app' = get_config(t) /\ orig' = app' /\ ran' = ui
       ELSE UNCHANGED <<app, orig>> /\ ran' = "failed"
main(ui) ==
    /\ ~Running
    /\ Load(IF file = NoFile THEN serialize(generate_config) ELSE file, ui)
    /\ UNCHANGED <<dir, props, edits, odd>>
fltk_main == main("fltk")
daemon_main == main("daemon")

\* The user edits the file while the program is not running.
Values(f) == CASE f = "threads" -> {3, 4} [] f = "port" -> {22001, 22002} [] f \in {"renabled", "rdebug", "shown"} -> BOOLEAN
               [] f = "url" -> {"default", "bad"} [] f = "store" -> {"", "some"} [] f = "cert" -> {"tilde", "own"}
               [] f = "logs" -> {{}, {"stdout"}} [] f = "level" -> {"info", "crit"}
EditFile(f) ==
    /\ ~Running /\ file # NoFile /\ edits < MaxEdits /\ edits' = edits + 1
    /\ \E e \in {Entry(v) : v \in Values(f)} \cup {Absent(f)} : file[f] # e /\ file' = [file EXCEPT ![f] = e]
    /\ UNCHANGED <<dir, app, orig, props, ran, odd>>

----------------------------------------------------------------------------
\* The dialog.

property_t(v, d) == [value |-> v, native |-> v, initial |-> v, default |-> d, error |-> FALSE]
\* The relay's debug property is made from enabled.
reflect(c, d) ==
    [f \in Dialog |-> IF f = "rdebug" THEN property_t(c.renabled, d.renabled)
                      ELSE IF f = "logs" THEN property_t(c.logs, c.logs) ELSE property_t(c[f], d[f])]
reflect_to(p, f) == IF f \in Native THEN (IF f = "port" THEN p.native % PortRange ELSE p.native) ELSE p.value
reflect_all(ps, d) == [f \in Fields |-> IF f \in Dialog THEN reflect_to(ps[f], f) ELSE d[f]]
is_valid(ps) == \A f \in DOMAIN ps : ~ps[f].error

\* 0 stands for no number, or none above zero.
validate_value(f, v) == \/ f \in {"threads", "port"} /\ v = 0
                        \/ f = "url" /\ v = "bad"
set_value(p, f, v) ==
    LET err == validate_value(f, v)
    IN  [p EXCEPT !.value = v, !.error = err, !.native = IF err THEN @ ELSE v]
\* The value only: the number that is written stays.
reset(p) == [p EXCEPT !.value = p.default, !.error = FALSE]
undo(p) == [p EXCEPT !.value = p.initial, !.error = FALSE]
Stale(f, p) == f \in Native /\ p.native # p.value /\ ~p.error

\* on_select: control_t.
open_dialog ==
    /\ ran = "fltk" /\ Running /\ edits < MaxEdits /\ edits' = edits + 1
    /\ props' = reflect(app, generate_config)
    /\ odd' = (odd \/ app.rdebug # app.renabled)
    /\ UNCHANGED <<dir, file, app, orig, ran>>
Typed(f) == CASE f = "threads" -> {0, 4} [] f = "port" -> {0, 22002, 22002 + PortRange} [] f = "url" -> {"other", "bad"}
              [] f \in {"renabled", "rdebug"} -> BOOLEAN [] f = "store" -> {"some"} [] f = "cert" -> {"other"} [] f = "logs" -> {}
Change(f, p) ==
    /\ props # NoDialog /\ edits < MaxEdits /\ edits' = edits + 1
    /\ p # props[f] /\ props' = [props EXCEPT ![f] = p]
    /\ odd' = (odd \/ Stale(f, p))
    /\ UNCHANGED <<dir, file, app, orig, ran>>
save_input(f) == props # NoDialog /\ \E v \in Typed(f) : Change(f, set_value(props[f], f, v))
button_undo(f) == props # NoDialog /\ f # "logs" /\ props[f].value # props[f].initial /\ Change(f, undo(props[f]))
button_reset(f) == props # NoDialog /\ f # "logs" /\ props[f].value # props[f].default /\ Change(f, reset(props[f]))
on_reset ==
    /\ props # NoDialog /\ edits < MaxEdits /\ edits' = edits + 1
    /\ props' = [f \in Dialog |-> reset(props[f])]
    /\ odd' = (odd \/ \E f \in Dialog : Stale(f, props'[f]))
    /\ UNCHANGED <<dir, file, app, orig, ran>>

WriteLater(c) == file' = file /\ orig' = c      \* mutant
write_config(c) == file' = serialize(c) /\ orig' = c
\* mutant: the window's settings are replaced, too
SaveAll ==
    /\ props # NoDialog /\ is_valid(props)
    /\ LET cfg == reflect_all(props, generate_config) IN write_config(cfg) /\ app' = cfg
    /\ UNCHANGED <<dir, props, ran, edits, odd>>
on_save ==
    /\ props # NoDialog /\ is_valid(props)
    /\ LET cfg == [f \in Fields |-> IF f \in Window THEN app[f] ELSE reflect_all(props, generate_config)[f]]
       IN  write_config(cfg) /\ app' = cfg
    /\ UNCHANGED <<dir, props, ran, edits, odd>>

\* The toolbar and the log panel.
set_show_deleted ==
    /\ ran = "fltk" /\ Running /\ edits < MaxEdits /\ edits' = edits + 1
    /\ app' = [app EXCEPT !.shown = ~@]
    /\ UNCHANGED <<dir, file, orig, props, ran, odd>>
min_display_level(l) ==
    /\ ran = "fltk" /\ Running /\ l # app.level /\ edits < MaxEdits /\ edits' = edits + 1
    /\ app' = [app EXCEPT !.level = l]
    /\ UNCHANGED <<dir, file, orig, props, ran, odd>>

\* shutdown_finish: written if it differs from what was loaded or written.
shutdown_finish ==
    /\ Running
    /\ IF ran = "fltk" /\ serialize(app) # serialize(orig) THEN write_config(app) ELSE UNCHANGED <<file, orig>>
    /\ app' = NoConfig /\ props' = NoDialog
    /\ UNCHANGED <<dir, ran, edits, odd>>
\* The file is truncated before it is written.
Crash ==
    /\ Running /\ edits < MaxEdits /\ edits' = edits + 1
    /\ file' \in {file} \cup (IF ran = "fltk" THEN {[f \in Fields |-> Absent(f)]} ELSE {})
    /\ app' = NoConfig /\ props' = NoDialog
    /\ UNCHANGED <<dir, orig, ran, odd>>

Init ==
    /\ dir \in Dirs /\ file = NoFile /\ app = NoConfig /\ orig = NoConfig /\ props = NoDialog
    /\ ran = "never" /\ edits = 0 /\ odd = FALSE

Next ==
    \/ fltk_main \/ daemon_main \/ open_dialog \/ on_reset \/ on_save
    \/ \E f \in Fields : EditFile(f)
    \/ \E f \in Dialog : save_input(f) \/ button_undo(f) \/ button_reset(f)
    \/ set_show_deleted \/ \E l \in {"info", "critical"} : min_display_level(l)
    \/ shutdown_finish \/ Crash

Spec == Init /\ [][Next]_vars

----------------------------------------------------------------------------
\* Type invariant.
TypeOK ==
    /\ DOMAIN file \in {{}, Fields} /\ DOMAIN app \in {{}, Fields} /\ DOMAIN props \in {{}, Dialog}
    /\ ran \in {"never", "fltk", "daemon", "failed"} /\ edits \in 0..MaxEdits /\ odd \in BOOLEAN
    /\ Running => app.port \in 0 .. PortRange - 1 /\ app.url # "bad"

Same(c, d) == \A f \in Fields \ {"logs"} : \/ f = "level" /\ c.level = "critical"
                                           \/ f = "cert" /\ expand_home(c.cert) = d.cert
                                           \/ c[f] = d[f]

\* What is written is read again: saving and starting anew give the same
\* configuration, except for the level "critical" and the log sinks.
RoundTrip == Running => Same(app, get_config(serialize(app)))

\* While the program runs, the file says what the program takes it to say; so
\* what is not written at shutdown for being the same is in the file.
FileFollows == Running => Same(orig, get_config(file))

\* What the dialog saves is what it shows, as long as no number was undone or
\* reset and the relay's debug flag is as its enabled flag.
Shown(f) == IF f = "port" THEN props.port.value % PortRange ELSE props[f].value
SavesShown == on_save /\ ~odd => \A f \in Dialog : file'[f].v = Shown(f)
ShownIsSaved == [][SavesShown]_vars

\* The window's settings and the dialog's do not undo one another: a shutdown
\* writes no setting of the dialog that was not written before, and a save writes
\* the window's settings as they are.
KeepsOthers ==
    /\ shutdown_finish => \A f \in Dialog : get_config(file')[f] = get_config(file)[f]
    /\ on_save => \A f \in Window : app'[f] = app[f]
Independent == [][KeepsOthers]_vars

\* In the default directory the program starts, whatever was saved, reset, edited
\* or lost.
StartsAgain == dir = "home" => ran # "failed"

\* Undo and reset of a setting hold when it is saved.
UndoneIsSaved == [][on_save => \A f \in Dialog : file'[f].v = Shown(f)]_vars
\* Saving the settings does not change those that were not touched.
UntouchedKept == [][on_save => \A f \in Dialog : props[f].value = props[f].initial => app'[f] = app[f]]_vars
\* A program started in a directory of its own starts.
Starts == ran # "failed"

\* The configuration survives being saved, edited and read again.
ConfigKept == TypeOK /\ RoundTrip /\ FileFollows /\ StartsAgain
=============================================================================
