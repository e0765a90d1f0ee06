----------------------------- MODULE KeyTables -----------------------------
(***************************************************************************)
(* The tables a key goes through on its way to the target: the browser's   *)
(* KeyboardEvent.code (server/internal/http/websocket/translator.go), the  *)
(* server's KeyCode and modifier bits (server/internal/kvm/keycode.go,     *)
(* keyevent.go) and the USB HID usage that goes on the wire                *)
(* (server/internal/picolink/hid.go).                                      *)
(***************************************************************************)
EXTENDS Naturals, SequencesExt

\* The constants of package kvm in their iota order; the zero value is none of
\* them.
KeyCodes == <<
    "Backquote", "Backslash", "BracketLeft", "BracketRight", "Comma",
    "Digit0", "Digit1", "Digit2", "Digit3", "Digit4", "Digit5", "Digit6",
    "Digit7", "Digit8", "Digit9", "Equal", "IntlBackslash", "IntlRo",
    "IntlYen", "KeyA", "KeyB", "KeyC", "KeyD", "KeyE", "KeyF", "KeyG", "KeyH",
    "KeyI", "KeyJ", "KeyK", "KeyL", "KeyM", "KeyN", "KeyO", "KeyP", "KeyQ",
    "KeyR", "KeyS", "KeyT", "KeyU", "KeyV", "KeyW", "KeyX", "KeyY", "KeyZ",
    "Minus", "Period", "Quote", "Semicolon", "Slash", "AltLeft", "AltRight",
    "Backspace", "CapsLock", "ContextMenu", "ControlLeft", "ControlRight",
    "Enter", "MetaLeft", "MetaRight", "ShiftLeft", "ShiftRight", "Space",
    "Tab", "Convert", "KanaMode", "Lang1", "Lang2", "Lang3", "Lang4", "Lang5",
    "NonConvert", "Delete", "End", "Help", "Home", "Insert", "PageDown",
    "PageUp", "ArrowDown", "ArrowLeft", "ArrowRight", "ArrowUp", "NumLock",
    "Numpad0", "Numpad1", "Numpad2", "Numpad3", "Numpad4", "Numpad5",
    "Numpad6", "Numpad7", "Numpad8", "Numpad9", "NumpadAdd",
    "NumpadBackspace", "NumpadClear", "NumpadClearEntry", "NumpadComma",
    "NumpadDecimal", "NumpadDivide", "NumpadEnter", "NumpadEqual",
    "NumpadHash", "NumpadMemoryAdd", "NumpadMemoryClear",
    "NumpadMemoryRecall", "NumpadMemoryStore", "NumpadMemorySubtract",
    "NumpadMultiply", "NumpadParenLeft", "NumpadParenRight", "NumpadStar",
    "NumpadSubtract", "Escape", "F1", "F2", "F3", "F4", "F5", "F6", "F7",
    "F8", "F9", "F10", "F11", "F12", "F13", "F14", "F15", "F16", "F17", "F18",
    "F19", "F20", "F21", "F22", "F23", "F24", "Fn", "FnLock", "PrintScreen",
    "ScrollLock", "Pause", "BrowserBack", "BrowserFavorites",
    "BrowserForward", "BrowserHome", "BrowserRefresh", "BrowserSearch",
    "BrowserStop", "Eject", "LaunchApp1", "LaunchApp2", "LaunchMail",
    "MediaPlayPause", "MediaSelect", "MediaStop", "MediaTrackNext",
    "MediaTrackPrevious", "Power", "Sleep", "AudioVolumeDown",
    "AudioVolumeMute", "AudioVolumeUp", "WakeUp">>

\* kvm[n]: the value of the constant n.
kvm == [n \in ToSet(KeyCodes) |-> CHOOSE i \in DOMAIN KeyCodes : KeyCodes[i] = n]

\* W3CKeyEventTranslator: every code string it knows is the name of its
\* constant; any other string has no KeyCode, any other type no KeyType.
w3cCodeToKVM == [s \in ToSet(KeyCodes) |-> kvm[s]]
KeyTypes == [keydown |-> "down", keyup |-> "up"]

\* The modifier keys in the order of their bits: bit i - 1 is Modifiers[i].
Modifiers == <<"ControlLeft", "ShiftLeft", "AltLeft", "MetaLeft",
               "ControlRight", "ShiftRight", "AltRight", "MetaRight">>

IsModifier(c) == \E i \in DOMAIN Modifiers : kvm[Modifiers[i]] = c

\* The value of ModifierBit, 0 for a key that is no modifier.
ModifierBit(c) ==
    IF IsModifier(c) THEN 2 ^ ((CHOOSE i \in 1..8 : kvm[Modifiers[i]] = c) - 1) ELSE 0

\* A byte with one bit of it set (|=) or cleared (&^=); bit 0 changes nothing.
HasBit(m, b) == b # 0 /\ (m \div b) % 2 = 1
SetBit(m, b) == IF HasBit(m, b) THEN m ELSE m + b
ClearBit(m, b) == IF HasBit(m, b) THEN m - b ELSE m

\* hidUsage as runs of consecutive usages: the first usage and the keys.
UsageRuns == {
    [first |-> 4, keys |-> <<
        "KeyA", "KeyB", "KeyC", "KeyD", "KeyE", "KeyF", "KeyG", "KeyH",
        "KeyI", "KeyJ", "KeyK", "KeyL", "KeyM", "KeyN", "KeyO", "KeyP",
        "KeyQ", "KeyR", "KeyS", "KeyT", "KeyU", "KeyV", "KeyW", "KeyX",
        "KeyY", "KeyZ", "Digit1", "Digit2", "Digit3", "Digit4", "Digit5",
        "Digit6", "Digit7", "Digit8", "Digit9", "Digit0", "Enter", "Escape",
        "Backspace", "Tab", "Space", "Minus", "Equal", "BracketLeft",
        "BracketRight", "Backslash">>],
    [first |-> 51, keys |-> <<
        "Semicolon", "Quote", "Backquote", "Comma", "Period", "Slash",
        "CapsLock", "F1", "F2", "F3", "F4", "F5", "F6", "F7", "F8", "F9",
        "F10", "F11", "F12", "PrintScreen", "ScrollLock", "Pause", "Insert",
        "Home", "PageUp", "Delete", "End", "PageDown", "ArrowRight",
        "ArrowLeft", "ArrowDown", "ArrowUp", "NumLock", "NumpadDivide",
        "NumpadMultiply", "NumpadSubtract", "NumpadAdd", "NumpadEnter",
        "Numpad1", "Numpad2", "Numpad3", "Numpad4", "Numpad5", "Numpad6",
        "Numpad7", "Numpad8", "Numpad9", "Numpad0", "NumpadDecimal",
        "IntlBackslash", "ContextMenu", "Power", "NumpadEqual", "F13", "F14",
        "F15", "F16", "F17", "F18", "F19", "F20", "F21", "F22", "F23", "F24">>],
    [first |-> 117, keys |-> <<"Help">>],
    [first |-> 127, keys |-> <<
        "AudioVolumeMute", "AudioVolumeUp", "AudioVolumeDown">>],
    [first |-> 133, keys |-> <<"NumpadComma">>],
    [first |-> 135, keys |-> <<
        "IntlRo", "KanaMode", "IntlYen", "Convert", "NonConvert">>],
    [first |-> 144, keys |-> <<
        "Lang1", "Lang2", "Lang3", "Lang4", "Lang5">>],
    [first |-> 182, keys |-> <<"NumpadParenLeft", "NumpadParenRight">>],
    [first |-> 224, keys |-> <<
        "ControlLeft", "ShiftLeft", "AltLeft", "MetaLeft", "ControlRight",
        "ShiftRight", "AltRight", "MetaRight">>]}

UsageKeys == UNION {ToSet(run.keys) : run \in UsageRuns}

\* hidUsage[c]: the usage of key code c; keys outside its domain have none.
hidUsage ==
    [c \in {kvm[n] : n \in UsageKeys} |->
        LET n == KeyCodes[c]
            run == CHOOSE r \in UsageRuns : n \in ToSet(r.keys)
        IN run.first + (CHOOSE i \in DOMAIN run.keys : run.keys[i] = n) - 1]

SyncByte == 255

\* Fault: a released key's usage is sent as if it were pressed.
EncodeKeyEventHolds(ke) ==
    IF IsModifier(ke.code) THEN <<SyncByte, ke.mods, 0>>
    ELSE IF ke.code \notin DOMAIN hidUsage THEN << >>
    ELSE <<SyncByte, ke.mods, hidUsage[ke.code]>>

\* EncodeKeyEvent: the frame of an event, or the empty frame when the key has
\* no usage.  A modifier's edge shows in the modifier byte only.
EncodeKeyEvent(ke) ==
    IF IsModifier(ke.code) THEN <<SyncByte, ke.mods, 0>>
    ELSE IF ke.code \notin DOMAIN hidUsage THEN << >>
    ELSE <<SyncByte, ke.mods, IF ke.type = "up" THEN 0 ELSE hidUsage[ke.code]>>
=============================================================================
