---------------------------- MODULE MCSessionClient ----------------------------
EXTENDS SessionClient
CONSTANTS m1, s1
OneMenuClip == {m1}
OneSpeechClip == {s1}
NoClips == {}
Paused == {"controls", "disposition", "autochat", "turn", "media", "debug", "comment", "halt"}
Speaking == {"menu"}
================================================================================
