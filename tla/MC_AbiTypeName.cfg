CONSTANT Universe <- MCUniverse
SPECIFICATION Spec
INVARIANT NameDeterminesEncoding
