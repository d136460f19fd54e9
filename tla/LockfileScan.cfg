SPECIFICATION Spec
CONSTANTS
    MaxFiles = 2
    MaxLines = 5
    MaxEntries = 2
    Limits = {1, 2}
    Formats = {"npm", "cargo", "go", "rubygems", "pub", "pnpm", "yarn", "python", "composer", "nuget", "maven", "conan", "vcpkg", "workflow", "west", "submodules"}
    UnreadableKeys = FALSE
    MaxPythonContinuationLines = 1
INVARIANTS
    NothingSilentlyDropped
    NoCrossTalk
    LimitsAreReported
CHECK_DEADLOCK FALSE
